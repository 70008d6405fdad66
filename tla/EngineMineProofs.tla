-------------------------- MODULE EngineMineProofs --------------------------
(***************************************************************************)
(* Proofs about EngineMine, for every grid, number of rounds, grouping of  *)
(* the work items and hash function.  What an item finds is reported the   *)
(* same way by every engine; that the host waits for it, and counts the    *)
(* nonces, is proved for OpenCL.  A call is a step of MineCall.            *)
(***************************************************************************)
EXTENDS EngineMine, Recursions, TLAPS

\* Every nonce of the batch is one of the nonces counted (opencl_sha3.cl 42,
\* opencl_engine.rs 271).
LEMMA BatchIsCounted ==
  ASSUME Engine \in {"OpenCL", "CUDA"}
  PROVE  Batch \subseteq nonce_start .. nonce_start + Counted - 1
  <1> SUFFICES ASSUME NEW i \in Items, NEW r \in 0 .. num_iterations - 1
               PROVE  NonceOf(i, r) \in nonce_start .. nonce_start + Counted - 1
    BY DEF Batch
  <1> DEFINE G == grid_size * block_size
  <1>1. G \in Nat /\ GlobalSize = G
    BY CallAssumption DEF GlobalSize
  <1>2. Counted = G * num_iterations
    BY CallAssumption DEF Counted
  <1>3. i \in Nat /\ i < G /\ r \in Nat /\ num_iterations \in Nat /\ r + 1 <= num_iterations
    BY <1>1, CallAssumption DEF Items
  <1> HIDE DEF G
  <1>4. r * G \in Nat
    BY <1>1, <1>3
  <1>5. (num_iterations - (r + 1)) * G \in Nat
    <2>1. num_iterations - (r + 1) \in Nat
      BY <1>3
    <2>2. \A m \in Nat : m * G \in Nat
      BY <1>1
    <2> QED
      BY <2>1, <2>2
  <1>6. (num_iterations - (r + 1)) * G = G * num_iterations - r * G - G
    BY <1>1, <1>3
  <1>7. i + r * G < G * num_iterations
    BY <1>1, <1>3, <1>4, <1>5, <1>6
  <1>8. Stride(i) \in Nat /\ Stride(i) <= G
    <2>1. CASE Engine = "OpenCL"
      BY <1>1, <2>1 DEF Stride
    <2>2. CASE Engine = "CUDA"
      <3>1. block_size \in Nat /\ grid_size \in Nat
        BY CallAssumption
      <3>2. block_size > 0
        BY <1>3, <3>1 DEF G
      <3>3. (i \div block_size) * block_size \in Nat /\ (i \div block_size) * block_size <= i
        <4> DEFINE q == i \div block_size
        <4>1. q \in Int /\ q >= 0 /\ block_size * q <= i
          BY <1>3, <3>1, <3>2
        <4> HIDE DEF q
        <4>2. q \in Nat /\ q * block_size = block_size * q
          BY <3>1, <4>1
        <4>3. q * block_size \in Nat
          BY <3>1, <4>2
        <4> QED BY <4>1, <4>2, <4>3 DEF q
      <3> QED BY <1>1, <1>3, <2>2, <3>3 DEF Stride
    <2> QED BY <2>1, <2>2
  <1>9. r * Stride(i) \in Nat /\ r * Stride(i) <= r * G
    <2>1. r * Stride(i) \in Nat
      BY <1>3, <1>8
    <2>2. G - Stride(i) \in Nat
      BY <1>1, <1>8
    <2>3. r * (G - Stride(i)) \in Nat
      BY <1>3, <2>2
    <2>4. r * (G - Stride(i)) = r * G - r * Stride(i)
      BY <1>1, <1>3, <1>8
    <2> QED BY <1>4, <2>1, <2>3, <2>4
  <1> QED
    BY <1>1, <1>2, <1>3, <1>4, <1>7, <1>9, CallAssumption DEF NonceOf

\* Two different places of the batch hold different nonces: an item's nonces are a
\* whole global size apart (opencl_sha3.cl 42).
LEMMA NonceOfInjective ==
  ASSUME Engine = "OpenCL",
         NEW i \in Items, NEW k \in Items, NEW r \in Nat, NEW q \in Nat,
         NonceOf(i, r) = NonceOf(k, q)
  PROVE  i = k
  <1> DEFINE G == GlobalSize
  <1>1. G \in Nat /\ i \in 0 .. G - 1 /\ k \in 0 .. G - 1
    BY CallAssumption DEF Items, GlobalSize
  <1>2. i + r * G = k + q * G
    <2>1. r * G \in Nat /\ q * G \in Nat
      BY <1>1
    <2> QED
      BY <1>1, <2>1, CallAssumption DEF NonceOf, Stride
  <1> HIDE DEF G
  <1>3. ASSUME NEW a \in Nat, NEW b \in Nat, a > b PROVE a * G >= b * G + G
    <2>1. a - b - 1 \in Nat
      BY <1>3
    <2>2. (a - b - 1) * G \in Nat
      BY <1>1, <2>1
    <2>3. (a - b - 1) * G = a * G - b * G - G
      BY <1>1
    <2>4. a * G \in Nat /\ b * G \in Nat
      BY <1>1
    <2> QED
      BY <1>1, <2>2, <2>3, <2>4
  <1>4. r * G \in Nat /\ q * G \in Nat
    BY <1>1
  <1>5. ~(r > q) /\ ~(q > r)
    BY <1>1, <1>2, <1>3, <1>4
  <1> QED
    BY <1>1, <1>2, <1>4, <1>5

\* Every nonce counted is in the batch.
LEMMA CountedIsBatch ==
  ASSUME Engine = "OpenCL"
  PROVE  nonce_start .. nonce_start + Counted - 1 \subseteq Batch
  <1> SUFFICES ASSUME NEW n \in nonce_start .. nonce_start + Counted - 1
               PROVE  \E i \in Items, r \in 0 .. num_iterations - 1 : n = NonceOf(i, r)
    BY DEF Batch
  <1> DEFINE G == grid_size * block_size
             d == n - nonce_start
  <1>1. G \in Nat /\ GlobalSize = G /\ Counted = G * num_iterations
    BY CallAssumption DEF GlobalSize, Counted
  <1>2. d \in Nat /\ d < G * num_iterations /\ n = nonce_start + d /\ nonce_start \in Nat
    BY <1>1, CallAssumption
  <1>3. num_iterations \in Nat
    BY CallAssumption
  <1> HIDE DEF G, d
  <1>4. G > 0
    BY <1>1, <1>2, <1>3
  <1> DEFINE r == d \div G
             i == d - r * G
  <1>5. r \in Nat /\ r * G <= d /\ d < r * G + G
    <2>1. d \in Int /\ G \in Int /\ G > 0 /\ d >= 0
      BY <1>1, <1>2, <1>4
    <2>2. r \in Int /\ r >= 0
      BY <2>1
    <2>3. G * r <= d /\ d < G * r + G
      BY <2>1
    <2> QED
      BY <2>1, <2>2, <2>3
  <1> HIDE DEF r
  <1>6. r < num_iterations
    <2> SUFFICES ASSUME r >= num_iterations PROVE FALSE
      BY <1>3, <1>5
    <2>1. r - num_iterations \in Nat
      BY <1>3, <1>5
    <2>2. (r - num_iterations) * G \in Nat
      BY <1>1, <2>1
    <2>3. (r - num_iterations) * G = r * G - num_iterations * G
      BY <1>1, <1>3, <1>5
    <2>4. G * num_iterations \in Nat /\ r * G \in Nat
      BY <1>1, <1>3, <1>5
    <2> QED
      BY <1>1, <1>2, <1>3, <1>5, <2>2, <2>3, <2>4
  <1> QED
    <2>1. r * G \in Nat
      BY <1>1, <1>5
    <2>2. i \in Items /\ r \in 0 .. num_iterations - 1
      BY <1>1, <1>2, <1>3, <1>5, <1>6, <2>1 DEF Items
    <2>3. n = NonceOf(i, r)
      BY <1>1, <1>2, <1>5, <2>1 DEF NonceOf, Stride
    <2> QED
      BY <2>2, <2>3

\* The nonce an item works on is in the batch.
LEMMA NonceInBatch ==
  ASSUME TypeOK, NEW i \in Items, round[i] < num_iterations
  PROVE  Nonce(i) \in Batch /\ hash[Nonce(i)] \in Nat \ {0}
  <1>1. round[i] \in 0 .. num_iterations - 1
    BY CallAssumption DEF TypeOK
  <1>2. Nonce(i) \in Batch
    BY <1>1 DEF Nonce, Batch
  <1> QED
    BY <1>2, CallAssumption DEF TypeOK

-----------------------------------------------------------------------------
\* The inductive invariant.

\* Only nonces that solve are in the output or on their way to it.
Reports ==
  /\ output.nonce # 0 => Meets(output.nonce)
  /\ \A i \in Items : "nonce" \in pending[i] => Meets(Nonce(i))

\* A solution is in the output or on its way to it.
Claimed == output.nonce # 0 \/ \E i \in Items : "nonce" \in pending[i]

\* There is one as soon as an item has stored or finished a round with a solution.
Claims ==
  (\A n \in Batch : n = 0 => ~Meets(n)) =>
    /\ \A best \in was : best # 0 /\ best < difficulty => Claimed
    /\ \A i \in Items : "best" \in pending[i] /\ Meets(Nonce(i)) => Claimed
    /\ \A i \in Items : \A r \in 0 .. num_iterations - 1 :
         r < round[i] /\ Meets(NonceOf(i, r)) => Claimed

\* With a best hash: while none is stored no round is over.
Idle ==
  output.best = 0 =>
    /\ was = {0}
    /\ \A i \in Items : round[i] = 0 /\ pending[i] # {"nonce"}

\* Where the host of OpenCL stands.
Hosting ==
  /\ host \in {"enqueue", "panicked"} => output.best = 0
  /\ host = "enqueue" => output.nonce = 0 /\ \A i \in Items : pending[i] = {}
  /\ host = "returned" => output.best # 0
  /\ host \in {"finish", "returned"} =>
       output.best = 0 \/ \A i \in Items : round[i] = num_iterations

\* Metal's kernel alone hashes something else.
SameHash == Engine # "Metal" => hash = sha3

Inv == TypeOK /\ SameHash /\ Reports /\ Claims

InvOpenCL == Inv /\ Idle /\ Hosting

LEMMA TypeStep == TypeOK /\ [Next]_vars => TypeOK'
  <1> SUFFICES ASSUME TypeOK, [Next]_vars PROVE TypeOK'
    OBVIOUS
  <1> USE CallAssumption
  <1>1. CASE Enqueue \/ EnqueueFails \/ QueuePanics \/ MineFails \/ Finish \/ Return
    BY <1>1 DEF TypeOK, Over, Enqueue, EnqueueFails, QueuePanics, MineFails, Finish, Return, call
  <1>2. ASSUME NEW i \in Items, Skip(i) PROVE TypeOK'
    BY <1>2 DEF TypeOK, Over, Skip, AtCheck, call
  <1>3. ASSUME NEW i \in Items, Claim(i) PROVE TypeOK'
    BY <1>3 DEF TypeOK, Over, Claim, AtCheck, Stores, call
  <1>4. ASSUME NEW i \in Items, NEW which \in {"nonce", "best"}, Landed(i, which)
        PROVE  /\ round' \in [Items -> 0 .. num_iterations]
               /\ pending' \in [Items -> SUBSET {"nonce", "best"}]
               /\ \A k \in Items : pending'[k] # {} => round'[k] < num_iterations
               /\ call' = call /\ host' = host
               /\ round[i] < num_iterations
    BY <1>4 DEF TypeOK, Landed, call
  <1>5. ASSUME NEW i \in Items, StoreNonce(i) PROVE TypeOK'
    BY <1>5, <1>4, NonceInBatch DEF TypeOK, StoreNonce, call
  <1>6. ASSUME NEW i \in Items, StoreBest(i) PROVE TypeOK'
    BY <1>6, <1>4, NonceInBatch DEF TypeOK, StoreBest, call
  <1>7. CASE Done \/ UNCHANGED vars
    BY <1>7 DEF TypeOK, Done, vars, call
  <1> QED
    BY <1>1, <1>2, <1>3, <1>5, <1>6, <1>7 DEF Next, WorkItem

LEMMA ReportsStep == TypeOK /\ Reports /\ [Next]_vars => Reports'
  <1> SUFFICES ASSUME TypeOK, Reports, [Next]_vars PROVE Reports'
    OBVIOUS
  <1>1. CASE Enqueue \/ EnqueueFails \/ QueuePanics \/ MineFails \/ Finish \/ Return
    BY <1>1 DEF Reports, Meets, Nonce, Enqueue, EnqueueFails, QueuePanics, MineFails,
       Finish, Return, call
  <1>2. ASSUME NEW i \in Items, Skip(i) PROVE Reports'
    BY <1>2 DEF TypeOK, Reports, Meets, Nonce, Skip, AtCheck, call
  <1>3. ASSUME NEW i \in Items, Claim(i) PROVE Reports'
    <2>1. "nonce" \in Stores(i) => Meets(Nonce(i))
      BY <1>3 DEF Stores, Claim, AtCheck, Better
    <2>2. ASSUME NEW k \in Items, "nonce" \in pending'[k]
          PROVE  Meets(Nonce(k))
      BY <1>3, <2>1, <2>2 DEF TypeOK, Reports, Claim
    <2> QED
      BY <1>3, <2>2 DEF Reports, Meets, Nonce, Claim, call
  <1>4. ASSUME NEW i \in Items, NEW which \in {"nonce", "best"}, Landed(i, which)
        PROVE  \A k \in Items : "nonce" \in pending'[k] =>
                 "nonce" \in pending[k] /\ round'[k] = round[k]
    BY <1>4 DEF TypeOK, Landed, call
  <1>5. ASSUME NEW i \in Items, StoreNonce(i) PROVE Reports'
    BY <1>5, <1>4 DEF TypeOK, Reports, Meets, Nonce, StoreNonce, Landed, call
  <1>6. ASSUME NEW i \in Items, StoreBest(i) PROVE Reports'
    BY <1>6, <1>4 DEF TypeOK, Reports, Meets, Nonce, StoreBest, Landed, call
  <1>7. CASE Done \/ UNCHANGED vars
    BY <1>7 DEF Reports, Meets, Nonce, Done, vars, call
  <1> QED
    BY <1>1, <1>2, <1>3, <1>5, <1>6, <1>7 DEF Next, WorkItem

\* What Claimed rests on is never taken back: a nonce is stored, and then stays.
LEMMA ClaimedStays ==
  ASSUME TypeOK, Reports, [Next]_vars, \A n \in Batch : n = 0 => ~Meets(n), Claimed
  PROVE  Claimed'
  <1>1. CASE Enqueue \/ EnqueueFails \/ QueuePanics \/ MineFails \/ Finish \/ Return
    BY <1>1 DEF Claimed, Enqueue, EnqueueFails, QueuePanics, MineFails, Finish, Return, call
  <1>2. ASSUME NEW i \in Items, Skip(i) PROVE Claimed'
    BY <1>2 DEF Claimed, Skip
  <1>3. ASSUME NEW i \in Items, Claim(i) PROVE Claimed'
    BY <1>3 DEF TypeOK, Claimed, Claim, AtCheck
  <1>4. ASSUME NEW i \in Items, StoreNonce(i) PROVE Claimed'
    <2>1. Nonce(i) \in Batch /\ Meets(Nonce(i))
      BY <1>4, NonceInBatch DEF TypeOK, Reports, StoreNonce, Landed
    <2>2. output'.nonce = Nonce(i)
      BY <1>4 DEF TypeOK, StoreNonce
    <2> QED
      BY <2>1, <2>2 DEF Claimed
  <1>5. ASSUME NEW i \in Items, StoreBest(i) PROVE Claimed'
    BY <1>5 DEF TypeOK, Claimed, StoreBest, Landed
  <1>6. CASE Done \/ UNCHANGED vars
    BY <1>6 DEF Claimed, Done, vars, call
  <1> QED
    BY <1>1, <1>2, <1>3, <1>4, <1>5, <1>6 DEF Next, WorkItem

LEMMA LessThanNext ==
  ASSUME NEW a \in Nat, NEW b \in Nat, a < b + 1
  PROVE  a < b \/ a = b
OBVIOUS

LEMMA ClaimsStep == TypeOK /\ Reports /\ Claims /\ [Next]_vars => Claims'
  <1> SUFFICES ASSUME TypeOK, Reports, Claims, [Next]_vars PROVE Claims'
    OBVIOUS
  <1>a. hash' = hash
    <2>1. ASSUME NEW i \in Items, WorkItem(i) PROVE hash' = hash
      <3>1. Skip(i) \/ Claim(i) => hash' = hash
        BY DEF Skip, Claim, call
      <3>2. StoreNonce(i) \/ StoreBest(i) => hash' = hash
        BY DEF StoreNonce, StoreBest, Landed, call
      <3> QED
        BY <2>1, <3>1, <3>2 DEF WorkItem
    <2> QED
      BY <2>1 DEF Next, Enqueue, EnqueueFails, QueuePanics, MineFails, Finish, Return,
         Done, vars, call
  <1> SUFFICES ASSUME \A n \in Batch : n = 0 => ~Meets(n)
               PROVE  /\ \A best \in was' : best # 0 /\ best < difficulty => Claimed'
                      /\ \A k \in Items : "best" \in pending'[k] /\ Meets(Nonce(k))' => Claimed'
                      /\ \A k \in Items : \A r \in 0 .. num_iterations - 1 :
                           r < round'[k] /\ Meets(NonceOf(k, r)) => Claimed'
    BY <1>a DEF Claims, Meets
  <1> USE CallAssumption
  <1>0. Claimed => Claimed'
    BY ClaimedStays
  <1>1. CASE Enqueue \/ EnqueueFails \/ QueuePanics \/ MineFails \/ Finish \/ Return
    BY <1>0, <1>1 DEF Claims, Meets, Nonce, Enqueue, EnqueueFails, QueuePanics, MineFails,
       Finish, Return, call
  <1>2. ASSUME NEW i \in Items, Skip(i)
        PROVE  /\ was' = was /\ pending' = pending /\ hash' = hash
               /\ \A k \in Items : pending[k] # {} => round'[k] = round[k]
               /\ Meets(Nonce(i)) => Claimed
               /\ round' = [round EXCEPT ![i] = @ + 1]
    <2>1. PICK best \in was : ~Better(i, best)
      BY <1>2 DEF Skip
    <2>2. hash[Nonce(i)] \in Nat \ {0}
      BY <1>2, NonceInBatch DEF Skip, AtCheck
    <2>3. Meets(Nonce(i)) => best # 0 /\ best < difficulty
      BY <2>1, <2>2 DEF TypeOK, Better, Meets
    <2> QED
      BY <1>2, <2>1, <2>3 DEF Claims, TypeOK, Skip, AtCheck, call
  <1>3. ASSUME NEW i \in Items, Claim(i)
        PROVE  /\ was' = was /\ round' = round /\ hash' = hash
               /\ Meets(Nonce(i)) => Claimed'
               /\ \A k \in Items \ {i} : pending'[k] = pending[k]
    BY <1>3 DEF TypeOK, Claim, Claimed, Stores, call
  <1>4. ASSUME NEW i \in Items, NEW which \in {"nonce", "best"}, Landed(i, which)
        PROVE  /\ hash' = hash
               /\ \A k \in Items : pending'[k] \subseteq pending[k]
               /\ \A k \in Items : pending'[k] # {} => round'[k] = round[k]
               /\ \A k \in Items : round'[k] # round[k] =>
                    k = i /\ round'[k] = round[k] + 1 /\ pending[i] = {which}
    BY <1>4 DEF TypeOK, Landed, call
  <1>5. CASE Done \/ UNCHANGED vars
    BY <1>0, <1>5 DEF Claims, Meets, Nonce, Done, vars, call
  <1>6. ASSUME NEW i \in Items, NEW r \in 0 .. num_iterations - 1, r < round[i] + 1,
               Meets(Nonce(i)) => Claimed', Meets(NonceOf(i, r))
        PROVE  Claimed'
    <2>1. r < round[i] \/ r = round[i]
      <3>1. round[i] \in Nat /\ r \in Nat
        BY DEF TypeOK
      <3>2. r < round[i] + 1
        BY <1>6
      <3> QED
        BY <3>1, <3>2, LessThanNext
    <2> QED
      BY <1>0, <1>6, <2>1 DEF Claims, Nonce
  <1>7. CASE \E i \in Items : Skip(i)
    <2> PICK i \in Items : Skip(i)
      BY <1>7
    <2>1. \A best \in was' : best # 0 /\ best < difficulty => Claimed'
      BY <1>0, <1>2 DEF Claims
    <2>2. \A k \in Items : "best" \in pending'[k] /\ Meets(Nonce(k))' => Claimed'
      BY <1>0, <1>2 DEF Claims, Meets, Nonce
    <2>3. ASSUME NEW k \in Items, NEW r \in 0 .. num_iterations - 1,
                 r < round'[k], Meets(NonceOf(k, r))
          PROVE  Claimed'
      <3>1. CASE k = i
        BY <1>0, <1>2, <1>6, <2>3, <3>1 DEF TypeOK
      <3>2. CASE k # i
        BY <1>0, <1>2, <2>3, <3>2 DEF Claims, TypeOK
      <3> QED
        BY <3>1, <3>2
    <2> QED
      BY <2>1, <2>2, <2>3
  <1>8. CASE \E i \in Items : Claim(i)
    <2> PICK i \in Items : Claim(i)
      BY <1>8
    <2>1. \A k \in Items : "best" \in pending'[k] /\ Meets(Nonce(k))' => Claimed'
      BY <1>0, <1>3 DEF Claims, Meets, Nonce
    <2> QED
      BY <1>0, <1>3, <2>1 DEF Claims
  <1>9. CASE \E i \in Items : StoreNonce(i) \/ StoreBest(i)
    <2> PICK i \in Items, which \in {"nonce", "best"} :
             /\ Landed(i, which)
             /\ (which = "best") => was' = was \cup {hash[Nonce(i)]}
             /\ (which = "nonce") => was' = was
      BY <1>9 DEF StoreNonce, StoreBest
    <2>1. which \in pending[i] /\ round[i] < num_iterations
      BY DEF Landed, TypeOK
    <2>2. Meets(Nonce(i)) => Claimed
      BY <2>1 DEF Claims, Claimed
    <2>3. \A best \in was' : best # 0 /\ best < difficulty => Claimed'
      BY <1>0, <2>2 DEF Claims, Meets
    <2>4. \A k \in Items : "best" \in pending'[k] /\ Meets(Nonce(k))' => Claimed'
      BY <1>0, <1>4 DEF Claims, Meets, Nonce
    <2>5. ASSUME NEW k \in Items, NEW r \in 0 .. num_iterations - 1,
                 r < round'[k], Meets(NonceOf(k, r))
          PROVE  Claimed'
      <3>1. CASE round'[k] = round[k]
        BY <1>0, <2>5, <3>1 DEF Claims
      <3>2. CASE round'[k] # round[k]
        BY <1>0, <1>4, <1>6, <2>2, <2>5, <3>2
      <3> QED
        BY <3>1, <3>2
    <2> QED
      BY <2>3, <2>4, <2>5
  <1> QED
    BY <1>1, <1>5, <1>7, <1>8, <1>9 DEF Next, WorkItem

LEMMA IdleStep == Engine = "OpenCL" /\ TypeOK /\ Idle /\ [Next]_vars => Idle'
  <1> SUFFICES ASSUME Engine = "OpenCL", TypeOK, Idle, [Next]_vars PROVE Idle'
    OBVIOUS
  <1>1. CASE Enqueue \/ EnqueueFails \/ QueuePanics \/ MineFails \/ Finish \/ Return
    BY <1>1 DEF Idle, Enqueue, EnqueueFails, QueuePanics, MineFails, Finish, Return, call
  <1>2. ASSUME NEW i \in Items, Skip(i) PROVE Idle'
    <2>1. output.best # 0
      BY <1>2 DEF Idle, Skip, Better
    <2> QED
      BY <1>2, <2>1 DEF Idle, Skip
  <1>3. ASSUME NEW i \in Items, Claim(i) PROVE Idle'
    BY <1>3 DEF TypeOK, Idle, Claim, Stores
  <1>4. ASSUME NEW i \in Items, StoreNonce(i) PROVE Idle'
    <2>1. output'.best = output.best /\ was' = was
      BY <1>4 DEF TypeOK, StoreNonce
    <2>2. ASSUME output.best = 0
          PROVE  \A k \in Items : round'[k] = 0 /\ pending'[k] # {"nonce"}
      BY <1>4, <2>2 DEF TypeOK, Idle, StoreNonce, Landed
    <2> QED
      BY <2>1, <2>2 DEF Idle
  <1>5. ASSUME NEW i \in Items, StoreBest(i) PROVE Idle'
    <2>1. round[i] < num_iterations
      BY <1>5 DEF TypeOK, StoreBest, Landed
    <2>2. output'.best # 0
      BY <1>5, <2>1, NonceInBatch DEF TypeOK, StoreBest
    <2> QED
      BY <2>2 DEF Idle
  <1>6. CASE Done \/ UNCHANGED vars
    BY <1>6 DEF Idle, Done, vars, call
  <1> QED
    BY <1>1, <1>2, <1>3, <1>4, <1>5, <1>6 DEF Next, WorkItem

LEMMA HostingStep == Engine = "OpenCL" /\ TypeOK /\ Hosting /\ [Next]_vars => Hosting'
  <1> SUFFICES ASSUME Engine = "OpenCL", TypeOK, Hosting, [Next]_vars PROVE Hosting'
    OBVIOUS
  <1>1. CASE Enqueue \/ EnqueueFails \/ QueuePanics \/ MineFails \/ Finish \/ Return
    BY <1>1 DEF Hosting, Enqueue, EnqueueFails, QueuePanics, MineFails, Finish, Return, call
  <1>2. CASE \E i \in Items : WorkItem(i)
    <2>1. PICK i \in Items : WorkItem(i)
      BY <1>2
    <2>2. host = "running" /\ host' = host
      <3>1. Skip(i) \/ Claim(i) => host = "running" /\ host' = host
        BY DEF Skip, Claim, AtCheck
      <3>2. StoreNonce(i) \/ StoreBest(i) => host = "running" /\ host' = host
        BY DEF StoreNonce, StoreBest, Landed
      <3> QED
        BY <2>1, <3>1, <3>2 DEF WorkItem
    <2> QED
      BY <2>2 DEF Hosting
  <1>3. CASE Done \/ UNCHANGED vars
    BY <1>3 DEF Hosting, Done, vars, call
  <1> QED
    BY <1>1, <1>2, <1>3 DEF Next

LEMMA SameHashStep == SameHash /\ [Next]_vars => SameHash'
  <1> SUFFICES ASSUME [Next]_vars PROVE call' = call
    BY DEF SameHash, call
  <1>1. ASSUME NEW i \in Items, WorkItem(i) PROVE call' = call
    <2>1. Skip(i) \/ Claim(i) => call' = call
      BY DEF Skip, Claim
    <2>2. StoreNonce(i) \/ StoreBest(i) => call' = call
      BY DEF StoreNonce, StoreBest, Landed
    <2> QED
      BY <1>1, <2>1, <2>2 DEF WorkItem
  <1> QED
    BY <1>1 DEF Next, Enqueue, EnqueueFails, QueuePanics, MineFails, Finish, Return, Done, vars

\* The invariant holds in every state of mine and its work items, in every engine
\* (opencl_engine.rs 160-282, opencl_sha3.cl 31-170, cuda_engine.rs 104-180).
THEOREM Invariance == Spec => []Inv
  <1>1. Init => Inv
    <2> SUFFICES ASSUME Init PROVE Inv
      OBVIOUS
    <2>1. TypeOK /\ SameHash
      BY CallAssumption DEF Init, TypeOK, SameHash
    <2>2. Reports
      BY DEF Init, Reports
    <2>3. Claims
      BY CallAssumption DEF Init, Claims
    <2> QED
      BY <2>1, <2>2, <2>3 DEF Inv
  <1>2. Inv /\ [Next]_vars => Inv'
    BY TypeStep, SameHashStep, ReportsStep, ClaimsStep DEF Inv
  <1> QED
    BY <1>1, <1>2, PTL DEF Spec

\* The host of OpenCL waits for its work items (opencl_engine.rs 260-262).
THEOREM InvarianceOpenCL ==
  ASSUME Engine = "OpenCL"
  PROVE  Spec => []InvOpenCL
  <1>1. Init => Idle /\ Hosting
    BY DEF Init, Idle, Hosting
  <1>2. Inv /\ Idle /\ Hosting /\ [Next]_vars => (Idle /\ Hosting)'
    BY IdleStep, HostingStep DEF Inv
  <1>3. InvOpenCL <=> Inv /\ Idle /\ Hosting
    BY DEF InvOpenCL
  <1> QED
    BY <1>1, <1>2, <1>3, Invariance, PTL DEF Spec

-----------------------------------------------------------------------------
\* The call's state keeps its type (opencl_engine.rs 160-282).
THEOREM TypeCorrect == Spec => []TypeOK
  <1>1. Inv => TypeOK
    BY DEF Inv
  <1> QED
    BY <1>1, Invariance, PTL

\* A nonce in the output solves and is one of those counted, at any time.
LEMMA OutputSolves ==
  ASSUME Engine # "Metal", Inv, output.nonce # 0
  PROVE  /\ output.nonce \in Batch /\ Solves(output.nonce)
         /\ output.nonce \in nonce_start .. nonce_start + Counted - 1
  <1>1. Solves(output.nonce)
    BY DEF Inv, SameHash, Reports, Meets, Solves
  <1>2. output.nonce \in Batch
    BY DEF Inv, TypeOK
  <1> QED BY <1>1, <1>2, BatchIsCounted, CallAssumption

\* When the host of OpenCL goes on, no solution is missing from the output.
LEMMA NothingMissed ==
  ASSUME Engine = "OpenCL", InvOpenCL, host \in {"finish", "returned"}, output.best # 0,
         \A n \in Batch : n = 0 => ~Solves(n), NEW n \in Batch, Solves(n)
  PROVE  output.nonce # 0
  <1>1. PICK i \in Items, r \in 0 .. num_iterations - 1 : n = NonceOf(i, r)
    BY DEF Batch
  <1>2. \A k \in Items : round[k] = num_iterations
    BY DEF InvOpenCL, Inv, Hosting
  <1>3. \A k \in Items : pending[k] = {}
    BY <1>2, CallAssumption DEF InvOpenCL, Inv, TypeOK
  <1>4. r < round[i]
    BY <1>2, CallAssumption
  <1>5. \A m \in Batch : Meets(m) <=> Solves(m)
    BY DEF InvOpenCL, Inv, SameHash, Meets, Solves
  <1>6. Claimed
    BY <1>1, <1>4, <1>5 DEF InvOpenCL, Inv, Claims
  <1> QED BY <1>3, <1>6 DEF Claimed

\* A nonce returned solves and was counted, whatever the race did to the output
\* (opencl_sha3.cl 151-165, opencl_engine.rs 265-273).
THEOREM ReturnsASolution ==
  ASSUME Engine # "Metal"
  PROVE  Spec => []ReportsFound
  <1>1. Inv => ReportsFound
    BY OutputSolves DEF ReportsFound
  <1> QED
    BY <1>1, Invariance, PTL

\* The race never swallows the last solution of a call (opencl_sha3.cl 151-165).
THEOREM RaceKeepsASolution ==
  ASSUME Engine = "OpenCL"
  PROVE  Spec => []SolutionReported
  <1>1. InvOpenCL => SolutionReported
    <2> SUFFICES ASSUME InvOpenCL, host = "returned", \A n \in Batch : n = 0 => ~Solves(n),
                        NEW n \in Batch, Solves(n)
                 PROVE  output.nonce # 0
      BY DEF SolutionReported
    <2>1. output.best # 0
      BY DEF InvOpenCL, Hosting
    <2> QED
      BY <2>1, NothingMissed
  <1> QED
    BY <1>1, InvarianceOpenCL, PTL

\* The nonces counted are those hashed, each by one work item: the next call of
\* run_thread overlaps nothing and leaves nothing out (opencl_sha3.cl 37-42).
THEOREM CountsWhatItHashes ==
  ASSUME Engine = "OpenCL"
  PROVE  Spec => []HashedOnce
  <1>1. InvOpenCL => HashedOnce
    <2> SUFFICES ASSUME InvOpenCL PROVE HashedOnce
      OBVIOUS
    <2> DEFINE Hashed(i) == {NonceOf(i, r) : r \in 0 .. round[i] - 1}
    <2>1. \A i \in Items : round[i] \in 0 .. num_iterations
      BY DEF InvOpenCL, Inv, TypeOK
    <2>2. ASSUME NEW i \in Items, NEW k \in Items, i # k PROVE Hashed(i) \cap Hashed(k) = {}
      BY <2>1, <2>2, NonceOfInjective, CallAssumption
    <2>3. ASSUME host = "returned"
          PROVE  UNION {Hashed(i) : i \in Items} = nonce_start .. nonce_start + Counted - 1
      <3>1. \A i \in Items : round[i] = num_iterations
        BY <2>3 DEF InvOpenCL, Inv, Hosting
      <3>2. UNION {Hashed(i) : i \in Items} = Batch
        BY <3>1 DEF Batch
      <3> QED
        BY <3>2, BatchIsCounted, CountedIsBatch
    <2> QED
      BY <2>2, <2>3 DEF HashedOnce
  <1> QED
    BY <1>1, InvarianceOpenCL, PTL

\* Only a call in which nothing ran panics (opencl_engine.rs 183, 244-252, 278).
THEOREM PanicsOnlyWhenIdle ==
  ASSUME Engine = "OpenCL"
  PROVE  Spec => []PanicsOnlyIdle
  <1>1. InvOpenCL => PanicsOnlyIdle
    BY DEF InvOpenCL, Inv, Hosting, Idle, PanicsOnlyIdle
  <1> QED
    BY <1>1, InvarianceOpenCL, PTL

-----------------------------------------------------------------------------
\* The call is one step of a thread.

LEMMA CallStarts ==
  ASSUME Engine # "Metal", Init
  PROVE  Call!Init
  <1>1. {n \in Batch : Solves(n)} \subseteq nonce_start .. nonce_start + Counted - 1
    BY BatchIsCounted, CallAssumption
  <1>2. host = "enqueue"
    BY DEF Init
  <1> QED
    BY <1>1, <1>2 DEF Call!Init, Over

\* Nothing but Return makes a difference to the thread, and the ends of the call.
LEMMA CallStep ==
  ASSUME Engine # "Metal", Inv, Engine = "OpenCL" => InvOpenCL, [Next]_vars
  PROVE  [Call!Next]_(Call!vars)
  <1> DEFINE Solutions == {n \in Batch : Solves(n)}
  <1>1. ASSUME call' = call PROVE Solutions' = Solutions
    BY <1>1 DEF call, Solves
  <1>2. ASSUME NEW i \in Items, WorkItem(i) PROVE call' = call /\ host' = host /\ host = "running"
    <2>1. Skip(i) \/ Claim(i) => call' = call /\ host' = host /\ host = "running"
      BY DEF Skip, Claim, AtCheck
    <2>2. StoreNonce(i) \/ StoreBest(i) => call' = call /\ host' = host /\ host = "running"
      BY DEF StoreNonce, StoreBest, Landed
    <2> QED
      BY <1>2, <2>1, <2>2 DEF WorkItem
  <1>3. CASE Enqueue \/ EnqueueFails \/ Finish \/ \E i \in Items : WorkItem(i)
    <2>1. /\ call' = call /\ host \notin Over /\ host' \notin Over
          /\ host # "returned" /\ host' # "returned"
      BY <1>2, <1>3 DEF Enqueue, EnqueueFails, Finish, Over
    <2>2. Solutions' = Solutions
      BY <1>1, <2>1
    <2> QED BY <2>1, <2>2 DEF Call!vars
  <1>4. CASE QueuePanics \/ MineFails
    <2>1. /\ call' = call /\ host \in {"enqueue", "running", "finish"}
          /\ host' \in {"failed", "panicked"}
      BY <1>4 DEF QueuePanics, MineFails
    <2>2. Solutions' = Solutions
      BY <1>1, <2>1
    <2> QED BY <2>1, <2>2 DEF Call!Next, Call!Fail, Over
  <1>5. CASE Return
    <2>1. call' = call /\ output' = output /\ host = "finish"
      BY <1>5 DEF Return
    <2>2. Solutions' = Solutions
      BY <1>1, <2>1
    <2>3. CASE host' = "panicked"
      BY <2>1, <2>2, <2>3 DEF Call!Next, Call!Fail, Over
    <2>4. CASE host' = "returned"
      <3>1. output.nonce \in Call!Returnable
        <4>1. CASE output.nonce # 0
          <5>1. output.nonce \in Solutions
            BY <4>1, OutputSolves
          <5> QED BY <5>1 DEF Call!Returnable
        <4>2. CASE output.nonce = 0 /\ Engine # "OpenCL"
          BY <4>2 DEF Call!Returnable
        <4>3. CASE output.nonce = 0 /\ Engine = "OpenCL"
          <5>1. output.best # 0
            BY <1>5, <2>4, <4>3 DEF Return
          <5>2. 0 \in Solutions \/ Solutions = {}
            BY <2>1, <4>3, <5>1, NothingMissed
          <5> QED BY <4>3, <5>2 DEF Call!Returnable
        <4> QED BY <4>1, <4>2, <4>3
      <3> QED BY <2>1, <2>2, <2>4, <3>1 DEF Call!Next, Call!Return, Over
    <2> QED BY <1>5, <2>3, <2>4 DEF Return
  <1>6. CASE Done \/ UNCHANGED vars
    <2>1. call' = call /\ output' = output /\ host' = host
      BY <1>6 DEF Done, vars
    <2>2. Solutions' = Solutions
      BY <1>1, <2>1
    <2> QED BY <2>1, <2>2 DEF Call!vars
  <1> QED
    BY <1>3, <1>4, <1>5, <1>6 DEF Next

\* However the work items race and the host waits, the thread sees one step, with
\* OpenCL one that misses no solution (main.rs 839-877, opencl_engine.rs 160-282,
\* cuda_engine.rs 104-180).
THEOREM ImplementsCall ==
  ASSUME Engine # "Metal"
  PROVE  Spec => CallSpec
  <1>1. Init => Call!Init
    BY CallStarts
  <1>2. Inv /\ (Engine = "OpenCL" => InvOpenCL) /\ [Next]_vars => [Call!Next]_(Call!vars)
    BY CallStep
  <1>3. CASE Engine = "OpenCL"
    <2>1. Spec => []InvOpenCL
      BY <1>3, InvarianceOpenCL
    <2>2. InvOpenCL /\ [Next]_vars => [Call!Next]_(Call!vars)
      BY <1>2 DEF InvOpenCL
    <2> QED
      BY <1>1, <2>1, <2>2, PTL DEF Spec, CallSpec, Call!Spec
  <1>4. CASE Engine # "OpenCL"
    <2>1. Inv /\ [Next]_vars => [Call!Next]_(Call!vars)
      BY <1>2, <1>4
    <2> QED
      BY <1>1, <2>1, Invariance, PTL DEF Spec, CallSpec, Call!Spec
  <1> QED
    BY <1>3, <1>4

-----------------------------------------------------------------------------
\* While an item has rounds to do, one has a store to make or is past its barrier.
SomeItemMoves ==
  host = "running" /\ (\E i \in Items : round[i] # num_iterations) =>
    \E i \in Items : pending[i] # {} \/ AtCheck(i)

\* No barrier waits for itself, however the items are grouped and however far they
\* have come: one that has come least far is held up by nobody (opencl_sha3.cl 150,
\* metal_sha3.metal 149).  This is what MineEnds needs besides fairness.
THEOREM BarrierNeverBlocks == Spec => []SomeItemMoves
  <1>1. TypeOK => SomeItemMoves
    <2> SUFFICES ASSUME TypeOK, host = "running",
                        NEW k \in Items, round[k] # num_iterations
                 PROVE  \E i \in Items : pending[i] # {} \/ AtCheck(i)
      BY DEF SomeItemMoves
    <2>1. \A i \in Items : round[i] \in 0 .. num_iterations
      BY DEF TypeOK
    <2> DEFINE Rounds == {round[i] : i \in Items}
    <2>2. Rounds \subseteq Nat /\ Rounds # {}
      BY <2>1
    <2>3. PICK least \in Rounds : \A r \in Rounds : least <= r
      BY <2>2, NatMinimum
    <2>4. PICK i \in Items : round[i] = least
      BY <2>3
    <2>5. round[i] <= round[k] /\ \A j \in Items : round[j] >= round[i]
      BY <2>1, <2>3, <2>4
    <2>6. round[i] < num_iterations
      <3>1. round[i] \in Nat /\ round[k] \in Nat /\ num_iterations \in Nat
        BY <2>1, CallAssumption
      <3>2. round[k] <= num_iterations
        BY <2>1
      <3> HIDE DEF Rounds
      <3> QED BY <2>5, <3>1, <3>2
    <2>7. PastBarrier(i)
      BY <2>5 DEF PastBarrier
    <2> QED BY <2>6, <2>7 DEF AtCheck
  <1> QED
    BY <1>1, TypeCorrect, PTL
=============================================================================
