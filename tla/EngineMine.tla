----------------------------- MODULE EngineMine -----------------------------
(***************************************************************************)
(* One call of the mine function of an engine and the work items it starts *)
(* on the device: OpenCL (opencl_engine.rs, opencl_sha3.cl), Metal         *)
(* (metal_engine.rs, metal_sha3.metal) or CUDA (cuda_engine.rs,            *)
(* keccak.ptx).  Every work item hashes one nonce in each round.           *)
(*                                                                         *)
(* In OpenCL and Metal all items report through the same two words, the    *)
(* best hash and the nonce of a hash below the target, with plain loads    *)
(* and stores: a data race.  A load may return any value the word has had, *)
(* and the two stores of an item land in either order.  In CUDA there is   *)
(* the nonce alone.                                                        *)
(*                                                                         *)
(* SHA-3 is any function from nonces to hashes, the 64 bits the kernel     *)
(* compares.  A hash of 0, one in 2^64, is left out.                       *)
(***************************************************************************)
EXTENDS Integers

CONSTANTS
  Engine,                \* "OpenCL", "Metal" or "CUDA"
  grid_size, block_size, num_iterations, nonce_start,
  MaxTotalThreads,       \* Metal's max_total_threads_per_threadgroup
  WordSize,              \* 2^32: the products are u32
  difficulty,            \* a nonce solves when its hash is below it
  Hashes,                \* the hash functions explored
  Group                  \* work group of each work item

\* Metal takes its first argument for the number of threads, not of groups.
GlobalSize ==
  IF Engine = "Metal" THEN block_size ELSE (grid_size * block_size) % WordSize

Items == 0 .. GlobalSize - 1

\* The number of hashes mine reports to run_thread.
Counted ==
  LET width == IF Engine = "Metal" /\ MaxTotalThreads < grid_size
               THEN MaxTotalThreads ELSE grid_size
  IN  (width * block_size * num_iterations) % WordSize

\* How far apart the nonces of an item are: in CUDA, by the offset of its block.
Stride(i) == IF Engine = "CUDA" THEN (i \div block_size) * block_size ELSE GlobalSize

\* Mutant: rounds that are one nonce apart.
NonceOf_NextToIt(i, r) == nonce_start + i + r

NonceOf(i, r) == nonce_start + i + r * Stride(i)
Batch == {NonceOf(i, r) : i \in Items, r \in 0 .. num_iterations - 1}

\* iterations_per_cycle is at most what the u32 can count, see run_thread.
ASSUME CallAssumption ==
  /\ Engine \in {"OpenCL", "Metal", "CUDA"}
  /\ MaxTotalThreads \in Nat
  /\ {grid_size, block_size, num_iterations, nonce_start} \subseteq Nat
  /\ WordSize \in Nat \ {0}
  /\ grid_size * block_size < WordSize
  /\ grid_size * block_size * num_iterations < WordSize
  /\ difficulty \in Nat
  /\ Hashes \subseteq [Batch -> Nat \ {0}]
  /\ Group \in [Items -> Nat]

VARIABLES
  sha3,                  \* of the header with each nonce
  hash,                  \* what the kernel computes instead
  host,                  \* what mine is doing
  output,                \* output_1: [nonce, best], zero at first
  was,                   \* the values output.best has had
  round,                 \* rounds each work item has finished
  pending                \* stores of its round an item has yet to make

call == <<sha3, hash>>
vars == <<call, host, output, was, round, pending>>

Solves(n) == sha3[n] < difficulty
\* What the kernel finds to solve.
Meets(n) == hash[n] < difficulty
Nonce(i) == NonceOf(i, round[i])

\* Metal's kernel reads words 3 to 5 of a buffer that holds words 0 to 2, and
\* reverses the bits of the hash instead of its bytes.
Init ==
  /\ sha3 \in Hashes
  /\ hash \in IF Engine = "Metal" THEN Hashes ELSE {sha3}
  /\ host = "enqueue"
  /\ output = [nonce |-> 0, best |-> 0]
  /\ was = {0}
  /\ round = [i \in Items |-> 0]
  /\ pending = [i \in Items |-> {}]

-----------------------------------------------------------------------------
\* The host.

Enqueue ==
  /\ host = "enqueue"
  /\ GlobalSize > 0
  /\ host' = "running"
  /\ UNCHANGED <<call, output, was, round, pending>>

\* A kernel that OpenCL cannot enqueue is logged, one that Metal cannot run is not
\* looked at, and mine goes on.
EnqueueFails ==
  /\ host = "enqueue"
  /\ Engine # "CUDA"
  /\ host' = "finish"
  /\ UNCHANGED <<call, output, was, round, pending>>

\* No command queue, or no copy of the data in CUDA.
QueuePanics ==
  /\ host = "enqueue"
  /\ Engine # "Metal"
  /\ host' = "panicked"
  /\ UNCHANGED <<call, output, was, round, pending>>

\* No buffer, or a command that fails; in Metal, no pipeline.
MineFails ==
  /\ host \in (IF Engine = "Metal" THEN {"enqueue"} ELSE {"enqueue", "running", "finish"})
  /\ host' = "failed"
  /\ UNCHANGED <<call, output, was, round, pending>>

\* Mutant: the output is read before the queue has finished.
Finish_NoWait ==
  /\ host = "running"
  /\ host' = "finish"
  /\ UNCHANGED <<call, output, was, round, pending>>

\* Only OpenCL is sure that every item is done.  CUDA copies the output without
\* synchronizing with the stream of the kernel, and Metal does not ask whether the
\* command buffer was completed or given up.
Finish ==
  /\ host = "running"
  /\ Engine = "OpenCL" => \A i \in Items : round[i] = num_iterations
  /\ host' = "finish"
  /\ UNCHANGED <<call, output, was, round, pending>>

\* u64::MAX / output[1] comes with either result, but not in CUDA.
Return ==
  /\ host = "finish"
  /\ host' = IF output.best = 0 /\ Engine # "CUDA" THEN "panicked" ELSE "returned"
  /\ UNCHANGED <<call, output, was, round, pending>>

-----------------------------------------------------------------------------
\* A work item.

\* Mutant: an item waits for the next round of its group.
PastBarrier_NextRound(i) ==
  \A k \in Items \ {i} : Group[k] = Group[i] => round[k] > round[i]

\* barrier(CLK_GLOBAL_MEM_FENCE), threadgroup_barrier: the group has come this far.
PastBarrier(i) ==
  Engine = "CUDA" \/ \A k \in Items : Group[k] = Group[i] => round[k] >= round[i]

AtCheck(i) ==
  /\ host = "running"
  /\ round[i] < num_iterations
  /\ pending[i] = {}
  /\ PastBarrier(i)

\* The item has something to store, with the best hash it sees.
Better(i, best) ==
  IF Engine = "CUDA" THEN Meets(Nonce(i)) ELSE best = 0 \/ best > hash[Nonce(i)]

\* Mutant: the nonce is stored with every better hash.
Stores_AnyNonce(i) == {"nonce", "best"}

Stores(i) ==
  CASE Engine = "CUDA" -> {"nonce"}
    [] Engine # "CUDA" /\ Meets(Nonce(i)) -> {"nonce", "best"}
    [] OTHER -> {"best"}

\* Mutant: a hash that does not solve is not stored.
Skip_SolversOnly(i) ==
  /\ AtCheck(i)
  /\ ~Meets(Nonce(i)) \/ \E best \in was : ~Better(i, best)
  /\ round' = [round EXCEPT ![i] = @ + 1]
  /\ UNCHANGED <<call, host, output, was, pending>>

\* The hash is no better than the one the item sees: the round is over.
Skip(i) ==
  /\ AtCheck(i)
  /\ \E best \in was : ~Better(i, best)
  /\ round' = [round EXCEPT ![i] = @ + 1]
  /\ UNCHANGED <<call, host, output, was, pending>>

Claim(i) ==
  /\ AtCheck(i)
  /\ \E best \in was : Better(i, best)
  /\ pending' = [pending EXCEPT ![i] = Stores(i)]
  /\ UNCHANGED <<call, host, output, was, round>>

\* Mutant: the round ends with its first store.
Landed_EndsRound(i, which) ==
  /\ host = "running"
  /\ which \in pending[i]
  /\ pending' = [pending EXCEPT ![i] = @ \ {which}]
  /\ round' = [round EXCEPT ![i] = @ + 1]
  /\ UNCHANGED <<call, host>>

Landed(i, which) ==
  /\ host = "running"
  /\ which \in pending[i]
  /\ pending' = [pending EXCEPT ![i] = @ \ {which}]
  /\ round' = IF pending[i] = {which} THEN [round EXCEPT ![i] = @ + 1] ELSE round
  /\ UNCHANGED <<call, host>>

StoreNonce(i) ==
  /\ Landed(i, "nonce")
  /\ output' = [output EXCEPT !.nonce = Nonce(i)]
  /\ UNCHANGED was

StoreBest(i) ==
  /\ Landed(i, "best")
  /\ output' = [output EXCEPT !.best = hash[Nonce(i)]]
  /\ was' = was \cup {hash[Nonce(i)]}

WorkItem(i) == Skip(i) \/ Claim(i) \/ StoreNonce(i) \/ StoreBest(i)

Over == {"returned", "panicked", "failed"}
\* Nothing is left to do: lets the model checker tell the end from a deadlock.
Done == host \in Over /\ UNCHANGED vars

Next ==
  \/ Enqueue \/ EnqueueFails \/ QueuePanics \/ MineFails \/ Finish \/ Return
  \/ \E i \in Items : WorkItem(i)
  \/ Done

Spec == Init /\ [][Next]_vars

\* The device runs every work item, and the host its own steps.
FairSpec ==
  /\ Spec
  /\ WF_vars(Enqueue \/ EnqueueFails) /\ WF_vars(Finish) /\ WF_vars(Return)
  /\ \A i \in Items : WF_vars(WorkItem(i))

-----------------------------------------------------------------------------
\* The state has its type; an item has stores pending only within a round.
TypeOK ==
  /\ {sha3, hash} \subseteq Hashes
  /\ host \in {"enqueue", "running", "finish"} \cup Over
  /\ output \in [nonce : Batch \cup {0}, best : Nat]
  /\ was \subseteq Nat
  /\ round \in [Items -> 0 .. num_iterations]
  /\ pending \in [Items -> SUBSET {"nonce", "best"}]
  /\ \A i \in Items : pending[i] # {} => round[i] < num_iterations

\* A nonce that is returned solves and is one of the Counted nonces from
\* nonce_start on, whichever items raced for the output (opencl_sha3.cl 151-165):
\* what run_thread relies on when it submits a block (MiningThreads!Found).  In
\* Metal it need not solve.
ReportsFound ==
  host = "returned" /\ output.nonce # 0 =>
    /\ Solves(output.nonce)
    /\ output.nonce \in nonce_start .. nonce_start + Counted - 1

\* A call that ran and returns reports a solution if there is one: no item that
\* sees a better hash, not even one that sees an old value, keeps the output empty.
\* The nonce 0 means none, so it must not be a solution itself (opencl_engine.rs 267).
\* CUDA may read the output too early and miss it.
SolutionReported ==
  (/\ host = "returned"
   /\ \E n \in Batch : Solves(n)
   /\ \A n \in Batch : n = 0 => ~Solves(n))
     => output.nonce # 0

\* mine panics only when no work item ran: without a queue, or by dividing by the
\* best hash, which is what a kernel that could not be enqueued comes to
\* (opencl_engine.rs 183, 244-252, 278).
PanicsOnlyIdle == host = "panicked" => \A i \in Items : round[i] = 0

\* The hashes counted are the nonces hashed, each once: run_thread's next call
\* starts right behind them (opencl_sha3.cl 42, opencl_engine.rs 271-281).  Metal
\* counts more than it hashes, and the blocks of CUDA overlap after the first round.
HashedOnce ==
  LET Hashed(i) == {NonceOf(i, r) : r \in 0 .. round[i] - 1}
  IN  /\ \A i, k \in Items : i # k => Hashed(i) \cap Hashed(k) = {}
      /\ host = "returned" =>
           UNION {Hashed(i) : i \in Items} = nonce_start .. nonce_start + Counted - 1

\* A call all of whose work items are done has computed as many hashes as it
\* returns: the hash rate is made of them (main.rs 881-910).
HashesAreCounted ==
  host = "returned" /\ (\A i \in Items : round[i] = num_iterations)
    => Counted = GlobalSize * num_iterations

\* The work items, their race and the host are together one step of a thread: what
\* is returned is settled by the time it is returned, is a solution if it is a nonce,
\* and is None only where MineCall says so (main.rs 839-877).  In OpenCL no solution
\* is missed.
Call == INSTANCE MineCall
          WITH Nonces <- nonce_start .. nonce_start + Counted - 1,
               MayMiss <- Engine # "OpenCL",
               solutions <- {n \in Batch : Solves(n)},
               state <- IF host \in Over THEN host ELSE "calling",
               nonce <- IF host = "returned" THEN output.nonce ELSE 0
CallSpec == Call!Spec

\* mine ends: no item waits at the barrier for ever.
MineEnds == <>(host \in Over)
=============================================================================
