# A verification development of glytex

glytex is a GPU miner for Tari. One process polls a node for block templates, mines them on every GPU that is not excluded, submits the blocks it finds and serves statistics over HTTP. This directory models its concurrent parts in TLA+, checks them with TLC on small instances and proves the main safety results with TLAPS for every value of the constants. Paths and line numbers refer to `src/src/` (`main.rs 652` is `src/src/main.rs`, line 652).

## 1. Inventory

| component | code | state it keeps | operations | correct when |
|---|---|---|---|---|
| template watcher | `run_template_height_watcher`, `get_template_from_client`, the block template cache (main.rs 87-109, 601-717, 961-1067) | four `curr_*` variables, `last_template_time`, `num_failures`, the cache | connect, sleep, poll, fetch in one or two calls, replace the cache, give up, stop | the cache follows the node's tip; the age of a template is bounded; failures end it, and only failures; a shutdown ends it |
| node clients | node_client.rs, p2pool_client.rs | a connection | `connect`, `get_height`, `get_block_template`, `get_new_block`, `submit_block` | an answer is a snapshot of the node; errors and time-outs are told apart from answers |
| mining threads | `run_thread` (main.rs 719-947), one for each device | the copy of a template, `nonce_start`, two clocks | read the cache, search a batch, report the hash rate, submit | threads share no nonce; what is submitted solves; no solution is lost; a shutdown ends them |
| main task | `main_inner` (main.rs 503-599) | thread handles, the shutdown signal | start, poll the handles, trigger the shutdown, join | one end ends all; nothing is lost on the way out |
| statistics collector | http/stats_collector.rs | samples by device, two channels | receive a sample, answer a request, stop | averages are those of all samples; every request ends |
| HTTP server | http/server.rs, http/handlers | none but a `StatsClient` | `/health`, `/version`, `/stats` | a handler ends when the collector has ended |
| engines | opencl_engine.rs, opencl_sha3.cl; metal_engine.rs, metal_sha3.metal; cuda_engine.rs, cuda/keccak.ptx; multi_engine_wrapper.rs | the output buffer of a call | `mine` and its work items; `detect_devices`, `num_devices`, `create_context` | a call reports a solution if there is one, only solutions, and counts what it hashed; an index means one device |
| startup | main.rs 150-163, 241-412, config_file.rs, gpu_status_file.rs, multi_engine_wrapper.rs | config file, status file of each engine | load, detect, resolve the user's settings, save, start a thread for each device in use | an excluded device is not mined on, before and after a new detection or a crash; what is printed is what is done; a user's configuration stays |
| find_optimal, benchmark | main.rs 414-501, 829-832 | grid size, step, best hash rate | measure, double, bisect | ends, and prints the best size it measured |
| coinbase | tari_coinbase.rs | none | `generate_coinbase` | pure; its failure is a failed fetch |
| stats store | stats_store.rs | two counters | nothing calls it | |

How they interact:

* The watcher writes the cache and the threads read it (a `RwLock` around a whole template: reads and writes are atomic). Nothing tells a thread that the cache changed; it looks again when it has mined a template for `template_refresh_secs`, or has found a nonce.
* Threads send samples over a broadcast channel to the collector, which holds its only receiver; without an HTTP server `main_inner` holds it.
* HTTP handlers ask the collector through a bounded queue and wait for the answer.
* `main_inner` watches for the first thread that ends and triggers one `Shutdown`, which the watcher looks at once a round, a mining thread between two templates, the collector and the server at once.
* A panic in any thread ends the process (the hook at main.rs 114).

What is hard here: a tip that moves between a poll and the fetch it causes, `curr_*` marked before the fetch succeeded, one deadline over two calls, a failure count shared by polls and fetches, copies of the cache that live on while it changes, statistics sent between finding and submitting a nonce, the end of the collector, connect loops that no shutdown reaches, unsynchronised work items, devices known by an index that several parts count in their own way, files that a crash leaves cut short. PROJECT.json lists the hazards at their lines, each with the properties that watch it, or with the reason why none does.

## 2. Modules

```
TemplateSource          abstract: what a thread may rely on about the cache
  ^ refined by          TemplateWatcher      (proofs: TemplateWatcherProofs)
  ^ instantiated by     Glytex               (the watcher of the process)
MiningThreads           the threads under any environment   (MiningThreadsProofs)
  ^ extended by         Glytex               whole process   (GlytexProofs)
StatsCollector          the collector and its clients      (StatsCollectorProofs)
MineCall                abstract: a call of mine as its caller sees it
  ^ refined by          EngineMine           one call of mine     (proofs: EngineMineProofs)
Startup                 runs of the program and its files  (proofs: StartupProofs)
FindOptimal             the search for a grid size         (proofs: FindOptimalProofs)
Recursions              induction and recursion over the naturals, for the proofs
MC<Module>              constants for TLC
```

**TemplateSource**: a version of the chain (how often its tip moved), the version mined on (0 for none), the publisher's status. Once there is a template there always is one, it never goes back to an older version, nothing is published after the publisher's end.

**TemplateWatcher**: one action per step of the loop between two waits. `pc` is the place where the task waits: `connect`, `sleep`, `height` (a poll), `template` and `newblock` (the calls of a fetch; a p2pool node is only asked for the block), or how it ended. Time is counted in ticks that pass only while the task waits, so its deadlines are exact; `age` is `last_template_time.elapsed()`. A call sends, the node writes an answer at some later moment (`NodeReplies`), the tip goes on moving (`ChainMoves`), the answer arrives; or the call fails, by an error at any moment or by its time-out. A tip is a pair of hashes, node and p2pool; hashes have heights, so that two tips may share one. The second call of a base node's fetch runs under the deadline of the first, and its answer completes the template of the first. Variables under "history" only count what happened; `waited` counts the ticks since a shutdown.

**MiningThreads**: for each device `connect`, `top` (about to look at the shutdown and at the cache), `mine`, `report`, `submit`, `done`, `failed`. A template is known by its version; `Solves` says which nonces solve it. A batch takes one tick of the template's clock. `job` is the hash in `data` and `header` the header that is submitted, read together and kept apart. The environment may do anything the rest of the process might do: publish newer templates, shut down, drop the receiver, crash.

**Glytex** composes: a thread's step is `Thread(i)` of MiningThreads, the watcher is TemplateSource, the collector and `main_inner` are its own. `MinersSafety` says the composition stays within MiningThreads' environment, so what holds of MiningThreads holds here. That the watcher's part is TemplateSource is no property of Glytex, which is written with TemplateSource's actions: it is what `SourceSpec` shows of the detailed watcher.

**StatsCollector**: samples travel through a bounded broadcast channel (a full one forgets its oldest sample and the receiver learns that it lags), requests through a bounded queue. `Keep` is the eviction at 180 samples, `Totals` the single pass over the deque, a recursive function that applies `Take` to each second of the window. Averages are modelled by the totals they divide by 10 and 60. That a device sends at most two samples in one second is an assumption: a thread waits more than 500 ms between them (main.rs 888).

**MineCall**: what `run_thread` can tell of a call of `mine`: it is one step that returns a nonce which solves, or none, or fails. Whether a solution may be missed is a constant; `MiningThreads!Mine` is such a step with solutions that may be missed. EngineMine refines it (`CallSpec`), except with Metal, whose nonces need not solve.

**EngineMine**: the host's calls and, for each work item, the rounds of the kernel, for the engine named by the constant `Engine`. In OpenCL and Metal the output buffer is written with plain stores by all items. This data race is modelled by its outcomes: a load may return any value the word has had, and the two stores of an item land in either order before its round is over. SHA-3 is any function from nonces to positive hashes; a 64-bit hash of 0 is left out. What differs between the engines: Metal starts `block_size` items where the others start `grid_size * block_size`, counts by another product, and its kernel computes a hash of its own (`hash`, where `sha3` is the network's: half of the data is passed on and the bits are reversed); CUDA has no best hash, moves each block on by its own offset, and reads the output without waiting; Metal does not look at how its command buffer ended.

**Startup**: runs of the program from the command line to the mining threads, each of which may end between any two steps, with the machine and the user's edits in between. A file is truncated and then written, in two steps. A machine is the sequence of devices the engine shows; each may fail to be set up (`works`). `DeviceIndex` is what the engine writes into the status file, `Probed` the device it tried for it: in OpenCL both differ from the position. A device stands for its name; `is_available` and `is_excluded` are one flag, because no code sets the first and both only ever count together. Between runs the machine becomes any other one of `Machines`. `shown` is the machine the last detection saw; `wish` is what the user excluded and later detections found at the same place (`Stays`); `own` says that the configuration is the user's.

**FindOptimal**: the loop that doubles and bisects, one action per branch. `rates` says which totals a measurement of each size may come to, so a noisy device is a set and an exact one a singleton. Sizes are `u32` and doubling wraps. A thread that panics ends the process.

Each module carries the mutants of its definitions next to them: plausible bugs, one for each checked property, under which that property fails.

## 3. Runs

| run | instance | shows |
|---|---|---|
| `watcher` | all four configurations; two tips of one height that replace each other; at most 3 versions of the chain, 2 failed calls; sleep 1, time-out 1, refresh 2 ticks; `max_template_failures` 1 | `TemplateCoversTip`, `TemplateAgeBounded`, `GiveUpBounds`, refinement of TemplateSource; `Converges`: the template comes to build on the tip of a quiet chain; `ShutdownStops`: a shutdown ends a task that is connected, and `StopsInTime`: within the round in progress |
| `watcher_giveup` | as `watcher`, base node, 4 failed calls | *violated*: `max_template_failures` never ends a watcher whose fetches fail |
| `miners` | two devices of four nonces, batches of two, two templates, each with solutions in reach of one or both | `DisjointSearch`, `SubmittedSolve`, `NoSolutionDropped`, `ShutdownEndsThreads` |
| `glytex` | two devices, one template that both solve and one that none does, with and without a collector | `StopsOnlyOnFailure`, `ExitLosesNothing`, `StopsTogether`, `MinersSafety` |
| `glytex_nodedown` | the same, and a node that need not accept a connection | *violated*: "if any thread is finished, stop all of them" |
| `engine` | OpenCL; three work items in two groups, two rounds, 162 hash functions over six nonces, nonce 0 among them | `ReportsFound`, `SolutionReported`, `PanicsOnlyIdle`, `HashedOnce`, refinement of MineCall (`CallSpec`), `MineEnds` |
| `engine_metal` | Metal; two threadgroups of two | *violated*: the hashes counted are those computed (`HashesAreCounted`) |
| `stats` | one device, two clients, windows of 2 and 1 seconds, channel of 2, queue of 1, eviction bound 5 | `AveragesExact`, `WindowIsKept`, `EveryRequestEnds` |
| `startup` | CUDA; three devices any of which may be gone, so that those behind it move up, or two that change places, each of which may fail to be set up; any number of runs, crashes and edits | `MinesAsPrinted`, `ExclusionKept`, `MinesByTheFiles`, `UserConfigKept` |
| `startup_opencl` | OpenCL; two devices that may fail to be set up | *violated*: `MinesAsPrinted` |
| `find_optimal` | 5-bit sizes, first size 4, any total below 5 at each measurement | `BestIsMeasured`, `Bracket`, `Terminates` |
| `find_optimal_peak` | the same sizes, exact rates with one peak from 9 to 15 | *violated*: the bisection finds the peak (`FindsOptimal`) |

Why these bounds are enough to be of interest. In `watcher` three versions let the tip move before and during a fetch, and back again; two failures are enough to give up (the count must exceed 1), to fail a poll before a fetch or two fetches in a row; a refresh time of two ticks lets both causes of a refresh occur, with polls between them that cause none. In `miners` a thread reads a template, uses up its whole quota, and reads the next one while the other device is at any other place. In `stats` the eviction bound is the least the assumption `SamplesPerSecond * (Window + 1) <= MaxKept + 1` allows, tighter than the code's (2 * 61 <= 181), so that eviction takes place. In `engine` items race within a group and across groups, and the barrier separates two rounds. `startup` has no bound on the runs of the program: the files and the machine are all that is left of a run, so its states are finite. Its machines put a device that is excluded before, behind and at the place of one that is gone, and two of them swap their indexes; the other cases are left to the theorems, which allow any machines. In `find_optimal` 4 doubles three times before it wraps to 0, and five totals let a rate rise through the whole doubling or stop anywhere. The instances are small where the argument is local; the theorems lift all bounds for what is proved.

### Findings

* **Failing fetches never end the miner** (`TemplateFailuresExit`, main.rs 651, 624). `num_failures` is cleared by each successful poll, so with a node that answers polls but not fetches it never exceeds 1. `GiveUpBounds` is what does hold: the count is one of failed polls.
* **A thread that is connecting is not stopped** (`StopsAllOfThem`, main.rs 560, node_client.rs 33-49). The connect loop never looks at the shutdown, so `main_inner` waits in `join` for as long as the node is down.
* **Metal counts more than it hashes** (`HashesAreCounted`, metal_engine.rs 196-220). `dispatch_threads` is given the number of threadgroups for the number of threads, so the rate printed as "hashes/sec" is too high by the grid size, and most nonces counted are never searched.
* **With OpenCL an entry may name another device** (`MinesAsPrinted`, opencl_engine.rs 96, 117, 137). `device_index` counts the devices that could be set up, and `create_context` takes it for the position among all of them: when the first of two devices fails, the second is listed as index 0 and the thread is started on the first.
* **The bisecting stage does not bisect** (`FindsOptimal`, main.rs 486-498). A measurement is compared with the one before it. After the step from the last size C to 3C/4 a better rate sends the search up again, so a peak between C/2 and 3C/4 is not approached. What holds is `BestIsMeasured` and `Bracket`.

What `ExclusionKept` leaves out is worth knowing too, though no document promises otherwise: with every engine the settings go by index (gpu_status_file.rs 80), and so do the threads (main.rs 544). When the second of three devices is taken out, an excluded third one moves up, and after a detection, or even without one, it is mined on.

The old template is not dumped when the chain changes (main.rs 655 and 660 are commented out, though the messages say so): this is modelled, and why `TemplateAgeBounded` and `Converges` are worth having.

## 4. Fairness

* The watcher (`WF(Watcher)`): tokio polls a task that is ready. Its `Connect` has no fairness: a node that never accepts keeps the task connecting, so `Converges` and `ShutdownStops` leave such a task out. `WF(NodeReplies)`: a call is answered in the end; it may fail first, as often as `MaxFaults` allows, so `Converges` speaks of a node that stops failing, and of an address that parses. `WF(Tick)`: the clock runs. No fairness for failures, for moves of the tip or for the shutdown.
* Mining threads (`ThreadsRun`): the operating system schedules them and `mine` returns; `submit_block` has a time-out. `NodesAccept`/`NodeUp` add that a node accepts every connection in the end, in Glytex the watcher's too; they are stated apart, because the code does not bring it about, and `glytex_nodedown` drops them.
* `main_inner` polls every 100 ms, `join` returns. That the watcher notices a shutdown is part of `NodeUp`: `ShutdownStops` shows it of a task that is connected.
* The collector: `select!` picks among its ready branches at random, hence weak fairness for each.
* EngineMine: the device runs every work item, and the host its own steps.
* FindOptimal (`WF(Measure)`): a benchmark thread returns after ten seconds.
* Startup has none: nothing is said to happen in the end, because a run may be cut short anywhere.

## 5. Proofs

Each proof module states an inductive invariant, one lemma per named part, and derives the properties from it. The only assumptions are the named ASSUMEs about the constants.

* **TemplateWatcherProofs**. `Inv` strengthens `TypeOK` by: an answer on its way, a draft and the cache are ordered by version and none is ahead of the chain; the template covers the tip seen, also in the middle of a fetch; `age` plus what remains of the current wait is within the bound of the current place; `num_failures` is at most the failed polls in a row plus one failed fetch; `waited` plus what remains of the current wait, and of those that follow it in the round, is within the round (`Waits`). From it `TypeCorrect`, `TipCovered`, `AgeBounded`, `GivesUpInTime`, `ObeysInTime`, which is `ShutdownStops` but for the fairness, and `ImplementsSource`: each step publishes, ends, moves the tip or stutters.
* **MiningThreadsProofs**. The invariant bounds each search inside its quota by the template's clock, and says that a nonce held solves the thread's own job, which is the header's. From it `SearchIsDisjoint`, `SubmittedBlocksSolve`, `SolutionsReachSubmit`. The assumption `(TemplateRefreshSecs + 1) * Batch <= Quota` says that no device gets through its share of 2^64 nonces while it mines one template.
* **GlytexProofs** reuses the step lemma of MiningThreadsProofs through the simulation `MinersSim`, and adds where the main task stands: `PartsTypeCorrect`, `StopsOnlyWhenFailed`, `NothingLostAtExit`, `ImplementsMiners`.
* **EngineMineProofs**. The heart is `Claims`: as soon as a hash below the target has been stored, or a round with such a hash is over, a solving nonce is in the output or on its way to it; an item that skips its store has seen such a hash. With `Idle` (nothing stored, nothing over) this gives `RaceKeepsASolution` and `PanicsOnlyWhenIdle`, for OpenCL; the arithmetic of `NonceOf` gives `CountsWhatItHashes`, for OpenCL. `TypeCorrect` holds for every engine and `ReturnsASolution` for all but Metal, where it is false. `ImplementsCall` puts these together: every step but the host's last is a stutter of MineCall, and the last returns what MineCall allows (OpenCL and CUDA). `BarrierNeverBlocks` is what `MineEnds` needs besides fairness, for every engine: the item that has come least far is past its barrier.
* **StartupProofs**. Every entry of the file, and of the list in memory, carries the index of its device's place on the machine of the last detection, and no index comes twice (`Indexed`); an entry of a device whose exclusion is still wished is excluded (`Heeded`), and every wish has an entry. The heart is `DetectedHeeded`: a setting looked up by index is that of the same device, if it is where the detection before found it; otherwise the wish is dropped from `wish`. From it `PrintedIsMined` and `ExclusionHolds`, about the devices that stay at their places. The machines may change in any way in between: the one assumption about them is that none shows a device twice. With OpenCL the theorems have a hypothesis, `IndexesArePlaces`: every device can be set up, since otherwise indexes are no places, which is what the finding is about (`IndexIsPlace` shows that then they are, across platforms too). With CUDA and Metal the hypothesis is empty. `FilesAreMinedBy` comes from an invariant of its own (`AnyEngineInv`) that says nothing of indexes; it, `TypeCorrect` and `ConfigKept` hold for every engine without a hypothesis.
* **FindOptimalProofs**. `StepInv` (the steps that are left never take a bisected size out of the word) gives `TypeCorrect`; with the history of measurements it gives `BestCorrect`. `BracketHolds` says that size and remaining step stay within the bracket. Its hypothesis `DoublesToTheWord` is that the first size comes out at the word size exactly when it is doubled again and again, as 32 does at 2^32 after 27 times; a first size of 3 would wrap to a size that is no half of a bracket. `DoublingsExist` turns it into a set of sizes that is closed under doubling up to the word, which is what the steps need.
* **StatsCollectorProofs**. `Typed` adds to `TypeOK` that a client is in the queue once. `WindowIsKept` needs two more invariants: what is kept is the end of what was received, and shorter only when full (`Kept`); and from any sample on, the samples of its device that were received or are still in the channel fit in `SamplesPerSecond` for each second since it was sent, plus those of the current second (`Counted`). The channel must be counted too, because a late task takes many seconds' samples in one. The assumption `SamplesPerSecond * (Window + 1) <= MaxKept + 1` (122 <= 181 in the code) closes the argument. `TypeCorrect` and `WindowStaysKept` follow. `AveragesAreExact` adds that samples are received in the order of their timestamps and that those in the channel are no older (`Ordered`, which needs `Counted` for the clock). Then `TakeMeans`: if nothing but older samples is gone (`LeftAt`), one step of the pass adds the first sample of its second and leaves what the next second needs, however many samples share a second; `TotalsMean` is the induction over the seconds, which starts from `LeftAt` of the kept samples, that is from `WindowIsKept`. `NobodyWaitsInVain`, that a client waits only on a task that runs and only with a place in its queue, is what `EveryRequestEnds` needs besides fairness. A client that still waits for room in a full queue counts as idle in the model, and nothing is said of it.
* **Recursions** supplies the induction. `NatMinimum` comes from the library's well-foundedness of `<`, by citing its theorem about minimal elements; `NatClosure` and `UpTo` are induction over a set instead of a predicate; `PrimitiveRecursion` says that a function defined by a first value and a step exists, so that a recursive function of the model has the values its definition says (`PassRuns`, `TotalRuns`).

Only model-checked: what is temporal under fairness (`Converges`, `ShutdownStops`, `ShutdownEndsThreads`, `StopsTogether`, `EveryRequestEnds`, `MineEnds`, `Terminates`), which is out of the prover's reach. Every invariant and every refinement of a passing run is proved.

## 6. Not modelled

* Command line options, which replace single settings of the configuration. The plain `--benchmark` mode, which starts the threads of one FindOptimal measurement and prints their sum.
* Several engines in one build: `--detect` writes a status file for each; Startup has the one that is chosen.
* The instructions of keccak.ptx, which is generated: only its nonces, its comparison and its store.
* The wrap of `grid_size * block_size * num_iterations` in a release build: excluded by `CallAssumption`, and listed as a hazard.
* The outcome of `submit_block`: it is only printed. A thread whose block was not accepted in time searches the same nonces of the same template again, and submits the block again; nothing in the program tells the two apart.
* Coinbase, SHA-3, gRPC, HTTP routing, logging: computations without state of the program. The stats store: unused.
* The average over the time before a device's first sample, and a wall clock that is set back.

## 7. Plan

Done: the watcher and its abstract source, the threads, their composition, the collector, a call of `mine` in all three engines and its abstract form, startup, find_optimal, and proofs of every invariant the runs check. Left:

1. A bound on the number of measurements of find_optimal after its doubling stage, the safety form of `Terminates`.
2. The plain benchmark as a run of its own next to FindOptimal.
