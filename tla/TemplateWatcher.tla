--------------------------- MODULE TemplateWatcher ---------------------------
(***************************************************************************)
(* run_template_height_watcher (main.rs): the one task that polls the base *)
(* node, or the p2pool node, for the tip of its chain and keeps the global *)
(* block template cache up to date for the mining threads.                 *)
(*                                                                         *)
(* Time is counted in ticks.  A tick passes only while the task sleeps or  *)
(* waits for an answer, so the deadlines of the code are exact.  An answer *)
(* is a snapshot of the chain when the node wrote it; time passes and the  *)
(* tip moves while it travels.  Chain versions, and the variables under    *)
(* "history", are not in the code: they count what happened.               *)
(***************************************************************************)
EXTENDS Integers

CONSTANTS
  Hash,                  \* block hashes a tip may have
  HeightOf,              \* height of the block with that hash
  NoHash,                \* the empty hash, vec![]
  NoReply,               \* the call in progress has no answer yet
  NoTemplate,            \* the cache's None
  Configs,               \* the configurations explored
  HeightCheckSecs, TemplateTimeoutSecs, TemplateRefreshSecs,
  MaxTemplateFailures,
  MaxFaults,             \* bound: calls to the node that fail in a behaviour
  MaxVersion             \* bound: versions of the chain in a behaviour

ASSUME ConfigAssumption ==
  /\ Configs \subseteq [p2pool_enabled : BOOLEAN, address_valid : BOOLEAN]
  /\ HeightCheckSecs \in Nat
  /\ TemplateTimeoutSecs \in Nat
  /\ TemplateRefreshSecs \in Nat
  /\ MaxTemplateFailures \in Nat
  /\ MaxFaults \in Nat
  /\ MaxVersion \in Nat \ {0}
ASSUME HashAssumption ==
  /\ NoHash \notin Hash
  /\ HeightOf \in [Hash \cup {NoHash} -> Nat]
  /\ HeightOf[NoHash] = 0

\* HeightData: the tips a node reports; a base node knows no p2pool chain.
Tips == [node : Hash \cup {NoHash}, p2pool : Hash \cup {NoHash}]
NoTip == [node |-> NoHash, p2pool |-> NoHash]
\* BlockTemplateData, of which only the tip it builds on matters here.
Template == [tip : Tips, version : 1 .. MaxVersion]
ASSUME NoneAssumption == NoReply \notin Template /\ NoTemplate \notin Template

VARIABLES
  config,                \* ConfigFile, fixed at start
  chain, version,        \* the node's tips, and how often they moved
  shutdown,              \* the ShutdownSignal the task was given
  pc, timer,             \* where the task is, ticks until its sleep or call ends
  age,                   \* last_template_time.elapsed()
  reply,                 \* answer to the call in progress
  draft,                 \* get_block_template's answer inside the fetch
  num_failures, curr,    \* num_failures; the four curr_* variables
  cache,                 \* block_template_cache
  \* history
  faults,                \* calls that failed
  missed,                \* calls that failed since the last template
  heightFails,           \* polls that failed in a row
  templateFails,         \* fetches that failed in a row, to MaxTemplateFailures + 2
  seen,                  \* version at the last poll that reported another tip
  waited                 \* ticks since the shutdown, to Round + 1

env == <<config, chain, version, shutdown>>
task == <<pc, timer, age, reply, draft, num_failures, curr, cache>>
history == <<faults, missed, heightFails, templateFails, seen, waited>>
vars == <<env, task, history>>

Ended == {"stopped", "failed", "crashed"}
Fetching == {"template", "newblock"}
Calling == {"height"} \cup Fetching

\* Longest time between two polls that are answered, and the cap on age.
Round == HeightCheckSecs + 2 * TemplateTimeoutSecs
AgeCap == TemplateRefreshSecs + (MaxFaults + 1) * Round + 1

TipsOf(c) == [node : Hash, p2pool : IF c.p2pool_enabled THEN Hash ELSE {NoHash}]

Init ==
  /\ config \in Configs
  /\ chain \in TipsOf(config)
  /\ version = 1
  /\ shutdown = FALSE
  /\ pc = "connect"
  /\ timer = 0
  /\ age = 0
  /\ reply = NoReply
  /\ draft = NoTemplate
  /\ num_failures = 0
  /\ curr = NoTip
  /\ cache = NoTemplate
  /\ faults = 0
  /\ missed = 0
  /\ heightFails = 0
  /\ templateFails = 0
  /\ seen = 0
  /\ waited = 0

-----------------------------------------------------------------------------
\* The environment: the chain, the node's answers, the main task, the clock.

ChainMoves ==
  /\ pc \notin Ended
  /\ version < MaxVersion
  /\ version' = version + 1
  /\ chain' \in TipsOf(config) \ {chain}
  /\ UNCHANGED <<config, shutdown, task, history>>

\* The node writes its answer.  A base node's new block is the template it
\* was sent, completed; every other answer shows the node's current tip.
NodeReplies ==
  /\ pc \in Calling
  /\ reply = NoReply
  /\ reply' = IF pc = "newblock" /\ ~config.p2pool_enabled
              THEN draft
              ELSE [tip |-> chain, version |-> version]
  /\ UNCHANGED <<env, pc, timer, age, draft, num_failures, curr, cache, history>>

TriggerShutdown ==
  /\ pc \notin Ended
  /\ ~shutdown
  /\ shutdown' = TRUE
  /\ UNCHANGED <<config, chain, version, task, history>>

Tick ==
  /\ timer > 0
  /\ timer' = timer - 1
  /\ age' = IF age < AgeCap THEN age + 1 ELSE age
  /\ waited' = IF shutdown /\ waited <= Round THEN waited + 1 ELSE waited
  /\ UNCHANGED <<env, pc, reply, draft, num_failures, curr, cache,
                 faults, missed, heightFails, templateFails, seen>>

-----------------------------------------------------------------------------
\* The task.

GoToSleep == pc' = "sleep" /\ timer' = HeightCheckSecs /\ reply' = NoReply
Call(which) == pc' = which /\ timer' = TemplateTimeoutSecs /\ reply' = NoReply
End(how) == pc' = how /\ timer' = 0 /\ reply' = NoReply

\* TariAddress::from_str(..).unwrap(), before the p2pool client is created.
AddressPanics ==
  /\ pc = "connect"
  /\ config.p2pool_enabled /\ ~config.address_valid
  /\ End("crashed")
  /\ UNCHANGED <<env, age, draft, num_failures, curr, cache, history>>

\* create_client returns once the node accepts the connection; until then it does
\* not look at the shutdown.
Connect ==
  /\ pc = "connect"
  /\ config.p2pool_enabled => config.address_valid
  /\ GoToSleep
  /\ age' = 0
  /\ UNCHANGED <<env, draft, num_failures, curr, cache, history>>

Awake == pc = "sleep" /\ timer = 0

GiveUp ==
  /\ Awake
  /\ num_failures > MaxTemplateFailures
  /\ End("failed")
  /\ UNCHANGED <<env, age, draft, num_failures, curr, cache, history>>

Stop ==
  /\ Awake
  /\ num_failures <= MaxTemplateFailures
  /\ shutdown
  /\ End("stopped")
  /\ UNCHANGED <<env, age, draft, num_failures, curr, cache, history>>

\* Mutant: the shutdown is not looked at.
PollHeight_IgnoresShutdown ==
  /\ Awake
  /\ num_failures <= MaxTemplateFailures
  /\ Call("height")
  /\ UNCHANGED <<env, age, draft, num_failures, curr, cache, history>>

\* Mutant: after a failure the call is tried again first.
PollHeight_RetriesFirst ==
  /\ Awake
  /\ num_failures <= MaxTemplateFailures
  /\ ~shutdown \/ num_failures > 0
  /\ Call("height")
  /\ UNCHANGED <<env, age, draft, num_failures, curr, cache, history>>

PollHeight ==
  /\ Awake
  /\ num_failures <= MaxTemplateFailures
  /\ ~shutdown
  /\ Call("height")
  /\ UNCHANGED <<env, age, draft, num_failures, curr, cache, history>>

\* An error, a reply without metadata, or the timeout.
HeightFails ==
  /\ pc = "height"
  /\ faults < MaxFaults
  /\ num_failures' = num_failures + 1
  /\ GoToSleep
  /\ faults' = faults + 1
  /\ missed' = missed + 1
  /\ heightFails' = heightFails + 1
  /\ UNCHANGED <<env, age, draft, curr, cache, templateFails, seen, waited>>

\* Mutant: a block of the same height that replaces the tip goes unnoticed.
ChainChanged_HeightOnly(tip) ==
  \/ HeightOf[tip.node] > HeightOf[curr.node]
  \/ HeightOf[tip.p2pool] > HeightOf[curr.p2pool]

ChainChanged(tip) ==
  \/ HeightOf[tip.node] > HeightOf[curr.node]
  \/ tip.node # curr.node
  \/ HeightOf[tip.p2pool] > HeightOf[curr.p2pool]
  \/ curr.p2pool # tip.p2pool

\* Mutant: no refresh by age.
MustRefresh_TipOnly == ChainChanged(reply.tip)

MustRefresh == ChainChanged(reply.tip) \/ age > TemplateRefreshSecs

\* The poll succeeds: what it updates whether or not a fetch follows.
HeightArrives ==
  /\ pc = "height"
  /\ reply # NoReply
  /\ curr' = reply.tip
  /\ heightFails' = 0
  /\ seen' = IF reply.tip # curr THEN reply.version ELSE seen
  /\ UNCHANGED <<env, age, draft, cache, faults, missed, waited>>

HeightUnchanged ==
  /\ HeightArrives
  /\ ~MustRefresh
  /\ num_failures' = 0
  /\ GoToSleep
  /\ UNCHANGED templateFails

\* Mutant: the failures are not cleared before the fetch.
HeightRefresh_KeepsFailures ==
  /\ HeightArrives
  /\ MustRefresh
  /\ config.address_valid
  /\ num_failures' = num_failures
  /\ Call(IF config.p2pool_enabled THEN "newblock" ELSE "template")
  /\ UNCHANGED templateFails

\* p2pool hands out a whole block; a base node is first asked for a template.
HeightRefresh ==
  /\ HeightArrives
  /\ MustRefresh
  /\ config.address_valid
  /\ num_failures' = 0
  /\ Call(IF config.p2pool_enabled THEN "newblock" ELSE "template")
  /\ UNCHANGED templateFails

OneMoreTemplateFails ==
  templateFails' = IF templateFails < MaxTemplateFailures + 2
                   THEN templateFails + 1 ELSE templateFails

\* get_template_from_client returns at once when the address does not parse.
HeightRefreshBadAddress ==
  /\ HeightArrives
  /\ MustRefresh
  /\ ~config.address_valid
  /\ num_failures' = 1
  /\ GoToSleep
  /\ OneMoreTemplateFails

\* The coinbase is added and the block is asked for, under the same deadline.
TemplateArrives ==
  /\ pc = "template"
  /\ reply # NoReply
  /\ draft' = reply
  /\ pc' = "newblock"
  /\ reply' = NoReply
  /\ UNCHANGED <<env, timer, age, num_failures, curr, cache, history>>

NewBlockArrives ==
  /\ pc = "newblock"
  /\ reply # NoReply
  /\ cache' = reply
  /\ age' = 0
  /\ draft' = NoTemplate
  /\ GoToSleep
  /\ missed' = 0
  /\ templateFails' = 0
  /\ UNCHANGED <<env, num_failures, curr, faults, heightFails, seen, waited>>

\* Mutant: the template that was being built stays for the next fetch.
FetchFails_KeepsDraft ==
  /\ pc \in Fetching
  /\ faults < MaxFaults
  /\ num_failures' = num_failures + 1
  /\ GoToSleep
  /\ faults' = faults + 1
  /\ missed' = missed + 1
  /\ OneMoreTemplateFails
  /\ UNCHANGED <<env, age, draft, curr, cache, heightFails, seen, waited>>

\* Mutant: clear_block_template_cache, when there is nothing to replace it with.
FetchFails_ClearsCache ==
  /\ pc \in Fetching
  /\ faults < MaxFaults
  /\ num_failures' = num_failures + 1
  /\ draft' = NoTemplate
  /\ cache' = NoTemplate
  /\ GoToSleep
  /\ faults' = faults + 1
  /\ missed' = missed + 1
  /\ OneMoreTemplateFails
  /\ UNCHANGED <<env, age, curr, heightFails, seen, waited>>

\* An error of the node, of the coinbase or of a conversion, or the timeout.
FetchFails ==
  /\ pc \in Fetching
  /\ faults < MaxFaults
  /\ num_failures' = num_failures + 1
  /\ draft' = NoTemplate
  /\ GoToSleep
  /\ faults' = faults + 1
  /\ missed' = missed + 1
  /\ OneMoreTemplateFails
  /\ UNCHANGED <<env, age, curr, cache, heightFails, seen, waited>>

\* An answer without block, header or miner data is unwrapped: the panic hook
\* ends the process.
FetchPanics ==
  /\ pc \in Fetching
  /\ faults < MaxFaults
  /\ draft' = NoTemplate
  /\ End("crashed")
  /\ faults' = faults + 1
  /\ UNCHANGED <<env, age, num_failures, curr, cache, missed, heightFails,
                 templateFails, seen, waited>>

\* Nothing is left to do: lets the model checker tell the end from a deadlock.
Terminated == pc \in Ended /\ UNCHANGED vars

\* What the task does by itself; faults, and the connection, are up to the node.
Watcher ==
  \/ AddressPanics \/ GiveUp \/ Stop \/ PollHeight
  \/ HeightUnchanged \/ HeightRefresh \/ HeightRefreshBadAddress
  \/ TemplateArrives \/ NewBlockArrives

Next ==
  \/ Watcher \/ Connect
  \/ HeightFails \/ FetchFails \/ FetchPanics
  \/ ChainMoves \/ NodeReplies \/ TriggerShutdown \/ Tick
  \/ Terminated

Spec == Init /\ [][Next]_vars

\* The runtime polls a ready task, the node answers once it has used up its
\* faults, and the clock runs.  No fairness for Connect: nothing in the code makes
\* a node accept the connection.
Fairness == WF_vars(Watcher) /\ WF_vars(NodeReplies) /\ WF_vars(Tick)
FairSpec == Spec /\ Fairness

-----------------------------------------------------------------------------
\* The state of the task has its type, and a call's answer that is a draft is
\* only there while the second half of a base node's fetch runs.
TypeOK ==
  /\ config \in Configs
  /\ chain \in Tips
  /\ version \in 1 .. MaxVersion
  /\ shutdown \in BOOLEAN
  /\ pc \in {"connect", "sleep"} \cup Calling \cup Ended
  /\ timer \in Nat
  /\ age \in 0 .. AgeCap
  /\ reply \in Template \cup {NoReply}
  /\ draft \in Template \cup {NoTemplate}
  /\ pc = "template" => ~config.p2pool_enabled
  /\ pc = "newblock" /\ ~config.p2pool_enabled <=> draft # NoTemplate
  /\ num_failures \in Nat
  /\ curr \in Tips
  /\ cache \in Template \cup {NoTemplate}
  /\ faults \in 0 .. MaxFaults
  /\ missed \in 0 .. faults
  /\ heightFails \in 0 .. faults
  /\ templateFails \in 0 .. MaxTemplateFailures + 2
  /\ seen \in 0 .. MaxVersion
  /\ waited \in 0 .. Round + 1

\* Outside a fetch, and unless the last fetch failed, the template mined on is
\* no older than the last tip change a poll reported: the code marks the tip as
\* seen (curr_*) before it has fetched a template for it (main.rs 668-704).
TemplateCoversTip ==
  (pc \in {"sleep", "height", "stopped", "failed"} /\ seen > 0 /\ templateFails = 0)
    => cache # NoTemplate /\ cache.version >= seen

\* However the polls, the timeouts and the refresh timer fall, a template is
\* replaced after the refresh time plus one round of sleep, poll and fetch, and
\* one more round for every call that failed meanwhile (main.rs 622-704).
TemplateAgeBounded ==
  config.address_valid => age <= TemplateRefreshSecs + (missed + 1) * Round

\* num_failures counts polls that fail in a row, plus at most one failed fetch
\* before them: the task gives up only after MaxTemplateFailures failed polls and
\* never survives more than one beyond that (main.rs 623-651).
GiveUpBounds ==
  /\ heightFails <= MaxTemplateFailures + 1
  /\ pc = "failed" => heightFails >= MaxTemplateFailures

\* The template cache and the task's end are what the mining threads rely on.
Source == INSTANCE TemplateSource WITH
  published <- IF cache = NoTemplate THEN 0 ELSE cache.version,
  status <- IF pc \in Ended THEN pc ELSE "running"
SourceSpec == Source!Spec

\* When the chain is quiet and the node answers, the template comes to build on
\* the current tip, even if a fetch failed or the tip moved between the poll and
\* the fetch: the refresh timer is what guarantees it (main.rs 663-666).  With an
\* address that does not parse no template is ever built (main.rs 961-971), and
\* with a node that never accepts the connection none is asked for.
Converges ==
  <>[](\/ ~config.address_valid
       \/ pc \in Ended
       \/ pc = "connect"
       \/ cache # NoTemplate /\ cache.tip = chain)

\* A triggered shutdown ends a task that is connected, whatever call it is in
\* (main.rs 629-631).  A task that is still connecting, for which nothing is said
\* here, never looks at it (node_client.rs 33-49, main.rs 608-609).
ShutdownStops == (shutdown /\ pc # "connect") ~> pc \in Ended

\* How soon: however the shutdown, the deadlines, the answers and the failures of
\* the round in progress fall, the task never waits longer than for the two calls
\* and the sleep of that one round before it looks (main.rs 620-631, 638, 682).
StopsInTime == waited <= Round

-----------------------------------------------------------------------------
\* A claim of the code's configuration that does not hold.

\* max_template_failures, "Max template failures reached. Exiting." (main.rs 624):
\* failing fetches end the task as failing polls do.
TemplateFailuresExit == templateFails <= MaxTemplateFailures + 1
=============================================================================
