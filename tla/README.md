# A TLA+ verification of the GridPool SV2 applications

The repository is a set of Stratum V2 mining applications: a pool with an
embedded job declaration server and an optional GridPool payout client, a job
declarator client, an SV1 translator, and the libraries they share.  This
directory holds TLA+ models of the parts whose correctness depends on the order
of events, TLC configurations that check them on small instances, and TLAPS
proofs for every value of the constants.  `PROJECT.json` lists the components,
the runs with the bug each property would catch, the source lines behind every
definition, the hazards and the theorems.

    tlc -workers 2 -config MCRegistry.cfg MCRegistry      # one run
    tlapm PoolRegistryProofs.tla                          # one proof module

## 1. Inventory

### The pool (`pool-apps/pool`)

| Part | State | Operations | What makes it correct |
|---|---|---|---|
| Channel manager, registry (`channel_manager/mod.rs`, `mining_message_handler.rs`) | `downstreams`, `downstream_sender`, `vardiff`, `gridpool_channels`, the channels of each connection, the extranonce allocator | accept, open standard/extended, close, `remove_downstream`, the vardiff sweep, shutdown | the maps agree at every step; an ended connection leaves nothing behind; removed connections and the whole pool do end |
| Channel manager, jobs (`template_distribution_message_handler.rs`) | last future template, last prevhash, group/standard/extended channels | NewTemplate, SetNewPrevHash, open, SetCustomMiningJob, the fee tick | a client mines what the pool judges it by; nobody stays on an old tip; ids stay unambiguous |
| Channel manager, shares (`mining_message_handler.rs`) | targets, past and active jobs, telemetry | submit standard/extended, UpdateChannel, vardiff | a share is counted once, and by the target the miner knows |
| Connection task (`downstream/`) | flags of SetupConnection, negotiated extensions | SetupConnection, RequestExtensions, forwarding | required extensions; the end of the task |
| GridPool client (`gridpool.rs`) | the work selection, telemetry windows, the proof spool, pulse times | refresh, `refresh_for_chain_tip`, `coinbase_outputs`, `submit_proof`, flush, retry | slot 0 belongs to the channel or to the operator in its slice; proofs are not lost |
| Template receivers (`template_receiver/`) | retained templates, the long-poll id | SV2, Bitcoin Core IPC and JSON-RPC providers | a tip is a future template followed by its prevhash; no tip is missed |
| Runtime (`mod.rs`, `pool_runtime.rs`) | the tasks, two threads and the global cancellation token | the stages of `start`, `shutdown` | everything ends, in order, after the cancellation |

### The job declaration server (`pool-apps/jd-server`)

State: `allocated_tokens`, `active_tokens`, the clients' pending declarations,
`allocated_token_entries` and `declared_custom_jobs`.  Operations:
AllocateMiningJobToken, DeclareMiningJob, ProvideMissingTransactions.Success,
the redemption of a token by the pool's SetCustomMiningJob, three janitors,
cleanup.  Correct when a token leads to its own validated declaration, a client
that left holds nothing, and whatever is never redeemed is found by a janitor.
Behind it `BitcoinCoreSv2JDP` asks Bitcoin Core about a declared job and keeps a
mirror of Core's mempool; correct when a job is judged by the tip it was made
for, and a refusal is explained by what Core really has.

### The miner-side applications (`miner-apps`)

The job declarator client keeps tokens, declared jobs, cached shares and its
downstream channels.  The translator keeps SV1 connections, their SV2 channels
(one each, or one shared by all: "aggregated"), the opens that wait for the
pool, the jobs each channel lists, and three targets per miner.  Both change to
the next upstream through the `FallbackCoordinator` of `stratum-apps`: every
task registers, and the main loop waits until all of them are done.

### Libraries

`stratum-apps` (fallback coordinator, task manager, payouts, monitoring,
network helpers), `bitcoin-core-sv2` (the Bitcoin Core IPC client for template
distribution and job declaration, for two node versions).  The channel logic
itself (`channels_sv2`, `handlers_sv2`) is an external dependency.

### How they interact, and what is hard about it

* The template provider, every connection and the channel manager are tokio
  tasks linked by unbounded queues.  Shared maps are `DashMap`s with one lock
  each: an operation on several of them is several steps.
* A connection is stopped only by dropping its sender or by the global token.
* `ChannelManager::start` awaits its handlers inside a biased `select!`: the
  handler that waits (only for GridPool) is dropped when another branch ends.
* An accept task reads the last template and the last prevhash separately and
  registers the connection later, while templates keep arriving.
* The job declaration loop waits for the Bitcoin node between checking a token
  and activating it, while janitors, disconnects and the pool work on the same
  tokens.  In the engine, a monitor and the handler of a declaration replace the
  same template and the same mirror, in the order in which Core answers.
* A template provider replaces its template client while a `waitNext` of the old
  one is outstanding, and gives up old templates on a timer.
* A proof has a task of its own, and the retry loop reads the same spool; the
  process may die between any two of their steps.
* The fallback barrier joins a counter, a cancellation token and a `Notify`;
  behind it both miner-side applications restart every task they have.
* The declarator client waits for a provider, a JDS and a pool at once: a
  prevhash may overtake the transactions of its template, and a share the
  acknowledgement of its job.
* In the translator the SV1 server, the channel manager and one task per miner
  each keep a part of what a channel is, and miners leave in between.

## 2. Modules

| Module | Models | State and actions |
|---|---|---|
| `FallbackCoordinator` | `stratum-apps/src/fallback_coordinator.rs`, its callers | counter, token, permit; `Register`, `Release` and `Notify` (the halves of `done`), `TriggerFallback`, `Load`, `Wake` (the thirds of `trigger_fallback_and_wait`), `Spawn` and `Cancel` of the callers |
| `PoolRegistry` | who is connected to the pool | one variable per map, one stage per connection task, the message queue and the channel manager's program counter; an action per handler outcome, `RemoveStep` one map at a time |
| `PoolJobs` | what the miners work on | published templates, the queue to the channel manager, last template and prevhash, the channels with their jobs, and what each client was told; an action per message |
| `PoolShares` | what becomes of a share: answers, vardiff, telemetry, pulses, proofs and their spool | jobs and targets, the telemetry entries and the batch under way, a stage per proof task, the files of the spool, the node; an action per message, per step of a proof's task, of the retry loop and of the flush, `Crash` and `Restart` |
| `TemplateFeed` | what a channel manager relies on when it reads a template provider | the last template, whether its prevhash is owed, the announced tip |
| `TemplateProviders` | the IPC, JSON-RPC and SV2 providers | the node's chain, the two queues, a stage per task, the templates kept, stale, dying and destroyed; an action per step between two waits |
| `JobValidation` | `BitcoinCoreSv2JDP` and how jd-server reads it | Core's chain and answers, the stages of the engine and of the monitor, the current template, the mirror, the declaration under way |
| `PoolRuntime` | `PoolSv2::start`, its stages and `shutdown`; composes `JobValidation` | the stage of `start`, the tasks and threads that run, the caller of `shutdown()` |
| `JobDeclaration` | tokens and declared jobs | one variable per map, the declaration loop's and the redemption's program counters |
| `ClientRuntime` | the declarator client's life: start-up, the tasks, fallback, shutdown | the main task's place in `start`, one stage per task and generation, tokens, the port, the miners' connections; an action per way a task goes on or ends |
| `DeclaratorClient` | the declarator client's work: the handlers of its channel manager | templates and prevhashes, the stock of tokens, declared and custom jobs, the upstream channel, opens, cached and sent shares; an action per message |
| `TranslatorJobs` | the translator's connections, channels, jobs and shares | the maps of the server and of the channel manager, the cached notify of each miner, the queues between the tasks; an action per message of each task |
| `TranslatorTargets` | the difficulty of its miners | `target`, `pending_target`, `upstream_target` and what the miner was told, the pending updates, the pool's view |
| `TranslatorRuntime` | its start-up, extension negotiation, failover and shutdown | the place in `start`, the tasks and connections of each generation, the coordinator's permit, the caller of `shutdown()` |
| `PoolRegistryProofs`, `PoolJobsProofs`, `PoolSharesProofs`, `TemplateProvidersProofs`, `JobDeclarationProofs`, `DeclaratorClientProofs`, `ClientRuntimeProofs`, `TranslatorRuntimeProofs` | theorems about the module they extend; `ClientRuntimeProofs` also those about `FallbackCoordinator`, which it extends too | |
| `MC...` | an instance of each for TLC | |

Several modules have a variable `setup`: a record, chosen in `Init` from the
constant `Setups`, that says how the application is configured and how far the
model goes.  One run thus checks several deployments with bounds of their own.

An invariant that a run checks is often a conjunction of named parts
(`WorkInv == TypeOK /\ AgreesWithServer /\ CustomWorkUntouched`); each part has
its own comment.  Definitions whose name ends a mapped one with a word
(`RemoveKeepingSender`, `NotifyEveryone`, ...) and stand just before it are
mutations of it: a plausible bug, used to see that a property notices it.  No
specification uses them.

### What is abstracted

*PoolRegistry.*  A channel is its key `<<connection, id>>`; what jobs it has is
in `PoolJobs`.  `with_registered_downstream` holds the entry of the downstream
map during a handler, so a handler that opens a channel is one step, while the
four removals of `remove_downstream` are four.  `handle_close_channel` removes the
controller and the payout after it has released that entry; it is one step all the
same, because the handlers and the vardiff sweep are steps of the one task and a
removal takes the same entries away.  Outcomes that depend on the content of a
message (an identity that cannot be parsed, a bad hash rate, a template and a
prevhash that do not match) are nondeterministic.

*PoolJobs.*  A template is its tip, its future flag and its coinbase value.  A
job is its id, template, outputs and the time the fee refresh commits into the
coinbase.  The channels of `channels_sv2` are external, modelled by the effect
of `on_new_template`, `on_group_channel_job` and `on_set_new_prev_hash` the
pool relies on; the client keeps the jobs it is sent and activates the one a
SetNewPrevHash names.  Connections join and leave in one step here.

*PoolShares.*  The hash of a share is a level, which meets a target or a
threshold when it is not below it.  The handlers are steps of one task and never
wait.  The acknowledgement of shares in batches, the custom jobs' missing
template id and the resolution of identities are left out, and so are the
disconnect for an error of `validate_share` that has no answer (its connection's
end is in `PoolRegistry`), a `remove_file` that fails (the file stays, as after a
crash, and is submitted again), and switching pulses off or changing their advice
while the pool runs.  A file of the spool is absent, partial or full, since
`tokio::fs::write` is not atomic.

*TemplateProviders.*  A template is its id, its tip and the constraints it was
made under.  The IPC provider is the v31x engine: its tasks interleave where
they wait for Core, never between the two messages of one publication.  HTTP,
Cap'n Proto, the assembly of the coinbase and of the merkle path and the noise
handshake are left out; the SV2 provider at the other end of a connection is
external and well behaved.  The stale template clients are destroyed in one step;
that a `destroy` that fails cancels the token is covered by the failures of the
other calls.

*JobValidation, PoolRuntime.*  A tip stands for hash, nBits and height, which
change together; `now` is the header time of a template made at that moment.
A call of Core is sent, answered, and its answer read in separate steps; all
calls but `waitNext` share one thread of Core, which may answer "thread busy".
(A `waitNext` that finds its thread busy is sent again, as after a timeout:
`WaitTimesOut`.  That the engine cancels the token when its request channel is
closed is left out: the channel is held until `start` cancels it anyway.)  `PoolRuntime` takes the stages of `start` in
their order, each of which may fail, and joins the tasks and the two threads as
`shutdown` does.  The call `shutdown()` is two steps, the load of `is_alive` and
the creation of its `Notified`, with `notify_waiters` and `is_alive = false` two
steps of the other side.

*JobDeclaration.*  Transactions, coinbases and merkle paths are the three
possible answers of the node and one outcome "fails before the node answers".
Ages are abstracted: a janitor may evict any prefix of the tokens in order of
allocation.  One assumption on time is used: an entry of the engine is evicted
after 24 h, its active token after 10 s (the constants at the head of
`job_declarator/mod.rs`), so the engine's janitor never takes an entry whose
active token is alive or is being redeemed.  The loop's queue is left out: a
client's message may be served at any time after it connected, also after it
left, which includes every behaviour of the queue.  Every client may use every
request id and declare a token again; `clashed` records the tokens whose
declarations met under one key.  The two map accesses of `Store`, of `Drop` and
of the engine's janitor are one step each.

*ClientRuntime, TranslatorRuntime.*  A generation is what one pass of the
fallback starts.  Of the barrier both keep the permit that the last `done` after
the signal leaves; its halves are in `FallbackCoordinator`.  `ClientRuntime` has
both configured modes, with upstreams in either, setups that fail with an error
that is signalled or only logged, and a JDS that redirects.  `TranslatorRuntime` has
tasks that are polled too late, a writer that is stuck in `write_frame`
(`stalled`), and the two steps of `shutdown()`.  The monitoring tasks are left out;
reader and writer of a connection are one and count from their spawn, although
they register at their first poll (a late one only sees the token).  A component's
signal and its `done` are one step in `AskFallback`, which also stands for the
pool that disconnects after it has reported `missing_required`.

*DeclaratorClient.*  A template is its number, and the prevhash that activates
it has the same one.  A miner has one channel, and its jobs are named by their
templates; which of standard and extended it is does not matter here.  A share
is its hash.  The transactions of a template may arrive at any time, because the
IPC client waits for the node in `handle_request_transaction_data` while its
monitor goes on publishing.  `had_job_factory` is always false in
`handle_open_extended_mining_channel_success`, since a second upstream channel
is never opened, so its custom job is left out.  A waiting open is granted, refused
with an error, or fails, which ends the loop over the waiting ones; `behind` records
those that it forgets.  An open that is refused with the channel there leaves its
miner as it was.  `Join` is the bootstrap of a connection and its entry in the map
in one step.  A refusal resets the state and ends this model, the main task's part
of the fallback included; `ClientRuntime` has what follows.  Outputs that change
with a token, UpdateChannel, vardiff, SetTarget and SetExtranoncePrefix are left
out.

*TranslatorJobs, TranslatorTargets.*  A job is its number, which is also its id
at the pool; a connection is used once.  When vardiff retargets, and to what, is
arbitrary: any miners may get any targets.  The pool is external and well
behaved (ids grow, a prevhash names a job it sent); `prompt` says whether it
answers an UpdateChannel before the next round.  SetGroupChannel, version rolling
and the TLV of a worker's name are left out.  The server's handlers, its vardiff
rounds and its keepalives are polled by one task, so that they exclude each other,
while the Downstream tasks work beside them; the queues are unbounded.  Where a
lock is released between a read and a send the two are two steps: the end of a
handshake, the UpdateChannel of a round and that of a Downstream that ends.  The
round's loop over the miners, and the lock and the send of a Downstream's notify,
which nobody else does for that miner, are one step.  A set_difficulty carries the
power of two nearest to a target's difficulty: `Rounded` is any monotone map of
targets, and each setup of the run has one that rounds up, down or not at all.  A
Downstream that the server itself removes takes the steps of one that ends.
Whether an UpdateChannel finds the shared channel open is decided when it is sent.
That the last miner leaves between the check for an empty map and the `expect`
(`difficulty_manager.rs:224`-248, 480-508) is not modelled.

*FallbackCoordinator.*  Memory orderings: `done` and the trigger both lock the
mutex inside the cancellation token between their accesses to the counter, so
the steps are taken to be sequentially consistent.

## 3. Runs

Deadlock is not reported in any of them: a system in which nobody connects, or
which has shut down, may stop.

| Run | Instance | Shows |
|---|---|---|
| `fallback_barrier` | 4 tasks, one of which ends only on cancellation; the others are spawned, polled and done at any time, also after it | the barrier opens, and waits for all but the tasks first polled after the cancellation |
| `registry` | 2 connections of three kinds, one channel id each, one prefix, one message in flight, GridPool, one required extension that a client may or may not have | the four maps agree at every step, an ended connection leaves nothing, removals and shutdown complete |
| `jobs` | four deployments: two channels of either kind and 4 templates; GridPool with standard jobs, suffixes that do not fit every template and a fee cycle of 2 seconds; GridPool without standard jobs, with clients that bring their own work or do not; declared jobs of clients with and without REQUIRES_CUSTOM_WORK | same job and tip on both sides, ids unambiguous, slot 0 paid to its owner, tips reach the miners |
| `pool_shares` | three setups: shares, targets and telemetry of two channels with one telemetry entry; pulses; proofs, spool, failures and a crash | work is counted once, pulses keep their cadence, a spooled proof reaches the node |
| `template_feed` | each of the three providers, two sets of constraints, up to 4 templates and 3 blocks, a request or solution, a failed call, shutdown | all of them implement `TemplateFeed`; nothing that is still needed is given up; tips are announced; providers end |
| `pool_runtime` | six configurations of the pool with failures in every stage and `shutdown()` at any moment; three chains with declarations for the engine | declared jobs get the right answer, the mirror catches up, everything ends and `start` returns last |
| `declaration_tokens` | 2 clients that share 2 request ids, 3 tokens, 2 validated declarations, 2 tips; symmetric in clients and ids | active tokens are backed and nothing is out of the janitors' reach but for declarations that met under one key; departed clients hold nothing |
| `client_fallback` | both configured modes, 2 upstreams, one miner, signalled and logged failures and a shutdown at any point | one manager at a time, nobody ends unnoticed but after a logged failure, templates survive, mode and tasks agree, the client works again or stops |
| `client_jobs` | full-template and coinbase-only mode, 2 miners, 2 templates, 2 shares | tokens, shares and waiting opens |
| `translator_jobs` | both modes, up to 3 miners, 3 jobs, 2 prefixes | channels and prefixes stay apart, work that is held is accepted, nobody is left without work (a handshake's damage ends with the next job), no needless fallback |
| `translator_targets` | both modes, with and without vardiff, a prompt and a late pool, 2 miners, 2 or 3 targets with three ways to round them | shares are checked against what was told but for the rounding, none is lost, retargets arrive |
| `translator_runtime` | one fallback, two upstreams or two attempts, miners, pools that stop reading or have other extensions | generations do not overlap, compatible pools are kept, fallbacks and `shutdown()` end unless a pool never reads again |

`ImplementsFeed` in `template_feed` is a refinement: the abstract state of
`TemplateFeed` (last template, prevhash owed, announced tip, closed) is computed
from the messages a provider has sent, and its specification, the fairness of
the prevhash included, is checked as a property.

### Bounds

Two connections are enough for a handler of one to meet a removal of another or
a second removal of itself; one message in flight is enough for a message that
is served after its sender was removed.  One prefix lets the allocator run dry
while one channel exists.  In `registry` the pool supports no optional extension
and requires one, which makes both outcomes of RequestExtensions happen.  Four
templates give every order of tip, fee update, tip around an open.  In `jobs` three
seconds let a fee tick come between two templates of a client with its own work.
Three tokens are an allocated token, its active successor and one more of the
other client; two declarations are what it takes to meet under one request id or
one token; two tips let the context drift between a declaration and its retry.  Two
upstreams give a fallback and the end of the list.  In `client_jobs` two
templates are a tip with a fee update or two tips, and two miners make two
custom jobs of one template; a cache of one share makes the second replace it or
go.  With one miner and three templates in full-template mode (2.6 million
states, too slow for a run with liveness) the same invariants hold.  In
`translator_jobs` the setups trade miners against jobs: three miners for two
prefixes, or one miner with jobs, shares and keepalives.  In `template_feed`
three blocks let a template go stale twice.  In `pool_runtime` the setups with
declarations leave the stages of `start` alone and the other way round; their
product holds nothing new, since they share only the token.  `MaxTemplates`,
`MaxNow`, `MaxCustom`, `MaxQueue`, `MaxTokens`, `MaxDeclared`, `MaxTip`, `MaxGen`, `MaxAsked`,
`MaxFailures` and the numbers in a setup are bounds of the model only;
`MaxChannels`, `Slots` and `ChannelIds` stand for the allocator's capacity and
the ids a connection reaches, `MaxRetained`, `MaxRetries` and `MaxAttempts` for
constants of the code.

### Fairness

Weak fairness is assumed of steps the runtime takes by itself: a spawned or
woken task is polled; the channel manager serves its queue; a connection task
sees a closed receiver or the token; a template provider that announced a tip
sends its prevhash (the two sends are consecutive in `publish_gbt` and
`publish_template`); the wait for GridPool ends, because it makes 600 attempts
of 50 ms.  In `ClientRuntime` and `TranslatorRuntime` peers answer or hang up
(the code has no timeout there), but a pool that stops reading while the translator
writes need not read again; in `DeclaratorClient` the pool answers an open.
In `TemplateProviders` and `JobValidation` Core answers the calls it gets, and
`waitNext` returns a template from time to time; strong fairness is assumed only
of the branch of `select!` that sees the token while timeouts keep the other
branch ready, because `select!` chooses at random.  In `PoolShares` the tasks of
proofs and the retry loop go on, a killed process is restarted, and the calls
that fail are bounded.  No client is assumed to connect, send or leave.
`JobDeclaration`, `TranslatorJobs` and `TranslatorTargets` have no fairness:
their properties say what holds when nothing is on its way.

### Disagreements between code and documentation

While modelling, TLC showed that some statements of the repository do not hold
of the code.  The models have these cases.  The properties except them by name,
with a variable or an operator that says exactly when, and say so in their
comments; TLC refutes each without its exception.  The hazards in `PROJECT.json`
have the lines.

*Pool*
* In GridPool mode a client without standard jobs is sent the group's job id in
  SetNewPrevHash, although each channel has jobs of its own
  (`template_distribution_message_handler.rs:286`), against "per-Standard/Extended-channel
  slot-0 attribution" (`GRIDPOOL.md:17`; the repository's own translator is such a
  client).  Operator `Misnamed`.
* A template that waits for GridPool is dropped when a client message or a fee
  tick completes the `select!` (`channel_manager/mod.rs:473`).
* A fee tick between NewTemplate and SetNewPrevHash makes a job of the new
  template and has it mined on the old tip (`channel_manager/mod.rs:518-634`);
  in GridPool mode it also pushes pool work to clients with their own work
  (line 581), against "If REQUIRES_CUSTOM_WORK is set, skip template handling
  entirely".  Jobs with a `salt`.
* Two payout identities on one connection: standard jobs of the group are paid to
  the last one that opened a channel (`mining_message_handler.rs:313`).
* SetCustomMiningJob is accepted from a client that did not set
  REQUIRES_CUSTOM_WORK (`mining_message_handler.rs:1596-1603`).  Its channel then
  numbers the custom job with its own counter while its other jobs have the
  group's ids, so one id can name two jobs.  Operator `Mixed`.
* The telemetry key holds the channel id and the payout address but no
  connection, so two connections of one miner share an entry; a failed flush
  loses its batch, a partial file of the spool is skipped for ever, and a proof
  the node refuses for good is retried for ever.  Whether a share is fee work is
  read from the active job, not from the share's own
  (`mining_message_handler.rs:846`).
* When the refresh after the first constraints fails, the JSON-RPC provider drops
  them and waits for others, which the pool never sends, although the log says
  "retrying Bitcoin RPC" (`bitcoin_rpc.rs:310-312`).  While it waits for constraints
  it does not watch the token: it ends when its channel is closed, which the end of
  the channel manager's task does.  When the bootstrap failed before that task was
  started the provider outlives `start`; `abort_all` after a join timeout aborts
  nothing, because `join_all` has taken the handles.  Connections accepted
  while the handles are taken are not joined either.
* A call of `shutdown()` that loads `is_alive` before it is cleared and creates its
  `Notified` after `notify_waiters` waits for ever (variable `missed`), in the pool
  and in the translator.

*Job declaration*
* Declared jobs are keyed by request id only, and every jd-client starts its ids at
  0 (`jd-client/.../channel_manager/mod.rs:304`, 415), so two ordinary clients
  overwrite each other; and a second declaration with one token leaves a job no
  janitor finds (`bitcoin_core_ipc.rs:567`).  Variable `clashed`.
* The mirror may go back to an older tip when an answer to `waitNext` is read
  late, against "from the most recent block template" (`mempool.rs`); `AskedOnce`
  excepts it (variable `reverted`).
* `checkBlock` does not retry "thread busy" as the other calls do, and cancels
  the token that the whole pool shares (`handlers.rs:187-199`).

*Declarator client*
* A pool or JDS whose answer to the setup cannot be parsed, or is another message,
  is an error that is only logged (`error.rs:524-540`): `start` of that component
  closes its channels and returns, nothing is signalled, and the client stays with
  half of a pair (`upstream/mod.rs:322-335`, `job_declarator/mod.rs:207-217`; variable
  `logged`).  A JDS that answers with Reconnect or ChannelEndpointChanged leaves the
  client in solo mode with a manager that wants an upstream channel
  (`job_declarator/message_handler.rs:37-55`).
* In coinbase-only mode a tip that comes before the upstream channel takes a token
  and asks for none (`template_message_handler.rs:504-520`; variable `lost`): two such
  tips leave the client without tokens.
* "Once the upstream state transitions to `Connected`, all pending downstream
  requests are processed" (`upstream_message_handler.rs:82-83`): the loop stops at
  the first one that fails (307-314; variable `behind`).
* A handshake that ends after a fallback reset the manager reaches
  `unreachable!` (`channel_manager/mod.rs:486`); the listener may be bound again
  before the old one is gone (line 604); configured for solo mining it still
  tries the upstreams after a fallback (`mod.rs:287`).
* A template whose transactions are late is paired with the last prevhash, not
  with its own (`template_message_handler.rs:328`); opens stay in the queue when
  the extranonce allocator cannot be built (`upstream_message_handler.rs:151`).

*Translator*
* Without vardiff a set_difficulty for a miner that has just left stops the whole
  proxy (`sv1_server/mod.rs:1182`, 1266), against "complete isolation between
  downstream connections" (`utils.rs:194`).
* The handshake flag is read before the lock, and the cached notify is sent after
  the lock was released: a notify may be cached just after the handshake emptied
  the cache, or overtake the one that was in it, against the order the comment at
  `downstream.rs:379-380` promises.  That miner waits for the next job, or works on
  one that is refused, until the next job comes (variable `late`).
* A miner that leaves while its open is under way leaks the channel and its
  prefix (`sv1_server/mod.rs:1040`); when no prefix is left an open is dropped
  without an answer (variable `dropped`).
* With vardiff, a late or refused UpdateChannel leaves a target pending that
  another set_difficulty then commits; `CheckedIsTold` needs a prompt pool.
* Shares are checked against the target, and the miner is told its difficulty rounded
  to a power of two (`sv1_server/mod.rs:841-846`), so the two are the same only up to
  rounding.  The handshake's difficulty may be overtaken by a newer one (variable
  `overtaken`), and the UpdateChannel of a Downstream that ends may follow the one of
  a round that it does not know of (`unseen`, `crossed`).
* A pool that stops reading without breaking the connection holds up a fallback for
  good, and with it `shutdown()`: the writer waits in `write_frame`
  (`io_task.rs:130`), and `start` waits for it without watching the token.
* The second RequestExtensions no longer holds the translator's own required
  extensions, so that a pool with further requirements is always left
  (`extensions_message_handler.rs:128`).
* Reconnect and ChannelEndpointChanged are `todo!()`, and a task that ends without
  `done()` panics when its handler is dropped (`fallback_coordinator.rs:108`).

*Both miner-side applications*
* A task that is polled only after the token was cancelled escapes the barrier,
  against "waiting until all registered components have completed their cleanup"
  (`fallback_coordinator.rs:10-12`): it registers then, and the barrier may open
  while it runs.  `fallback_barrier` and its theorems have such tasks (variable
  `late`) and show that they are the only ones; `TranslatorRuntime` has them too and
  shows that they only see the token.

## 4. Proofs

`PoolRegistryProofs` proves for every set of connections and ids, every
capacity and queue bound, with and without GridPool:

* `RegistryInvariant`: `Spec => []RegistryInv`;
* `ChannelsAlwaysIndexed`: `Spec => []ChannelsAreIndexed`;
* `EndedConnectionsAreForgotten`: `Spec => []NoOrphans`.

`ChannelsAreIndexed` is not inductive: a removal that is half done could be
followed by an open that recreates an entry.  `RegistryInv` adds `LifecycleInv`,
which ties every map entry to the stage of the connection's task and to the
step its removal is at, and says that the target of the channel manager's own
removal is out of `downstreams` after the first step.  The open handlers keep
it because `with_registered_downstream` guards them, the removals because
`downstreams` goes first.  There is a lemma per kind of step: `QuietStep` (only
a stage moves forward), `HandlerStep`, `OpenStep` and `RefuseStep` (what all
opens share), `LeaveStep` and `CmRemoveStep` (the removals).  The assumptions
used are those of the constants' types.

`ClientRuntimeProofs` also proves `BarrierInvariant` and `BarrierWaitsForAll` of
`FallbackCoordinator`, whose names do not clash with `ClientRuntime`'s, for
every finite set of tasks that are spawned, first polled and done in any order,
also after the cancellation.  The one assumption is that some task ends only on
cancellation (`Anchors`; in both applications the channel manager's), without
which a counter that reaches zero before the cancellation would open the barrier
to tasks that register later.  `BarrierInv` says that the counter is the number of
registered tasks, and that a permit, or a task that read `prev == 1`, means that the
token is cancelled and that only late tasks are running.  Its type invariant is
proved with it.

`PoolJobsProofs` proves, for every set of connections, deployments and payees and
every number of templates, tips and channels:

* `WorkIsTyped` (`Spec => []TypeOK`) and `SlotZeroIsAlwaysOwn`
  (`Spec => []SlotZeroIsOwn`);
* `ClientsAgreeWithPool` (`Spec => []WorkInv`), `ClientsMineOnTheirTip`
  (`Spec => []TipsInv`) and `JobIdsMeanOneJob` (`Spec => JobIdsUnambiguous`).

None has a hypothesis on the deployment: GridPool with and without standard jobs,
and clients with custom work of every kind, are covered.  What goes wrong for some
of them is in the properties (`Misnamed`, `Mixed` and the fee jobs, see
Disagreements).  The inductive invariant has three layers.
`FeedOK` is about the template provider and the channel manager's queue: tips
grow, what is queued is in the order of publication, and a template that is not
a future one comes after the prevhash of its tip.  `ChannelsOK` types every link
and channel and says that a job pays the channel's owner.  `WorkOK` relates the
two ends of a link: the group and a channel numbered by it wait for the same
future jobs, every id a client knows is below the counter that gives the next one,
and once a channel is open the job and tip its client mines on are the
channel's, or for the excepted clients what the properties leave of it.  A channel in the middle of an open is covered by `Waiting`, for its
client has not been told yet.  The lemmas are one per action and layer, and one
per helper that makes, activates or announces a job.

`PoolSharesProofs` proves `SharesAreSound` (`Spec => []SharesInv`),
`SpooledUntilAccepted` (`Spec => ProofsLeaveAccepted`) and `ProofsAreSomewhere`
(`Spec => []Whereabouts`: a proof is being written, complete in the spool,
accepted by the node, or was reported as lost), for
every finite set of channels and of deployments.  The inductive invariant has a
part per concern: `MiningOK` (the target the miner will have read when its mail is
empty is the channel's), `CountingOK` (delivered, dropped, under way and pending
telemetry add up to the shares accepted), `PulseOK` (the last pulse is as late as
the number of pulses requires), `SpoolOK` (a file is complete before its proof is
posted, an answer "ok" is the node's) and `Whereabouts`.  What is pending is a sum
over all telemetry keys, written with a fold; `TotalGrows` says what one more
share does to it.  It is proved by induction over the subsets of the keys, with
the well-foundedness of strict inclusion and the least counterexample
(`SmallestSubset`) in the place of an induction rule.

`JobDeclarationProofs` proves `TypesInvariant`, `DepartedClientsHoldNothing` and
`TokensAgree` (`Spec => []TokensInv`) without assumptions on what clients send:
they may use each other's request ids and declare a token twice.  `Departure` says
which maps a client under removal has left already, and that what the declaration
loop still holds for it is not activated; `Ledger` that a token that has not
clashed is, through the stages allocated, pending, active and claimed, in one
place, bound to one declared job that names it back, and that a clash marks every
token that a shared key could reach (`KeysApart`).  Each step of the loop, of the redemption and of
the janitor has a lemma that says which row of the ledger it moves.

`ClientRuntimeProofs` proves `ClientTasks` (`Spec => []TasksInv`) for every number
of upstreams, retries and generations, from `Fallback`: the manager of a
generation that was left, or whose barrier is open, has closed, and a manager is
polled before anybody can signal a fallback.  `ClientModes` (`Spec =>
[]ModesAgree`) covers both configured modes with any number of upstreams, logged
failures and redirections.

`TranslatorRuntimeProofs` proves `TranslatorTasks` (`Spec => []TasksInv`) from
`Generations` (a generation that was left is signalled and quiet, a later one
does not exist, what `join_all` waits for covers every unfinished task), and
`OnlyIncompatibleLeft` from `AskedOnce`, which remembers what was asked of the
pool that is being negotiated with.

`TemplateProvidersProofs` proves, for every finite set of deployments and every
number of templates, tips, constraints, requests and failures:

* `ProvidersFeed`: `Spec => Feed!Messages`, the refinement of `TemplateFeed`
  without its fairness;
* `RetentionIsSound`: `Spec => []RetentionInv`;
* `ConstraintsScope`: `Spec => []ScopedToConstraints`.

The inductive invariant `ProvidersInv` has five parts.  `Bounded` is about the
messages: `Orderly` says of what was sent, and of what the connection of the SV2
provider still holds behind it, that each message may follow the one before it
(`Follows`), that ids, tips and constraints grow along the whole sequence, and
that the last message determines the last template and the announced tip; nothing
sent is newer than the counters.  `Counters` and `Requests` bound the rest and count
constraints: those applied, those in the channel and the one the message task
holds while it waits for the monitor are never more than were given.  `TasksOK`
says what each task knows: a prevhash is due exactly while its task is between the
two messages, a template that is being fetched is newer than all that was sent,
and the monitor waits under the constraints of the last message.  `ScopedToConstraints`
needs this last clause, and that no template is fetched by the message task before
the old monitor is over.  `RetentionOK` says that what left the template data, what
is being destroyed and what is lost is older than the announced tip (IPC), or
has `MaxRetained` newer templates beside it (RPC; `Eviction` is the argument
about the smallest id that is kept); ids that wait for their timer are older than
the last template.  Every step sends nothing (`AfterQuiet`), sends one message
(`IpcSends`, `RpcSends`, `AfterSending`) or moves one over the connection
(`TpBounded`, `Forwarded`); `FeedQuiet` and `FeedStep` turn each kind into a step of
`TemplateFeed`.  Deployments are assumed to be finitely many, so that there is a
largest one to bound ids with.  The network's SV2 provider is a program outside
the repository; that it keeps to the protocol is the content of `TpTemplate` and
`TpPrevHash`, an assumption and not a result.

`DeclaratorClientProofs` proves `ClientTokens` (`Spec => []TokensInv`) and
`ClientShares` (`Spec => []SharesInv`) for every finite set of miners and every
number of templates and shares.  The inductive invariant `ClientInv` adds to the two
what the handlers rely on and do not check.  `TemplatesOK`: the future template that
waits for its prevhash is the newest one, and nothing between the last prevhash and
it starts a tip.  `RequestsOK`: before the upstream channel is open the
transactions of a template are asked for once.  `JobsOK`: request ids are never
reused, and a job stored for the future template is neither declared nor with the
pool.  `StockOK`: a token is in the stock, with such a stored job, or spent, which
makes the two places that declare (the transactions after the prevhash, the
prevhash after the transactions) exclude each other.  `MinersOK`: miners and the
share cache hold templates of the present tip only, the fact that a new tip must
restore by clearing them.  `UpstreamOK`: what the pool acknowledged is for the
present tip and is found under its own template.  `SentOK`: a share that was sent
is in no cache, no share waits for two templates, and each was sent under the
tip of its template.  `SharesSentOnce` alone is not inductive: an acknowledgement
could send a cached share again.  Handlers that do the same thing share a lemma
(`SharesAreSent`, `TokenTaken`, `CustomAdded`, `StoredDeclared`).

Each inductive invariant was checked with TLC on the instance of its run before
it was proved.

Only model-checked: the liveness properties (fairness and `ENABLED` are beyond
the prover), with them the fairness of `TemplateFeed`, and the modules
`PoolRuntime`, `JobValidation`, `TranslatorJobs` and `TranslatorTargets`.

## 5. Not modelled

The v30x engines of `bitcoin-core-sv2` (the control of v31x but for interruptible
calls), the hash-rate arithmetic of vardiff, identity resolution and payout
parsing, the construction of coinbases, merkle paths and HTTP requests, and what
section 2 leaves out of the modelled parts.  Monitoring serves snapshots of state
it does not own; configuration, noise and framing, the integration tests and the
deployment files hold no protocol state or are out of TLC's reach.

## 6. Plan

1. `ChannelsInv` of `TranslatorJobs` and `TargetsInv` of `TranslatorTargets` for
   any number of miners.
2. The barrier that `ClientRuntime` passes in one step as a refinement: its
   `Trigger` and the closing of its manager mapped to the steps of
   `FallbackCoordinator`.
