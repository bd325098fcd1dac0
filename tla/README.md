# A TLA+ model of aether-rl

aether-rl trains a language model with reinforcement learning across machines
that only make outbound connections. A central **coordinator** keeps everything
that must not be lost in one SQLite database and a few directories; **workers**
ask it for leases and answer the inference requests of the episodes it runs; a
**trainer** turns batches of rollouts into new weights, which the coordinator
publishes as the next **policy**. The model follows a rollout from a lease to a
policy and back to the workers, and covers what stands around that path:

```
    workers                     coordinator                      trainer
 --------------  lease/renew  -----------------  batch files  ------------------
 | Episodes   | <-----------> | Ledger        | -----------> | TrainerRanks    |
 | Inference- |   exchange    | Coordinator   |              | MicroBatches    |
 |   Broker   | <-----------> | Credit        |              | TrainStep ...   |
 | Worker-    |               | TrainingQueue |  step dirs   | Checkpoints     |
 |   Policies |   policies    | Policy-       | <----------- | Adapters        |
 | TokenServ. | <------------ |   Publication |              ------------------
 --------------               -----------------
```

Paths below are relative to `src/aether_rl/` in the repository. `PROJECT.json`
maps every definition to its lines.

## 1. Inventory

| Component | State | Operations | What makes it correct | Module |
|---|---|---|---|---|
| Assignment ledger (`coordinator/database.py`) | assignment row, lease attempts, cancellation, outcome | lease, renew, expire, cancel, succeed, fail/retry | one active lease, one outcome, attempts within budget, deadlines kept, cancelled work ends | Ledger |
| Scheduling (`database.py`, `api.py`, `scheduler.py`) | groups, lease requests, sessions, virtual finish times, active policy, spool | register, validate request, lease-or-create, heartbeat, renew, expire, accept, activate, recover | group state matches its assignments, requests are idempotent, slots and fairness hold, nothing stale is handed out | Coordinator, RolloutBoard |
| Start, schema, spool (`database.py`, `migrations.py`, `spool.py`, `runtime.py`) | lock, schema version, sources, spool files | start, migrate, recover, register, write | one owner, back-fill names the right source, rows have durable files, task order survives restarts | CoordinatorStart |
| Lease endpoint and episode runner (`api.py`, `environments.py`, `worker/daemon.py`) | long polls, gate, task and expiry time per lease, the worker's slot and clock offset | poll, offer, start, watch, cancel, heartbeat | copies of the expiry time agree in the safe direction, no task outlives its lease, every task ends | Episodes |
| Inference exchange (`coordinator/inference.py`, `worker/daemon.py`) | queue, active request, replies | request, exchange, reply, close | every request answered once although exchanges are lost and repeated | InferenceBroker, InferenceService |
| Worker policies (`worker/policy_cache.py`, `policy_runtime.py`) | cached adapters, pins, loaded policies, references | ensure, pin, evict, load, unload, retain | nothing in use is evicted, both budgets kept, no slot waits for ever | WorkerPolicies |
| Policy transfer and relay (`policy_transport.py`, `policy_relay.py`) | partial files, shards, index | sync, broadcast, stream, resume, place | only the manifest's bytes are placed | PolicyTransfer |
| Worker process (`worker/daemon.py`, `client.py`, `state.py`) | lock, identity, vLLM child, session | start, register, serve, stop, kill | one worker per directory, ends only for cause | WorkerProcess |
| Token serving (`inference/vllm/`, `patches.py`) | running requests, captured experts, padded inputs, adapters | serve, step, respond, load | limits, usage and experts belong to their request | TokenServing |
| Policy files (`trainer/policy.py`, `api.py`) | files, verified flag | verify, range request, download | nothing unverified or torn is accepted | PolicyFiles |
| Credit (`orchestrator/`) | traces, samples, advantages | tokenise, score, filter, finalise | each sampled token once, streams aligned, advantages balanced | Credit |
| Training queue (`results.py`, `trainer_bridge.py`) | processed groups, batches, artifacts | process, discard, select, publish, commit, export, recover | a rollout is used once, batches are homogeneous and fresh, no crash wedges the queue | TrainingQueue |
| Policy publication (`runtime.py`, `policy_distribution.py`, `trainer/`) | step directories, policy tree, object store | train, save, publish, distribute, activate, prune | whole hand-over, exact resume, one lineage, every batch becomes a policy | PolicyPublication |
| Packing (`trainer/batch.py`, `utils.py`) | samples, bins, micro batches | truncate, pack, split, pad, distribute | no token lost or doubled, images whole, ranks in step | MicroBatches |
| Ranks and run manager (`trainer/runs.py`, `rl/packer.py`, `rl/data.py`) | known runs, store, micro-batch files | discover, synchronise, pack, receive, broadcast | collectives pair, ranks agree | TrainerRanks |
| Training step (`rl/train.py`, `loss.py`, `lm_head.py`) | token counts, shards, gradients | forward, loss, export, gather | each token with its own log probability and the right denominator | TrainStep, OutputHead |
| Parallelism (`parallel_dims.py`, `ring_attn.py`, `ulysses_attn.py`, `moe.py`, `deepep.py`) | shards, buffers, exchanges | gather, scatter, route, dispatch, combine | the same result as on one rank | ContextParallel, ExpertDispatch, ParallelDims |
| Checkpoints, optimizer, adapters (`ckpt.py`, `optim.py`, `scheduler.py`, `lora.py`) | states, checkpoints, shared tensors | step, save, clean, resume | a restart continues one moment; layers see their run | Checkpoints, Adapters |
| Model set-up and conversion (`model.py`, `weights.py`, `models/`) | tensors, converted directory | build, freeze, shard, convert, load | nothing uninitialised trains, conversions are inverse | ModelSetup, WeightConversion |
| Monitors, reports, telemetry (`utils/`, `entrypoints/`) | histories, requests, gauges, pages | log, retry, fork, scrape, render | what is shown is what happened | Monitors, Reports, Telemetry, Dashboards |
| Architectures and kernels | – | – | floating-point arithmetic | – |

**Interaction.** Requests of workers reach the repository through
`CoordinatorService.call`, a one-thread executor, so repository calls never
overlap; every change is one transaction (`BEGIN IMMEDIATE`). Everything between
two such calls in a handler is interleaved with other handlers, the episode tasks
and the watchdogs of one event loop. The service loop of `CoordinatorRuntime` is a
single task that processes groups, exports batches and publishes policies in turn.
Trainer and coordinator share only directories; the ranks of the trainer meet in
collectives, a key-value store and micro-batch files. A worker has one event loop
and a thread per blocking call.

**What is hard.** Workers fall silent, repeat requests and answer late; leases
expire by the clock before the reaper says so; replies are lost after the state
behind them changed; a new policy makes work stale while it is being done; several
operations take more than one transaction, or a file and a transaction, and the
process can die in between; the trainer overwrites directories in place; tokens are
shifted, cut, packed and gathered where an error changes no shape. `PROJECT.json`
lists these as hazards, each at its line with the properties that would notice.

## 2. Modules

### Ledger
One assignment as a record: its row in `assignments`, its lease attempts
(`lease_attempts`), its cancellation and its line in `assignment_outcomes`. The
operators are the transitions: `NewRow`, `LeaseRow`, `RenewRow`/`RenewSingle`,
`ExpireRow`, `CancelRow`, `SucceedRow`, `FailRow`, `RetryOrTerminal`. An
`INSERT` that would meet an existing outcome yields `"integrity_error"` instead
of being silently merged, so that `OneOutcome` would see it. The row invariants
(`LeaseAgrees`, `OutcomeAgrees`, `BudgetKept`, `CancelAgrees`, `DeadlineKept`) are
stated here and lifted to the table by Coordinator.

### Coordinator
The tables and the operations of `CoordinatorRepository`, one action per
transaction: `RegisterWorker`, `ValidateLeaseRequest`, `MarkNoWork`,
`LeaseOrCreate` / `Generate` / `LeaseGenerated` (the three transactions of a lease
call), `RecordHeartbeat`, `RenewOne`, `ExpireLeases`, `PublishResult` / `CommitResult`
(file, then transaction), `AcceptFailure`, `ActivatePolicy`, `Crash`, `Recover`, and
`Tick` for time. `call` is the rest of a call on the database thread. A rejected
request rolls back and is a stuttering step. Workers are unconstrained: any
session may send any request, heartbeat any subset of its leases, answer late,
or do nothing.

Abstractions: times are small integers, `sent_at` checks are left out (they
reject reordered requests, i.e. stutter), a policy is its version, a payload is a
model value, the weight of a source is folded into `Cost` = group_size / weight.
`release_unoffered_lease` deletes a row that others reference, always fails and is
a stutter. A start-up is one step. The clock never goes backwards.

### RolloutBoard
The contract the rest of the system relies on: groups are posted whole, each
member gets one final verdict, the group is ready from the step that settles its
last member. `ImplementsBoard` is the refinement, with the verdict read off the
assignment rows.

### TrainingQueue
The service loop's side: `ProcessGroup`/`RecordGroup` (artifact, then
transaction), `DiscardStale`, `DiscardEmpty`, `PublishBatch`/`CommitBatch`,
`ExportBatch`, `PublishPolicy`, with the loop's position in `pc`, and the trainer
as `Train`. Groups come and finish in any order (what Coordinator promises).
A trace is one of six fates in `_process_group`; what a kept trace is worth is Credit's subject.
`training_batch_size` is modelled, its alternative `token_batch_size` is not. Batch
artifacts are the sequences of rollouts that have samples, so that two contents
for one step number can be told apart, which is what `_publish` and `recover`
compare by digest. What the SELECTs return is a set of rollouts listed in their
`ORDER BY`: `InOrder` is the one list of a set that `Precedes` (sequence, then
ordinal) increases along, a definition without recursion that can be proved about.

### PolicyPublication
The trainer's steps in the order the code makes them (receive, train, overwrite
broadcast, STABLE, overwrite checkpoint, STABLE) against the runtime's
`_publish_available_policies` and `start`. A directory being overwritten is `Torn`; a
STABLE file of an earlier attempt stays. Weights are the sequence of trainer runs
that made their steps: a step trained again after a crash has other weights, as
training is not reproducible. A trainer can die, an upload can fail and the
coordinator can crash at any step. `weight_broadcast`'s own clean-up keeps every
step at the interval the coordinator configures and is left out. As
`docs/operations.md` asks of the operator, a killed coordinator's trainer is gone
before the next start.

### InferenceBroker and InferenceService
The exchange of one lease: episodes put requests in the broker's queue, the worker
polls with the reply to the previous request, runs the request locally and polls
again. A poll may be lost on either way, a handler abandoned after it has taken a
request from the queue, the lease closed and registered again while old polls are
under way. `InferenceService` is what an episode expects: a request is answered at
most once and fails only when the lease closes. `ImplementsService` is the
refinement. A worker has one exchange at a time, as `WorkerDaemon` does. An episode may
have any number of requests waiting, as `request` allows. Then the broker can lose one:
the handler of a poll the worker gave up still waits, takes the second request from the
queue and overwrites `active_request`, and nothing remembers the first (run `relay`).
`crowded` records that two requests of an exchange waited at once, `givenUp` counts the
polls given up; `RequestKept` says that nothing is lost without both, and
`RequestsSettle` that whatever is not lost is settled. The refinement holds in all
cases, since a lost request is never answered wrongly.

### Episodes
The lease endpoint from the first transaction to the offer, the runner's tasks and
its expiry watchdog, one slot of a worker with heartbeats, clock offset and
watchdog. The row, the runner and the worker keep three copies of an expiry time;
`EpisodesTracked` and `WorkerStopsInTime` say in which direction they may differ. An
episode's content is one step that ends well or fails. A lease answered by
`_complete_no_work` has no episode; `release_unoffered_lease` fails.

### WorkerPolicies and PolicyTransfer
Slots and the prefetch task of a worker between the disk cache (pins, space,
eviction in the order of use) and vLLM's loaded policies (references, capacity,
a condition variable). A kill empties the memory and leaves the disk. The bytes of
a set of adapters are counted as the cardinality of a set of pairs, which is their
sum and can be proved about without a fold.
PolicyTransfer takes one file from the relay's shards, an external store or the
coordinator into a part file and places it after its digest was compared, while the
relay follows a moving current policy and either side stops.

### The components of MCComponents
Twenty modules that share no state with each other at this level of detail:

- *From traces to gradients.* `Credit` (branches, samples, grpo, max_rl, echo and opd
  in scaled integers, routing, filters), `MicroBatches` (the whole of `prepare_batch`
  with the Karmarkar-Karp distribution), `TrainStep` (two by two ranks, three loss
  components, export with STABLE, statistics), `OutputHead` (online log-sum-exp over
  chunks of tokens and vocabulary and its gradient, base 2 so that sums are exact).
- *Splitting.* `ContextParallel` records which query met which key in ring, Ulysses
  and Mamba layers, buffers reused and gathers in flight; `ExpertDispatch` which row
  ran through which expert with either exchange; `ParallelDims` the meshes.
- *The life of a trainer.* `TrainerRanks` (discovery, store, collectives, files,
  crashes), `Checkpoints` (optimizer with offloading, schedule, saves, retention,
  resume), `ModelSetup` (meta tensors, freezing, sharding, conversion between
  barriers), `WeightConversion` (the operator chains of eight models both ways),
  `Adapters` (tensors shared by reference between run manager and layers, optimizer
  groups, state-dict hooks).
- *Deployment.* `WorkerProcess`, `TokenServing`, `PolicyFiles`, `CoordinatorStart`.
- *Reporting.* `Monitors`, `Reports`, `Telemetry`, `Dashboards`.

Some paths that look like details and are kept: a sample whose `mm_kwargs` holds images
without `image_grid_thw` ends the trainer with a `KeyError` when it is cut
(`MicroBatches.Unindexed`); the store's key carries a run's config only in the
synchronisation that takes the run up (`TrainerRanks.carried`), and a rank may read it after
the next write (`late`); a server that is still loading when its worker is killed binds
the port later, if no other does first (`WorkerProcess.StrayBinds`); a monitor may take over
a run named by `RUN_ID`, enabled without having registered one (`Monitors.runId`).

`MCServing`, `MCComponents` and `MCProgress` put components side by side: `focus` picks one
at the start and only its actions are enabled, so the states of the components add up;
in `MCComponents` they share the variables `s1`, `s2`, ... Each named property is the
conjunction of the properties the modules state and comment on. `MCServing` extends
its four modules, so that the runs check the very definitions their theorems state;
this is why they are called `TransferSpec`, `EpisodesSpec` and `PoliciesSpec`. `MCProgress`
holds the coordinator's work and the training queue for their liveness.

## 3. Runs

| Run | Instance | Shows |
|---|---|---|
| `leases` | 2 sessions, 3 requests, a group of 2 with 2 attempts each and a deadline, 2 policy versions, clock to 4; 366,830 states | the ten invariants and two action properties of scheduling |
| `sources` | 1 session, 3 requests, a train source without and an eval source with a deadline, costs 2 and 3, preference for loaded policies, 2 payloads per result, crashes; 207,563 states | `FairShare`; `ResultsOnDisk`; the refinement `ImplementsBoard`, which includes that verdicts and ready groups never change |
| `progress` | the coordinator with two sources, and the queue with 2 groups, whole-group scoring and a crash; fairness; 25,045 states | `WorkEnds`: groups with a deadline become ready, cancelled work ends; `QueueMoves`: finished groups are processed, batches reach the trainer |
| `batches` | 3 groups with 5 shapes of outcome, batches of 2, lag 1, 3 policy versions, a crash; 490,889 states | single use, homogeneity, freshness, agreement of files and rows, no wedge |
| `batch_unit` | as `batches`, smaller | **violation**: a batch is counted in rollouts, not in groups |
| `publication` | 3 steps, retention 1, distribution on, 3 faults, fairness; 42,142 states | exact resume, whole hand-over, one lineage, downloadable policies, every batch becomes a policy |
| `serving` | 2 requests and 2 polls with 2 lost or abandoned; 2 slots, 4 adapters, room for 3 on disk and 1 loaded, a crash; 2 attempts and 2 lease requests with a fault; 3 policies of 2 blocks with 2 stops; 1,555,828 states | `InferenceSafe`, `PoliciesSafe`, `EpisodesSafe`, `TransfersExact`, and the refinement `ImplementsService` |
| `serving_progress` | the same, smaller, with fairness; 79,950 states | `ServingProgress`: requests are settled, slots get to serve, episodes end |
| `relay` | as `serving` | **violation**: a request is lost between two polls |
| `components` | the twenty modules above, each over its own instance in `MCComponents`; 1,229,604 states | `TokensTrainedExactly`, `ParallelismExact`, `TrainerConsistent`, `DeploymentSound`, `ReportsTruthful` |
| `dr_grpo` | the training step with `rl_normalization = "dr_grpo"` | **violation**: packed responses share one denominator |
| `store_sync` | the ranks of `components` | **violation**: a rank runs its hooks a synchronisation before the others |

**Why the bounds are enough.** A lease is at most one retry from exhaustion, so
two attempts reach budget, retry delay and exhaustion; the clock outlasts the
deadline, so expiry by deadline, by silence and renewal up to the deadline all
happen; two sessions and three requests let a second worker take over from a
silent one while the first still answers; two policies suffice to make work stale.
In the queue three groups over three versions make a batch wait for a partner
that becomes stale, and a crash can fall between every file and its row. Three
steps with retention 1 let pruning remove a checkpoint while two later ones are
being made, and three faults let a step be interrupted, repeated and interrupted
again. `MaxSteps` of the queue is not reached: three groups of at most two rollouts fill
at most three batches. Sessions, payloads and requests only name things and are
symmetric; liveness runs do not use symmetry.

In the exchange two requests and two polls are what it takes for a late poll to
meet the next request; the second give-up lets both polls of an epoch be
abandoned. Two slots that want different adapters with capacity for one wait for
each other, the fourth adapter forces an eviction while three are in use. An
episode's second attempt starts while the first one's task may still run. A file of
two blocks can be resumed in its middle, and three policies let the relay be two
behind. In `components` the inputs are chosen at the edges of each algorithm:
samples that just fit, just do not and end inside an image; sequences cut at every
place by two ranks; ranks with different numbers of tokens and of chunks; LoRA patterns that
name frozen layers; chunks that do not divide the vocabulary; source ids that begin one
another; a rank that is killed between any two steps. Bounds on faults (`MaxCrashes`, `MaxFaults`, `MaxGiveUps`, ...)
are constants of the modules.

`publication`, `serving`, `serving_progress`, `relay`, `components`, `dr_grpo` and `store_sync`
may stop, since a finite number of steps, requests, samples or leases is handled; the
other runs check for deadlock. That nothing waits for ever on the serving side is
`ServingProgress`, and that ranks do not is `CollectivesMatch`.

**Fairness.** Coordinator: time passes, the reaper task runs every second
(`api.py`), the database thread finishes its call, a dead coordinator is restarted;
workers and the generation of groups are not fair. TrainingQueue: the event loop
runs the service task and a supervisor restarts the process
(`docs/operations.md`); nothing makes groups finish or the trainer advance.
PolicyPublication: both processes take steps, and somebody stops a coordinator
that reports it is not ready and starts one that is down; faults are finitely many.
Serving: the event loops run handlers, tasks and watchdogs that can go on, the local
inference request returns (it has a time-out), clocks advance, and the lease of a
worker that ended is closed; a worker need not poll, a lease need not be renewed
and an environment need not finish.

**Findings.** `batch_unit`: `docs/configuration.md` describes `training_batch_size` as
"Completed groups exported in each trainer batch"; the code counts rollouts of
one policy (`results.py`, `_select_policy_homogeneous_batch`), so one group of two fills a
batch of size two. `dr_grpo`: `rl/train.py` counts responses by slicing a mask of
shape (1, length) along its first dimension, so a micro batch with several packed
responses counts as one, while the setting promises one fixed completion length
per response. `relay`: `docs/configuration.md` says a worker "forwards each request to its
loopback vLLM and returns the response"; in the trace the worker gives up a poll that
was answered with a first request, the handler of another abandoned poll takes a second
one and overwrites `active_request` (`inference.py:107`), and the first waits until the
lease is closed. `store_sync`: `synchronize_state` says "All ranks then execute hooks and
parameter resets together" (`runs.py:405`); a rank that reads the key only after the
master has written it again runs its creation hooks a synchronisation early
(`runs.py:431`), and from there the barriers no longer pair.

**Observed while modelling**, and kept in the models as the code has it:

- Freshness holds when a batch is recorded and is not checked again when it is
  trained. A lease answered by `_complete_no_work` or whose gate closes costs one
  lease duration.
- Episodes: an attempt lost this way costs its lease duration and one of the attempts;
  `EpisodesSafe` says that nobody serves it and that it ends, not that it is avoided.
- Adapters: when another run replaces the trained one between two
  synchronisations, ranks other than the master copy its scaling factor and then
  poison it with 1e6 (`runs.py:434`). `LayersSeeRun` says exactly when a layer sees the
  poison: on those ranks, in the step after a replacement, until the next
  synchronisation heals it. The optimizer keeps the old run's moments.
- TrainerRanks: with no late read the ranks run hooks together and never block one
  another; with one they may, but what they train on agrees still (`RanksTogether`).
- ExpertDispatch: DeepEP exchanges pair only if all ranks have equally many chunks,
  which nothing enforces, as each rank cuts its own tokens (`moe.py:675-703`).
  `ExchangesPaired` covers both cases: ranks with unequal numbers part exactly at
  the last chunk both have, and neither ends the layer.
- ModelSetup: under expert parallelism the base is frozen once more by the LoRA patterns
  alone, so patterns that name a frozen router or the indexer let it train;
  `TrainableExact` states which tensors train in every case.
- MicroBatches: image arguments without `image_grid_thw` end the trainer when the sample
  is too long (`batch.py:63`).
- WorkerPolicies: disk space suffices if the limit holds the loaded policies and one
  per slot; a kill during an eviction leaves a torn directory at which the next start
  refuses. A killed worker's vLLM server answers the next worker's readiness check,
  even one that was loading when the worker died and bound the port later.
- PolicyFiles: an adapter is digested once per process; later damage is found only by
  the worker's own digest.
- CoordinatorStart: a source dropped from the configuration stays enabled, and a start
  that fails on a conflict keeps the sources registered before it.
- Checkpoints: `resume_step = -1` takes the latest directory even when torn;
  `keep_interval` without `keep_last` may delete the checkpoint just written; a finished
  run trains one more step when restarted.
- ModelSetup: a converted directory is recognised by its existence; only global rank
  0 converts, so machines without a shared disk fail at their first start.
- TokenServing: a prompt of exactly `max_model_len` gets a limit of 0, which the engine refuses; a body that cannot
  be read counts as one with a limit and falls to vLLM's default of 16 tokens.
- Credit: the first filter that matches decides, so a monitoring filter before an
  enforcing one shields a rollout.
- Monitors and reports: a forked child may submit the final summary; a crash in the
  middle of a metrics row loses that row and the next; report pages read several
  SELECTs without a transaction.

## 4. Proofs

The theorems are in eight modules and hold for arbitrary constants under named
assumptions that TLC evaluates in the runs. The assumptions are what the code's
configuration and identifiers guarantee:

| Assumption | Says |
|---|---|
| `LedgerAssumption`, `CoordinatorAssumption` | sizes, durations and costs are positive, attempts within the limit, `None` names nothing, sources are finitely many and numbered in the order of their ids |
| `QueueAssumption` | the batch size is positive, groups have shapes made of traces; no more policies than steps, since a version is made from a batch |
| `PublicationAssumption` | there is a step; retention and faults are natural numbers |
| `BrokerAssumption` | the broker's other answers ("wait", "stop", "malformed") are no requests, `None` is no request, answer or call |
| `TransferAssumption` | files have blocks, downloads at least one attempt, `max_versions >= 2` as `PolicyRelayConfig` requires |
| `WorkerAssumption` (WorkerPolicies) | slots and adapters are finitely many, every adapter has a size and fits the disk budget alone, at least one is loaded; base models are no adapters |
| `EpisodesAssumption` | a lease lasts, there is a slot, handlers are numbered; attempts, requests and faults are natural numbers |
| `RanksAssumption` | ranks are numbers and the master (rank 0) is one |
| `WorkerAssumption` (WorkerProcess) | the bounds of the pauses are in order, the body limit is positive, and the interface's slack (1 MiB in the code) covers encoding and envelope |

**Rows (CoordinatorProofs).** `TypeCorrect`, `LeaseExclusion`,
`OutcomeUnique`, `AttemptsBounded`, `CancellationConverges`, `DeadlinesHold`. None of
the five row properties is inductive by itself: that the outcome is unique needs that
a leased row has no outcome, the budget needs that only rows with an attempt left
wait, and exclusivity needs that the row's current attempt is the only active one.
The first part of the module therefore proves that each transition of a row preserves the
conjunction `RowInv` (lemmas `LeaseRowOK`, `ExpireRowOK`, `CancelRowOK`, ...), and what a
transition may do to a row beyond keeping it consistent: `Kept`, a transitive relation
between the row before and after (a terminal row keeps its verdict, a closed lease
stays as it is, an expired one is not extended), which the next level needs without
opening the transitions again.
The second part lifts this to the table (`TableOK`), adds that a known request names
a session and a call under way serves a pending one (`RequestsOK`), and shows one lemma
per action that `IInv` is preserved.

**Groups, requests, slots and the refinement (CoordinatorGroupProofs).** On top of
`IInv`, one lemma (`StepShape`) sorts every step of the coordinator into five kinds: no
row changes (`QuietStep`); rows change as `Kept` allows and their groups are recomputed
(`SweepStep`); after such a sweep one row is leased (`GrantStep`); a result is accepted
(`AcceptStep`); a group is created (`Generate`). Most theorems then need one case per kind instead of
one per action:

- `GroupsReadyWhenSettled`, `StaleWorkIsCancelled` from `GroupInv`, which adds that a group that does
  not exist has no rows and one that exists has some;
- `LateAnswersAlwaysLose`, `StaleWorkIsNotLeased`: action properties, of every step;
- `AcceptedResultsOnDisk` from `SpoolInv`: the file named by a call under way is in the spool, and a
  lease that succeeded belongs to an assignment that did, so that `recover` cannot
  remove the file of an accepted result;
- `LeasesAnswerRequests` from `RequestInv`: a request holds a lease exactly once it is
  answered, and the lease it holds was issued;
- `SlotsNeverOverrun` by counting the occupied slots before and after each kind of step;
- `SourcesShareFairly` for any finite set of sources: the chosen source has the least
  finish time, and only that one grows;
- `CoordinatorImplementsBoard`, the refinement of RolloutBoard: `Init` implies
  `Board!Init`, and each kind of step is a step of the board or leaves the board alone,
  because a row's verdict is `"none"` until it is terminal and never changes after.

**The queue (TrainingQueueProofs).** `QueueTypes`, `RolloutsConsumedOnce`, `BatchesOfOnePolicy`,
`TrainedAsRecorded`, `QueueNeverWedges` and the action property `BatchesFresh`. The invariant
`QInv` is needed because the properties relate rows, artifacts and the trainer across a
crash: processed groups are finished and have their file (`GroupsOK`); rows and batches
point at each other and every recorded batch has its artifact (`BatchesOK`); between its
file and its row a batch is still what `record_training_batch` expects (`HeldOK`); no other
file is in the way once start-up has cleaned up (`FilesOK`); what was exported and trained
is recorded (`TrainerOK`). That `InOrder` lists a set without repetition, for every
finite set of rollouts, follows from the order by a pigeonhole argument and needs no
induction.

**Publication (PolicyPublicationProofs).** `PublicationTypes`, `ResumeExact`, `HandoffSafe`,
`Downloadable`, `LineageUnbroken`. The invariant `PublicationInv` says: the trainer works
on the first step without a stable checkpoint (`TrainerAhead`); stable checkpoints after
the active version have no gap and each has an equal broadcast (`StableContiguous`,
`StablePairs`); what the trainer has written so far matches its position
(`TrainerWrites`); `start` runs without a trainer and launches one only when nothing
stable is left to publish (`StartsAlone`); and the version being published is the stable
one after the active (`PublishesStable`). This is why a left-over STABLE file does no
harm: a broadcast may be stable while it is overwritten, but then its checkpoint is
not, and start publishes every pair before it lets a trainer near it. Pruning is safe
because it removes broadcasts up to, and checkpoints strictly before, the active
version. `Downloadable` needs only that policies and uploads are never withdrawn.
`LineageUnbroken` adds `LineageInv`: besides the policies, the stable checkpoints after the active
version (`StableLineage`) and the weights the trainer holds (`TrainerLineage`) each
follow by one training step from those before, so that a step trained again after a
crash has other weights than the first try but the same parent.

**The exchange (EpisodeServingProofs).** `BrokerTypesHold`, `BrokerServes` and
`InferenceIsSafe`. The refinement of InferenceService needs only the types. Safety needs
`ExchangeInv`, for any number of requests that wait: what is queued or handed out is waited
for and has one place (`ExchangeExact`); nothing is lost as long as there is one request
or one poll, which is the worker's own (`KeptInv`, `OnePoll`); what is not sent, still
queued or left in a closed exchange has been seen by nobody (`HeldBack`); there is one
answer to a request that was run, wherever it is held, and none to another
(`OneAnswer`); the poll the worker waits for carries its reply and brings nothing it has
run (`PollCurrent`); and a request that was run and is still handed out gets its reply
with the poll that is about to be sent or has not arrived (`ReplyComes`). Together they
make a repeated poll harmless: it brings the same reply, or asks for a request the worker
has not run.

**Transfer (PolicyServingProofs).** `TransfersAreExact`: only the policy's exact bytes are
placed, and every index record leads to the shards of its own policy, with at most
`max_versions` of them. `TransferInv` says that a version has one directory, among the last
`max_versions` (`DirsSound`), that a record and a directory of one version are of one policy
(`RecordsSound`), and bounds the index by an injection into the versions that are kept
(`IndexBounded`).

**Episodes (EpisodeServingProofs).** `EpisodesAreSafe`. Three copies of an expiry time move
at different moments, and the invariant `EpisodesInv` says in which direction each may be
wrong. A row is extended from the present only (`RowsOK`), so a renewal never shortens a
lease and every older copy stays on the safe side. A request refers to a granted lease
and ids after the slot's are unused (`RequestsOK`). A handler's offer is the lease of its
request, and the answer it sends carries no later expiry than the row (`HandlersOK`); the
handler the slot waits for works for the slot's current request, so the answer that ends a
worker cannot reach it (`AwaitOK`). A heartbeat under way is never about the lease the slot
is being offered, and what it says it renewed was renewed (`BeatOK`): this is what makes a
late heartbeat answer harmless to the next lease. The slot serves a granted lease for no
longer than its row (`SlotOK`).

**The worker's policies (PolicyServingProofs).** `PoliciesAreSafe`. `PoliciesInv` says that
each lock is held exactly where the code is inside it and that a process that is down
has neither tasks nor loaded policies (`TasksOK`); what a slot has pinned is on disk and
what it serves is loaded (`HeldKept`); vLLM and the runtime's table agree but for the adapter
being loaded under the condition (`LoadedAgree`); counts equal the numbers of holders
(`ReferencesExact`); the budget holds with the download under way counted in (`BytesOK`). That
space suffices needs `SpaceOK`: while one slot looks for something to evict, it holds the
cache's lock, so no pin is added and only what is pinned gets loaded; what it cannot
evict is at most what was loaded and what the other slots had pinned when it began,
however the examined set has become outdated since.

**Ranks (TrainerRanksProofs).** `RanksMeet`, which is `RanksTogether` for any number of ranks and any
delay in reading the store; TLC checks it for a few as part of `TrainerConsistent`. `RanksAgree`
holds whatever happens; `CollectivesMatch` and `HooksTogether` hold until a rank reads a key
after the master has changed it (`late`), and `store_sync` shows that they need it. The
argument of `RanksInv` is that the master leads: its place says where the others may be
even then (`Places`) and where they are while nobody is late (`Follow`, `InTime`); who has
taken up the run and what the store's key holds (`Takeup`, `Joined`); what the ranks agree
on from the master's write to the gradient (`Agreed`), how far their step counters may be
apart (`Counted`) and which micro-batch files exist, of which batch (`FilesMatch`).
Parameters are reset exactly once per process (`ResetOnce`). Late ranks cannot train on
different things because the gradient is a collective, and a rank reaches it only
with a file of the master's batch.

**Worker processes (WorkerProcessProofs).** `WorkersAreSound`: `OneWorkerPerState`, `EndsForCause` and
`ServerOwned`, checked by TLC as part of `DeploymentSound`. `ProcessInv` adds to them that the process that is
not down is the one that holds the lock (`LockHeld`), that a worker past its start has the id
in the file, as has every session the coordinator knows (`IdsAgree`), and that only a worker
between the start of its server and its shutdown has one (`ServersHeld`). Most actions are an
instance of one step, `Acts`: the lock's holder changes its own record. The attempt also
corrected an assumption: that no reply is refused for its size needs a slack of six units
where the model's instance had four, far below the code's 1 MiB.

**A pitfall of the prover.** The SMT translation of tlapm 1.4.5 is wrong for an `EXCEPT`
with two updates at one index (`[f EXCEPT ![x].a = .., ![x].b = ..]`) and for an `@` inside
another `EXCEPT`'s `@`; either can prove a falsehood. The modules that are proved about use
`![x] = [@ EXCEPT !.a = .., !.b = ..]` without a further `@` instead. The proofs were
checked afterwards by trying to derive `FALSE` from the hypotheses of every lemma, which
fails for all.

**Only model-checked.** The liveness properties `WorkEnds`, `QueueMoves`,
`BatchesBecomePolicies` and `ServingProgress`: fairness is out of the prover's reach. The five
properties of `MCComponents` as a whole (`TokensTrainedExactly`, `ParallelismExact`,
`TrainerConsistent`, `DeploymentSound`, `ReportsTruthful`): the parts about ranks and worker processes are
proved as above; most others compare a recursive algorithm or a fold with a reference
definition, which needs induction over data.

## 5. Not modelled

Floating-point arithmetic (losses, trust-region masking, model architectures,
kernels, optimizers' update rules) is out of TLC's reach; the models keep which
values meet, how often and over which denominator. The vLLM engine, W&B, the
object store's service and the environments are external and appear by how the
code uses them. Patches of vLLM that change parsers or data types, HTML and chart
layout, field declarations of the configuration and argument parsing hold no state.
Entry points without callers (`create_lease`, `create_group`, `claim_pending_results`,
`mark_result_processed`, `evict_run`, `reset_run`) and `token_batch_size` are left out.
A coordinator that is killed while its trainer lives on is excluded, as
`docs/operations.md` asks of the operator. Corruption of files by the disk is modelled
for policy files only, elsewhere files are torn or missing.

## 6. Plan

1. Done: Ledger, Coordinator, RolloutBoard, TrainingQueue, PolicyPublication, the serving
   side and the components around the core; every safety property and refinement that
   a run checks of the core and of the serving side proved, and of the components
   TrainerRanks and WorkerProcess.
2. Theorems next: CoordinatorStart's recovery and Checkpoints' retention and resume, which are state
   machines without recursive algorithms.
3. An abstract training loop (groups in, policies out) refined by TrainingQueue and
   PolicyPublication.
4. `token_batch_size` in TrainingQueue.
