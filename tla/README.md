# Hierarchical KV cache for vLLM: specifications, model checks and proofs

The repository moves the attention history (the KV cache) of idle
conversational sessions from high-precision HOT blocks to INT8 WARM slots, and
brings sessions back without computing their history again. It is two bodies
of code: a modified vLLM (`src/external/vllm/vllm/`) and the experiments that
size, drive and judge it (`src/experiments/`). This directory specifies both.
Paths that do not start with `src/` are below the first; scripts and notebooks
named alone are in `src/experiments/`.

## 1. Inventory

### The engine

| Component | Code | State | Operations |
| --- | --- | --- | --- |
| Engine core loop | `v1/engine/core.py` | input and abort queues, batch queue (depth 1 or 2) | `step`, `step_with_batch_queue`, `_process_input_queue`, `_process_aborts_queue` |
| Scheduler | `v1/core/sched/scheduler.py`, `async_scheduler.py` | `requests`, `running`, `waiting`, `skipped_waiting`, `_pending_kv_transitions`, `_pending_finish_requests`, `finished_req_ids`, `num_waiting_for_streaming_input` | `add_request`, `finish_requests`, `schedule`, `update_from_output`, `reset_prefix_cache` |
| Demotion policy | `scheduler.py` 1296-1418, 1832-1844, `v1/kv_cache_state.py` | failure count, cooldown, probe | `_classify_idle_kv_sessions`, `_demote_kv_sessions_under_pressure`, backoff in `_validate_kv_cache_transition_results` |
| KV cache manager | `v1/core/kv_cache_manager.py`, `single_type_kv_cache_manager.py`, `block_pool.py` | block list per request, free queue, reference counts, hash index | `allocate_slots`, `free`, `plan_request_kv_state`, `commit_request_kv_transition` |
| Worker | `v1/worker/gpu/model_runner.py`, `gpu_worker.py` | block tables, request rows, results not yet attached, cached warm-slot table | `handle_kv_cache_state_transitions`, `finish_requests`, `add_requests`, `update_requests`, `prepare_attn`, `execute_model` |
| WARM migration | `v1/worker/gpu/hkv_migration.py` | `warm_residency`, slot allocator | `migrate`, `release_request`; `reserve_many`, `commit`, `rollback`, `release_keys`, `clear` |
| Configuration | `config/scheduler.py`, `gpu_worker.py` | environment variables and engine arguments | `SchedulerConfig` validation, the worker's tests of the environment, pool allocation |
| Prefix cache | `block_pool.py`, `kv_cache_utils.py`, `single_type_kv_cache_manager.py` | hash per block, reference counts, free queue in eviction order, hashes of each request | lookup, `touch`, `cache_full_blocks`, `free_blocks`, eviction, `reset_prefix_cache` |
| Kernels | `v1/attention/ops/triton_unified_attention.py`, `attn_utils.py` | contents of the two pools | quantize blocks to slots, attention over both tiers |

A client's calls reach the scheduler through the engine core, between steps
(aborts also before an output is processed). `schedule()` plans demotions and
puts them, with the scheduled requests and the finished and preempted ids,
into a `SchedulerOutput`. The worker runs it: first the transitions, then the
releases, then the new blocks, then the forward pass. The results come back
with the sampled tokens, and `update_from_output()` first acknowledges the
transitions (commit or not, then what waited for the answer: an abort, a turn,
the end of the session) and then processes the tokens.

### The experiments

| Component | Code | State | Operations |
| --- | --- | --- | --- |
| Trace and workload | `scripts/qwen_bailian_trace.py`, `analyze_qwen_bailian_workload.py` | records, sessions, block store | load, group, select, rebuild prompts; statistics, occupancy, forecast, recommendation |
| Replay | `scripts/run_qwen_bailian_replay.py` | a task, an input stream and an output collector per session, an observer, the driver | send turns, read outputs, sample the worker, time out, drain, shut down; record, validate, compare |
| Resume quality | `scripts/run_hkv_gsm8k_resume_quality.py`, `hkv_gsm8k.py` | evaluated sessions, ballast, events, the driver | turn 1, ballast, demotion barrier, turn 2 one by one, drain, verdict; capacity report before it |
| Smoke test | `scripts/run_hkv_warm_smoke.py` | one session, one keepalive, polls | three turns, two demotions, assertions |
| Single-model evaluations | `scripts/run_math500_baseline.py`, `run_qasper_e_full_baseline.py` | append-only JSONL, CSV | select, generate in batches, record, resume, judge |
| One-shot experiments | `run_kv_experiment.py`, `run_concurrency.py`, `run_prompt_lengths.py`, `run_qasper_e_baseline.py`, `analyze_qasper_e_baseline.py`, `inspect_qasper_e_lengths.py` | tables of results | choose examples, ask, judge, sum up, compare |
| Studies | `hkv_pressure_study/notebooks/*`, `notebooks/03_*` | tables of runs | find files, pair runs, check, aggregate, conclude |

The experiments are clients of the engine; an experiment writes a result file,
and a study reads what the experiments wrote. Each link is an agreement that
is nowhere checked as a whole: the preflight predicts what the scheduler will do,
the analysis predicts what the replay will select, a notebook trusts that the
driver wrote only runs of a certain kind.

### Behaviours that are hard

* Three parties disagree for a while about where history lives: the
  scheduler's block lists, the worker's tables and residency, and the pools.
  A demotion is planned in one step, copied in the worker, and committed a
  whole step later; blocks and slots are recycled in between.
* While a demotion is pending, the client may abort, send a turn or close the
  session. Each has to wait for the answer and none may be forgotten.
* Asynchronous scheduling schedules a step before the output of the previous
  one is known, so outputs come back to requests that were stopped, preempted,
  aborted or reset in the meantime.
* A request can be preempted with part of its history in WARM slots.
* With prefix caching on, a block is found by the tokens of its prefix and held by
  several requests: a block that was private when its demotion was planned may be shared
  when it is committed, and a hash may outlive the tokens it was made of.
* The WARM pool can be full; refusals must leave HOT authoritative and back
  off, with answers that arrive after the policy has moved on.
* The drivers are asyncio programs that may time out, or lose a task, at any
  await, and must still end with the engine shut down.
* The evaluations run for hours, are killed, and find out what they did from
  the tail of a file.
* A result counts only if the mixed run really read WARM history, and only in
  comparison with a run over the same questions.

`PROJECT.json` lists each hazard at its line with the properties that cover it.

### What makes each part correct

* Allocator: the two maps are inverse, the free slots are the rest, and a
  reservation is all or nothing.
* Scheduler: a request is in the queue its status says, exactly once; no HOT
  block is lost or given twice; nothing deferred is forgotten; no legal
  sequence of calls raises.
* Worker and scheduler together: once the worker has caught up they agree on
  the tier of every block; a HOT copy is given up only for a complete WARM copy;
  attention always reads the request's own tokens.
* Prefix cache: a block's reference count is the number of its readers, exactly the
  blocks without one can be evicted, and what a hash finds is the KV of its own prefix.
* Demotion policy: at most one probe at a time, never blocked for ever, no block
  released twice.
* Configuration: what the command line accepts, the scheduler and the worker
  accept as well, and the pools keep the byte budget.
* Trace, analysis, replay plan: what is analysed is what is replayed; equal
  hashes become equal tokens; searches find the best prefix.
* Drivers: every run ends; one that passes measured what it says, for every
  session, with the WARM pool empty afterwards.
* Evaluations: each example is recorded once, or the report says it is not.
* Studies: rows are paired with their own counterpart, classes are disjoint and
  exhaustive, and the differences reported follow from them.

## 2. Modules

Of the engine:

| Module | What it is |
| --- | --- |
| `WarmSlotLedger` | Abstract: slot ownership that changes one whole transaction at a time. |
| `WarmSlotAllocator` | `HKVWarmSlotAllocator`, one action per method. Implements the ledger. |
| `KVSession` | One request: the fields that matter and the functions that compute on one request alone (resume, what a step needs, demotion plan, commit). |
| `HKVScheduler` | The scheduler and the part of the KV cache manager it calls. |
| `HKVWorker` | Block tables, WARM residency, contents of the pools, the cached warm-slot table, migration and forward pass. |
| `TieredSession` | Abstract: what demotion promises the rest of the engine, per session. |
| `HierarchicalKV` | Engine core loop around the scheduler and the worker; the properties of the composition. |
| `DemotionPolicy` | When the scheduler demotes: watermarks, LRU candidates, cooldown and probe. |
| `BlockPool`, `PrefixCache` | The pool's operations with hashes, reference counts and queue; the synchronous scheduler over it, with requests that share prefixes and sessions that are demoted. |
| `Subsequences` | Part of a queue in its order, defined without recursion (`BlockPool`, `DemotionPolicy`, `HKVScheduler`, `ResumableEvaluation`). |
| `RunConfiguration` | From command-line arguments to environment, engine arguments, checks and bytes. |

Of the experiments:

| Module | What it is |
| --- | --- |
| `KVCapacity` | Arithmetic of budgets, watermarks, forecast and ballast. |
| `ResumePreflight` | The planned ballast of a resume-quality run against `DemotionPolicy`. |
| `TraceSessions`, `WorkloadAnalysis`, `WorkloadReport` | From a trace to sessions and prompts; to occupancy and prefixes; to the report and its recommendation. Each extends the previous one. |
| `TraceReplay` | One replay: session tasks, collector, observer, driver. |
| `ReplayReport` | What the replay records, validates, compares and decides. |
| `ResumeQuality` | One resume-quality run: sessions, ballast, barrier, sequential resume, failure path. |
| `QualityReport` | Its capacity report, choice of questions, fingerprint and verdict. |
| `SmokeRun` | The smoke test. |
| `ResumableEvaluation` | The two evaluations that resume from their result file, under kills. |
| `EvaluationReport` | Selection, judging, summary and comparison of the one-shot evaluations. |
| `PairedEvaluation` | Eligibility and scoring of a run, the classification of pairs of runs, and the completeness of the data set of 100 questions. |
| `PressureStudy`, `ResumeQualityStudy`, `MathStudy` | The notebooks on capacity pressure, resume quality and MATH-500. |

Instances for TLC are the `MC*` modules (`MCWarmSlotAllocator`,
`MCPrefixCache`, `MCPools` which extends both, `MCHierarchicalKV`, `MCDemotionPolicy`,
`MCOffline`, `MCExperiments`, `MCHarness` which extends both of these). Proofs are in
the `*Proofs` modules:

| Module | What it proves about |
| --- | --- |
| `SubsequenceProofs` | Lemmas on numbers and queues, for the other engine proofs and `HarnessProofs`. |
| `PoolProofs` | `WarmSlotAllocator` and its ledger; `BlockPool` and `PrefixCache`. |
| `DemotionPolicyProofs` | `DemotionPolicy`. |
| `HierarchicalKVProofs` | `HierarchicalKV` in every configuration, and `TieredSession`. |
| `SynchronousProofs` | `HierarchicalKV` with synchronous scheduling; without resets the worker as well. |
| `ReportProofs` | `KVCapacity`, `RunConfiguration`, `ReplayReport`, `QualityReport`, `PressureStudy`. |
| `HarnessProofs` | `TraceReplay`, `ResumeQuality`, `SmokeRun`, `ResumableEvaluation`. |
| `EvaluationProofs` | `EvaluationReport`, `PairedEvaluation`, `ResumeQualityStudy`, `MathStudy`. |

### How state and actions of the engine correspond to the code

`WarmSlotAllocator`: `keyToSlot` and `slotToKey` are the two dictionaries (a
sentinel where a key is absent), `freeSlots` is the heap with its set, `active`
is `_active_reservation`. The heap always yields the smallest free slots, so
`Reserve` uses exactly those; which new key gets which is the caller's order,
left open. A call that raises changes nothing, so it is no step. `Rollback`
stands for a migration whose quantization raised.

`KVSession`: tokens are counted (`tokens` = `num_tokens`, `prompt`, `computed`,
`placeholders`, `discard` = `async_tokens_to_discard`); `blocks` is the block list
of the cache manager, `NullBlock` where history is WARM; `updates` is
`streaming_queue`, whose `None` is `"close"`.

`HKVScheduler`: `AddRequest`, `SendTurn` and `CloseSession` are the three uses of
`add_request`; `Finish` and `Abort` are `finish_requests`. `Schedule` is all of
`schedule()`: the demotions to plan, the running loop with its preemptions, the
waiting loop over the skipped and the waiting queue, and the bookkeeping after
it. The running loop preempts from the tail until what is left fits; that is
the smallest `p` for which `Suffices(p)` holds, because needs only grow along the
loop. The waiting loop admits the longest prefix of `Candidates` that has room.
`UpdateFromOutput` is all of `update_from_output()`, as two functional
stages: `AfterAck` (acknowledgements) and `AfterToken` (sampled tokens), followed by the
stop handling and the queue clean-up. `batches` holds the steps scheduled and
not yet processed, the value that travels to the worker and back. An exception
in a step ends the engine core: `raised`.

`HKVWorker`: `table` and `residency` as in the runner and the migration
manager. `hot` and `warm` record what each block or slot physically holds: the
first `upto` tokens of a logical block of a request. `Migrate` is one transition,
with reservation and commit in one step (`WarmSlotAllocator` shows that this is
what its client sees). `Forward` updates the tables, rebuilds the warm-slot
table when its cached signature no longer fits, and writes the tokens of the step.

`HierarchicalKV`: `phase` is where the busy loop is. With `Depth = 1` it is
`step()`; with `Depth = 2` `step_with_batch_queue()`, which schedules again when the
queue has room and there is work. The worker runs batches in order, one
transition or forward pass per step, interleaved with the core.

`DemotionPolicy`: a session has complete blocks (which a demotion moves) and a
partial one (which it does not); `Open`, `Grow`, `EndTurn`, `NextTurn` and
`Finish` are what the rest of the scheduler does to it, `Others` is HOT use by
requests that are no session. `Schedule` is
`_demote_kv_sessions_under_pressure`, `Execute` the worker's answer (which may be a
refusal for lack of slots, or of a stale plan), `Update` the acknowledgement with
its backoff. Plans and answers travel in two queues, `Depth` steps apart.

`BlockPool` and `PrefixCache`: a hash is the token prefix it fingerprints, and the map from
hashes to blocks is read off the blocks. `content` is what the worker wrote into a
block: the tokens its KV was computed from. A step is `Plan` (the demotions), `RunNext`
and `PreemptLast` (the running loop), `Admit` (the waiting loop), `Execute`, then
`MoveDone` or `MoveRefused` for each answer and `Sample` for each token; `phase` is where the
step stands, and clients act between two steps. Any waiting request and any idle session may be
the next, since the queues and the policy are the subject of other modules.

`RunConfiguration` has no state: arguments, environment and engine configuration are
records, each check in the code an operator on them. An argument that may be absent
is a set of at most one value.

### How the modules of the experiments correspond to the code

`TraceReplay`: one `Client(s)` per session task with the await at which it stands in
`task`; `slot` is the `RequestOutputCollector`, one place in which outputs that
come faster than they are read are merged; `finished` counts the finish reasons by
which the reader knows the turn; `stageOf` is where the driver is. `Timeout` cancels
the tasks at whatever await they stand.

`ResumeQuality`: `turn1_done`, `resume_event`, `turn2_start_event` and `turn2_done`
are the sets of sessions whose event of that name is set; `step` and `at` are where
the driver is and which session it attends to. A session, its input stream and
the ballast may die at any await. `CancelSession` is what the failure path does to a
task it cancelled, after it has set every event.

`SmokeRun`: `place` is where the driver is; `demotion`, `resumed`,
`second_demotion`, `second_resumed` and `after_release` are its snapshots of the worker.

`ResumableEvaluation`: `lines` and `tail` are the result file (a tail is nothing, a part of a
record, a part that ends inside a character, or a record without its newline), `csv` the other one; `Work`,
`MathBatch`, `QasperExample` and the writes after them are steps between which
a kill may come, also inside an append (`CrashMathBatch`, `CrashMathSave`, `CrashQasperWrite`,
`CrashIdle`, no more than `MaxCrashes` together); `Invoke` reads what is
there.

`TraceSessions`, `WorkloadAnalysis`, `WorkloadReport`, `KVCapacity`, `ReplayReport`,
`QualityReport`, `EvaluationReport`, `PairedEvaluation` and the three studies are
operators: one per function of the code, on records that have the fields the decision
depends on. Where the code reads untrusted input (a result file, a log), the record
says what reading it gives (not there, not JSON, without a key, `null`), because that is
what the branches are about.

### Abstractions and bounds

Engine:

* A free block is any block of the free set, not the head of the queue: the
  pool's order is a policy, and every order is covered.
* When a demotion starts is a policy of time or pressure. In `HKVScheduler`,
  `Schedule` demotes any ordered subset of the sessions either policy may pick, so what
  is shown holds for every threshold, watermark and backoff state. `DemotionPolicy`
  has the pressure policy itself, over counts of blocks.
* The token budget and `max_model_len` do not bind, the allocation watermark is
  0, one full-attention cache group, prefix caching off (but in `PrefixCache`), TP = PP = DP = 1,
  FCFS, V2 model runner: the configuration `src/README.md:24` says was evaluated. A request
  id is not used twice. Connectors, encoder inputs, speculative decoding, structured
  output and pausing are absent.
* `MaxTurns` bounds the turns per session (2: one before and one after a demotion);
  `MaxFailures` the failures that are counted (from there on the cooldown is the same).
* Transition ids are abstracted in `HKVScheduler`: a plan is identified by its content,
  and `UpdateRaises` contains the checks that compare it. `DemotionPolicy` has ids, because
  the probe is one. A reset by a utility call that fails is reported to the client
  after it has preempted, so the model keeps its effect.
* `PrefixCache` computes all tokens of a request in the step that admits it, and hashes do
  not collide. `AlignedTurns = FALSE` keeps a client from sending a turn when the last token
  sampled completed a block; `stale_hash` shows what happens otherwise. `MaxDemotions` bounds
  the demotions planned (1), `MaxModelLen` (7 tokens) the turns of a session.

Experiments:

* In the driver modules the engine is reduced to what a client sees: turns end, idle
  history may turn WARM, and is WARM no more when the request is gone.
* Times are ordered, not measured, except where a computation is about them (scaled
  send times, turnaround, the wall time between log stamps).
* Floating-point numbers are fractions or whole percents. `UTILIZATION_EPS`, which
  hides rounding in the scripts, is left out.
* The token made for a block hash at an offset is the pair of both: the digest is taken
  to have no collisions. Texts are sequences of words; what an answer is extracted from,
  chat templates and verification libraries are parameters.
* `MaxCrashes` bounds the kills in one behaviour (2: one may leave a cut line and the next
  one cut what was appended to it).

## 3. Runs

| Run | Instance | Distinct states | Shows |
| --- | --- | --- | --- |
| `pools` | 4 keys, 3 slots; and 1 session, 2 plain requests, prompts of 3 tokens with a common first block, 4 blocks of 2 | 2,342,639 | the allocator implements `WarmSlotLedger`; sharing, preemption, eviction and demotion keep the HOT pool, its hashes and every history right |
| `sync` | 2 sessions x 2 turns of up to 3 tokens, 4 blocks of 2, 2 WARM slots, eager client, early stops | 350,029 | the demotion protocol under synchronous scheduling, including the refinement of `TieredSession` |
| `async` | 2 sessions x 2 turns (3 and 1 tokens), 1 plain request, 4 blocks of 2, 1 WARM slot, `Depth = 2`, clients that wait for the end of a turn, no early stops | 400,000 to 570,000, by order of exploration | no block is lost and every step reads its own history under asynchronous scheduling |
| `liveness` | 1 session, 1 plain request, 2 blocks of 3, 1 WARM slot, `Depth = 2`, forced resets at any time, no symmetry | about 30,000 | deferred aborts and queued turns are carried out; outputs in flight are counted right |
| `pressure` | 2 sessions, 6 HOT blocks, 2 slots, watermarks 80 and 50, 2 steps in flight, cooldown up to 4 | 415,396 | the backoff and its probe survive late and stale answers; no step releases what another one does |
| `harness` | replay of sessions of 3 and 2 turns, 3 evaluated sessions, smoke test; 4 examples in batches of 2 with 2 kills; some 17,000 traces of up to seven records | 608,550 | the drivers end, and a run that passes measured what it says; resumable evaluations; analysis, planning and report of a replay |
| `eos_double_stop`, `lost_session`, `reset_leak`, `preflight`, `shared_after_plan`, `stale_hash` | see the cfg files | | six disagreements between the code and its documentation, below |

HOT blocks are interchangeable (only compared for equality and chosen from sets), so
`sync` and `async` use their symmetry; `liveness` does not. In `pools` blocks have an order, and
the two plain requests are interchangeable. A behaviour of `pools` or `harness` runs one of the
machines in it; the others stand still. Deadlock checking is off in the
composed runs and in `pools` because the engine really may stop: every session gone or idle and no
client calling. It is on in all other passing runs: a driver that stands still before
its end would be an error.

Why the bounds are enough: each constant is the smallest for which the cases in
question happen. 4 blocks of 2 let turns end inside and on a block boundary, one
session evict or starve another, and a demotion of two blocks race one of one; 2 slots
are filled by one demotion and exceeded by two. In `pressure` both sessions together
pass the start watermark, one demotion is below the stop watermark, and failures reach the
cooldown's maximum. The traces of `harness` contain every choice of parents, turns
and times of three records, every content of two blocks, and up to three overlapping
sessions. Three evaluated sessions have a first, a middle and a last resume. Each property
has a mutant in `PROJECT.json` (a dropped guard, a forgotten queue, a slot released too early, a
tail block demoted, an event trusted) which its run finds.

`MCExperiments` also evaluates four assumptions, `ScoresAndComparisons`, `PressureStudied`,
`ResumeQualityStudied` and `MathStudied`: the operators of the reports and studies against
references on small data (a percentile is at its place of the sorted values; the aggregates
of two repetitions are theirs; a data set with one block of history that was not
WARM is refused; the exact McNemar test is symmetric, and certain of nothing while the
two counts differ by at most one).

### Properties worth reading

* `AttentionReadsOwnHistory`: for every forward pass, every token it reads, from
  either tier, is the request's own at that place, and it writes only HOT blocks of its
  own. It reads through the warm-slot table the worker has cached.
* `MovesAreAtomic`: seen from outside, a demotion is one all-or-nothing move of a
  parked session; no turn, finish or preemption happens in between.
* `TierAgreement`, `PlansNeverStale`: the scheduler's and the worker's views fit together
  although they are a step apart.
* `NeverRaises`: none of the code's "while a KV cache state transition is pending"
  errors, nor the rejection of an answer, can be reached.
* `FramesAccounted`: outputs in flight = placeholders + frames to discard, also across
  resets.
* `ProbeNamesPending`, `ProbeAlone`, `BackoffEnds`: a policy that waits for a probe waits for
  something that is on its way, for nothing else, and not for ever.
* `NoSecondRelease`: a step demotes no session too many. Without the last one it chose,
  projected use, with what is pending taken as released, would still be above the stop
  watermark.
* `RecordsSound`, `ReportsComplete`, `EventuallyRecorded`: whatever the kills, no example is recorded twice, no answer counts
  that was not measured, a complete report has every problem, an invocation of the Qasper-E
  evaluation that ends normally misses at most two examples (the record joined to a line without
  an end, and the one on that line). An evaluation invoked again and again has every example in the
  end (Qasper-E: up to the first that is too long), unless a kill left a file no invocation can read: for
  MATH-500 one cut inside a line, for Qasper-E only one cut inside a character.
* `GroupingExact`, `SameHashSameTokens`, `AnalysisSelectsTheReplayed`, `OccupancyExact`,
  `BestPrefixFound`, `ReportConsistent`: the code's walks and searches against
  definitions by quantification, and the analysis against the replay.
* `CompletedTurnsExact`: the replay credits each turn exactly its tokens, although
  outputs may be merged. `PassedRunIsClean`: a run that passes has seen WARM blocks and left
  none, its tasks are done with all their turns, and no request is alive. `PassedRunIsComplete`: the evaluated sessions
  resume one at a time as long as the run has not failed, and in a passed run each of them
  answered turn 2 from confirmed WARM history.
  `EveryRunEnds`: on every path the engine is shut down.
* `PoolConsistent`, `HistoryIsOwn`: with shared blocks, the reference count
  of a block is the number of block lists it is in, whatever happened to its readers; what a
  request reads was computed from its own tokens, whoever computed it.
* `AllocationNeverFails`: the room check counts the hits that the free queue will lose.
  `EvictionInOrder`: blocks nobody can find are reused first, and the
  tail of a prefix before its head, so that without demotions the lookup never stops too early.

### Fairness

* `HierarchicalKV`: the busy loop goes on while it has something to do
  (`run_busy_loop` is an unconditional loop), and the worker goes on while a batch
  is not done (it executes each without waiting for the scheduler). Clients owe nothing: no
  client action is fair.
* `DemotionPolicy`: the same, for `Schedule`, `Execute` and `Update`.
* `TraceReplay`: the tasks and the driver go on, and a timeout that was set comes
  (asyncio runs what is ready, and timers fire). The engine owes the replay nothing.
* `ResumeQuality`: the driver goes on, its timeouts come, and a task that was
  cancelled ends. Sessions and the engine owe nothing.
* `SmokeRun`: the driver goes on, and the engine answers or dies: the smoke test's loop
  over the outputs has no timeout, so its end really depends on that.
* `ResumableEvaluation` (stated in `MCOffline`): a killed evaluation is invoked again, and a batch that is tried again
  and again succeeds once (strong fairness). `EventuallyRecorded` says what follows.

### Findings

* `eos_double_stop`: asynchronous scheduling with early stops. The step already
  in flight for a session that just went idle counts as a second end of turn; the
  session is queued twice and the scheduler raises.
* `lost_session`: a session preempted with its last output in flight and its next
  turn queued is put into the waiting queue and removed from it again. (Without a queued turn it
  goes idle with `num_computed_tokens` 0, and the next turn drops all outputs of the one before:
  `TurnKeepsHistory`, which `sync` checks, fails under asynchronous scheduling.)
* `reset_leak`: a forced reset does not tell the worker about the preemption; the
  WARM slots stay, and stay in use.
* `preflight`: a capacity report that says every evaluated session can be pushed to WARM
  knows the start watermark only. The scheduler stops at the lower one, and the
  demotion barrier waits for a session that stays HOT.
* `shared_after_plan`: `schedule()` plans a demotion of private blocks and then admits a request
  that hits them. The commit finds them shared and raises, which ends the engine core. Only
  with prefix caching on, which is the default but was off in the reported experiments.
* `stale_hash`: a turn whose last sampled token completed a block. The next turn drops the
  token but not the hash, and the block is cached under a hash of tokens it does not hold. A
  request with those tokens reads the KV of others (`HistoryIsOwn` is violated in the same instance).

### What the modelling brought to light besides

Not contradicted by any text, so no run checks it, but worth knowing:

* Engine. Resumed sessions can wait with HOT blocks that are neither preemptible nor
  demotable (`scheduler.py:1383`), each for the other, until a client aborts one. With
  three steps in flight `ProbeAlone` would not hold; the engine has at most two. The
  scheduler takes `1` for the value that enables demotion, the worker `1`, `true`, `yes` and
  `on`; `DemotionHasPool` shows that the difference is harmless in the direction that matters.
* Prefix cache. A demotion takes a block out of the middle of a cached chain (`ChainsUnbroken`,
  which holds as long as nothing is demoted). What is cached behind it can not be found, and is
  kept and evicted like what can, although `find_longest_cache_hit` stops with the comment "the
  following block hashes are not computed yet for sure". No result is wrong.
* Forecast. `analyze_qwen_bailian_workload.py` counts the null block as usable, the
  scheduler does not: in the documented configuration the forecast start is 1,450 blocks
  where the scheduler's is 1,449.
* Replay. `seconds_since_last_completed_turn` is the time since the last output
  (942-944). The second comparison of the budget check is redundant (`AccountingIsExact`). A
  limit on generation fails a run only if every final turn of several tokens hit it
  (`PerformanceRunDecodes`). Neither comparison with a baseline looks at the baseline's
  `kv_mode` or whether it passed. A mismatch of fingerprints raises before the result is
  written in the replay, and is written as not passed in the resume-quality run.
* Workload report. A duplicate counts as a valid row and as a malformed one.
  `medium_note` says "below the threshold" also when there is no primary pool, and recommends
  250 sessions even if fewer are eligible. `find_high_load_prefix` notes what it does not
  check. With `--min-turns 1` analysis and replay select differently.
* Smoke test. With a dead engine the `finally` clause raises before `engine.shutdown()`, and
  the loop over the outputs has no timeout.
* Evaluations. `load_completed_indices` skips lines that do not parse but decodes the file outside its
  `try` (97-105), and records are written with `ensure_ascii=False` (417): a kill inside a character of
  several bytes makes every later invocation of the Qasper-E script raise `UnicodeDecodeError`, until
  someone repairs the file (`Undecodable` in `EventuallyRecorded`, `RefusedFileStays`). A negative `--start-index` counts from the end, which is safe only with a
  limit of at most the file's length (`ProblemsOnce`). An exception of the verifier counts
  as a wrong answer. Grouped tables drop records without level or subject.
* Pressure study. `nominal_load` is never classified. The throughput of completed runs
  that failed validation is included. A flagged file's row is kept, and the file counts
  as loaded even without one. The summary stops on a row without counts. Error
  bars group by selected sessions, the summary by the directory's size.
* Resume-quality study. Log stamps get the year of the run's end, so a log over New Year
  is refused. "All 100 questions completed two turns" is a literal. A sentence attributes the
  gap in exact matches to the one-sided counts; `GapExplained` has the two terms of failed
  extractions it leaves out. A directory named after asynchronous scheduling is labelled a trial of
  synchronous scheduling. Both notebooks write the same three `tables/gsm8k_*.csv`. In the section of
  20 questions a duplicate question stops the pairing, and two failed extractions count as
  identical answers.
* MATH-500 study. Rows are paired by number, since the notebook knows neither
  `dataset_index` nor `unique_id`, and prints "Both runs contain the same 500 MATH-500 problems":
  a file filled by several invocations in another order would go unnoticed. Its text gives the
  bootstrap interval as [-5.2, 2.8], its stored output [-5.40, 2.80].

## 4. Proofs

Every theorem holds for all values of the constants or fields, under the assumptions
named with them. What they rest on: positive capacities and counts (which the
constructors and argument parsers check), sentinels that are no values, ordered watermarks,
finite sets of sessions and requests, and, where a report is concerned, the types JSON gives its fields.

### The WARM slots (`PoolProofs`)

`SpecTypeOK`, `SpecOwnershipConsistent`, `SpecReservationHeld`, and `SpecTransactionalOwnership`:
the allocator implements `WarmSlotLedger`. The inductive invariant is
`IInv == TypeOK /\ OwnershipConsistent /\ ReservationHeld`. Ownership alone is not
inductive: that a reservation takes only unowned slots needs `freeSlots` to be
exactly the unowned ones, and that `Commit` grants its slots needs
`ReservationHeld`. Two lemmas carry the argument: `ReserveConsistent` (a
reservation hands out free slots only, each to one key) and
`ReleaseEachConsistent` (releasing any keys keeps the maps inverse; it serves
`ReleaseKeys` and `Rollback`). For the refinement, what an open reservation added does
not count as committed, so `Reserve` is one `Ask`, `Rollback` one `Deny`, `Commit` one
`Grant` (`ReservationShape`: the keys a reservation created are exactly those it
asked for that own no slot), `ReleaseKeys` one `Release` and `Clear` one `Reset`.

### The HOT blocks with prefix caching (`PoolProofs`)

For any number of requests, blocks, tokens and turns, any block size, preemptions, demotions and resets:
`PoolConsistentHolds`, `AllocationNeverFailsHolds`, `EvictionInOrderHolds`. `PoolConsistent` is not inductive:
that freeing a row drops each count once needs a row to list no block twice, that this stays so
when hits are added needs the hits to be distinct, and they are because a row's hashes are of different
lengths and a block has one hash. `CacheInv` therefore says

* `Tables`: of each row by itself (`RowOK`) that it has the blocks for what is computed, that its hashes
  form a chain (`Chained`: the i-th is as long as i blocks and begins with the earlier ones), that what is
  cached is computed, and that it lists no block twice; of row and pool (`RowCached`) that its cached blocks have
  the row's hashes and its others none and no second holder; that the queue is
  exactly the blocks without a holder (`PoolOK`), and a count the number of holders (`References`).
* `Queues`: the running list and the outputs to come name running requests, once, and while the
  running loop stands somewhere, the requests it has placed are the front of the list. So a preempted one, the last,
  is never one that was placed.
* `Others`: plans name real blocks, and the exceptions for a short pool and for a block that is cached
  twice were not raised. `TouchedLength` is why the first is not: the hits that leave the queue are just those
  `needed` counted.

Chains need more (`InOrder`): the parent of a hashed block in the queue is held or behind it
(`ParentOutlives`). It is kept because a request's blocks are freed from the last to the first, and a hit
takes all its ancestors along. A demotion frees blocks from the front of a row, so the
claim is for `demotions = 0`.

`HistoryIsOwnHolds` and `HashNamesContentHolds` assume `~AlignedTurns`, as the run `pools` does; otherwise they are false
(`stale_hash` breaks the second, and a later lookup the first). `OwnContent` adds to the two properties that a request's hashes are of its tokens.
Where the next turn drops the last token, `NotAligned` says that this token is in no hashed block, and
`NextTurnContent` is the one step that needs the assumption.

### The engine in every configuration (`HierarchicalKVProofs`)

`CoreInvariant` is the inductive invariant of the composed demotion protocol, for any number of
sessions, blocks, slots and turns, synchronous or not, with resets and with clients that
do not wait. Its conjuncts:

* `Typed`, `ClientsKnown`: types; only finitely many requests are live, and those were sent.
* `RunningOnly`: the running queue holds running requests, each once. `Schedule` and the update
  after a step assume it when they preempt and when they remove.
* `HotConservation`: every HOT block is free or in one place of one request.
* `PlansParked`: a session with a pending plan is idle and its blocks are still where the
  plan says (`CommitOK`). This is what makes the commit atomic, and is not inductive alone: that
  nobody touches the blocks before the commit needs every way to a session to be
  closed by `IsPending` (turns queued, aborts deferred, no preemption of idle sessions).
* `PlansInFlight`: each pending plan is carried by exactly one move of exactly one step in
  flight. Without it an answer could commit a plan that another step still carries.
* `Awaited`: while the engine core waits for a result there is a step to get it from.

From it follow `HotBlocksConserved` and `MovesAreAtomicHolds`: `HierarchicalKV` implements `TieredSession`
step by step. A call of a client, a schedule and an update change each session by
`Work`, `BeginMove` or `EndMove`, or not at all; the worker changes nothing the mapping reads.

### Outputs in flight (`HierarchicalKVProofs`)

`FramesAccountedHolds`: under `~EosStops`, `FramesAccounted`, resets and preemptions included. The count is
not inductive. That a turn which ends leaves no output behind needs to be known before the second
output is scheduled, and that a reset may overwrite `discard` needs nothing left to discard when it
comes. `FrameOK` says, of each request and of the two steps that may be in flight:

* a running request has computed what it has and what it expects, less one, so that each step adds one output;
* of two outputs it expects, the second is still inside `max_tokens` (`Schedulable` sees to that), so that a
  length stop is always the last one in flight;
* what waits or is idle expects nothing; what was preempted is in no second step;
* while the core may schedule, nothing is to be discarded from a running request, and no second step is in flight.

Early stops are excluded because the theorem would be false: the step behind an early stop is the finding
`eos_double_stop`.

### Synchronous scheduling (`SynchronousProofs`)

Under `~Async`: no sequence of legal calls makes the scheduler raise (`SyncNeverRaises`),
each request is in the queue of its status, once, and `numIdle` is exact (`SyncQueues`), every variable
keeps its type (`SyncTyped`), and `SyncTurnsKeepHistory`. `SyncInv` adds to the above `Serial` (one step in flight, and none
while a client is heard), `TokensCounted` (what is computed, sampled and still to come of a turn) and
`StepRuns` (the requests of the step in flight are the running ones). `Serial` is why the
assumption is needed: it keeps every call away from a step in flight.

### Asynchronous scheduling (`SynchronousProofs`)

* `NeverRaisesHolds`, under `~Async \/ ~EosStops`: with two steps in flight nothing raises either, with any
  client and with resets. The configuration it leaves out does raise (`eos_double_stop`), so the
  condition is exact. `CalmInv` adds to `FramesInv` that whatever is in a waiting queue waits there, once
  (`WaitingOnly`), that what is to be admitted has a token to compute (`EveryStart`), and that a
  step names a request once (`StepsOnce`). A request that gets an answer runs or is preempted
  (`AnswerProperties`, from `FrameOK`), so it is never one whose transition is pending.
  `WaitingOnly` is an inclusion: a session may be in no queue at all, which is `lost_session`.
* `QueuesHold` and `TypesHold`, under `~Async \/ (~EosStops /\ ~EagerClient)`: with clients that wait for
  an answer before they send, the inclusion is an equality and the count of idle sessions is exact.
  `PoliteUpdates` is the reason: an update is queued only behind a pending transition, and alone, so that a turn
  that ends never finds one. With eager clients `lost_session` refutes it; with early stops the instance of
  `eos_double_stop` does, where a session is queued twice before the scheduler raises.
* `TurnKeepsHistory` has no counterpart: a session that ends its turn while preempted goes idle with
  nothing computed (see the findings).

### The worker (`SynchronousProofs`)

Under `~Async` and `~MayReset`: `WorkerInvariant`, and from it `SyncTierAgreement`, `SyncPlansNeverStale` and
`SyncReadsOwnHistory`. The scheduler is a step ahead of the worker, so their states
cannot be compared as they are: `Row`, `Copies` and `Reached` are the worker's table, its WARM copies and
the tokens it has computed once it has applied what the owed step brings, and `WorkerInv`
compares these with the scheduler's.

* `Agrees`: a request's row is its block list, where it has HOT blocks (`RowAgrees`); its WARM copies are
  the indices the scheduler marks WARM, and those of an answered move that is still to be
  committed (`CopiesAgree`, with `Arriving`); HOT blocks contain its own tokens up to what is
  computed (`HotAgrees`); what is WARM or about to be is complete (`TiersComplete`); a request
  that is reported finished or preempted is not scheduled again in that step, and one not yet sent is unknown (`Gone`).
* `StepReady`, `WritesApart`: an entry of the owed step finds what it reads, writes to HOT blocks of its
  own, and no other entry writes there. The scheduler's `HotConservation` gives the
  second; together they are `AttentionReadsOwnHistory`.
* `CopiesComplete`, `TableFits`, `Answered`: WARM copies are whole blocks of their own request in slots of
  their own, the migration manager's table is the same, and a step that was run has an answer for each move.

Resets are left out because the theorems would be false: the finding `reset_leak` shows
the copies a reset leaves behind.

### The programs of the harness (`HarnessProofs`)

For any number of sessions, turns, examples, batches and kills, and any interleaving of tasks,
outputs, polls, timeouts and deaths. The constants' assumptions are that counts are positive.

* Replay: `ReplayCounts` and `ReplayPasses`. `CompletedTurnsExact` is not inductive: that every turn
  has its own tokens when the last is over depends on what the collector still holds. `ReplayInvariant` says
  that the slot holds the newest tokens in their order (`SlotInOrder`), that a session has counted no
  more finish reasons than came with the tokens it has read, and that as long as it has counted
  all of them each turn has exactly its own (`CreditsInOrder`). A merge across two turns loses a reason and may
  credit tokens to the wrong turn; the session then never counts as completed. `TasksInOrder` ties
  the driver's place to the tasks: no request outlives its task, and a run is judged on settled ones.
* Resume quality: `QualityRuns`. `SessionsInOrder` (a session whose stream is open stands before or in its
  second turn, and is told to go on only when its turn has come), `CompletedInOrder` (those before the one at
  hand have completed both turns) and `ErrorsRecorded` (no way into the failure path leaves `errors` empty).
  That sessions resume one at a time follows from the first two (`OnlyOneResumes`).
* Smoke test: `SmokeAsserts`. `SmokeProgress` is where the driver is with which turn, and that it goes on
  only with nothing left to read; `TiersShown` what pool and snapshots show then, unless a poll gave up.
* Resumable evaluations: `EvalRecordsSound`, `EvalReportsComplete` and `RefusedFileStays`. `RecordedOnce` needs that what is still to
  be done is not in the file (`TodoIsNew`). `MathInOrder`: a file that parses is a beginning of
  the data set and the invocation goes on where it ends; a cut inside a line makes it unparsable for good.
  `QasperCovers`: what the file lacks is still to be done, but for the two
  examples one unterminated line can cost; after the first append of an invocation there is no such line, which
  is why it is never more than two. `QasperMeasured`: no record precedes its row. The step of an append, whole or cut, is
  stated once for both scripts (`AppendExtends`, `CutExtends`, `RowsGrow`). That no invocation works on a
  file it cannot decode is part of `EvalTyped`; with it `RefusedFileStays` is one look at each action.

### The demotion policy (`DemotionPolicyProofs`)

`ProbeAlwaysPending`: a probe the policy waits for is pending. On its own that
is not inductive: `Update` removes the transitions its step has answers for, and forgets the probe
only when one of these answers settles it. The inductive invariant is
`ProbeInv == IsSequence(flight) /\ AnswersComplete /\ ProbeNamesPending`, where `AnswersComplete`
says that a step the worker has run answers every move it carries.

`PolicyInvariant` adds that a transition is pending exactly as long as one step in flight moves
its session (`PendingInFlight`, `MovesApart`), and that the order of sessions and the moves of a step name nobody twice.
Then the pending blocks are the ones earlier steps will release, and `NoSecondReleaseHolds` follows
from how a plan ends: there is a least number of candidates that is enough (`LeastNumber`).

`ProbeIsAlone` needs `Depth <= 2`, which is what the engine core schedules ahead without pipeline
parallelism. The argument is `OldMovesDrain`: while a probe is owed, moves are only in the oldest step in flight,
and either the cooldown or the other step keeps `Schedule` from planning until that one
is answered. A refusal always sets a cooldown of at least one step (`CooldownPositive`; that powers
of two are positive is proved by counting subsets, since there is no induction to be had). With three steps in
flight the probe would be planned beside an old move.

### Capacity and configuration (`ReportProofs`)

`BudgetIsKept`, `MixedHasFewerHotBlocks`, `WatermarksExact`, `ForecastAtMostOneLate`,
`DocumentedStartIsLate`, `BallastReachesStart`, `BallastSharesAddUp` are integer arithmetic: a lemma
about rounding division, then one inequality after the other. `AcceptedRunStarts`
and `SmokeRunStarts` follow an accepted set of arguments through the environment into each
check; `DemotionHasPool` compares the scheduler's checks with the worker's;
`WorkerHoldsTheBudget` shows that the worker, by formulas of its own, allocates to the byte what
the script derived.

### Reports and verdicts (`ReportProofs`)

`PassedRunHasEveryTurn`, `CorrectnessGate`, `PerformanceRunDecodes`, `AccountingIsExact` and
`ProgressAdds` say what a verdict of "passed" implies of the engine's behaviour, whatever it was;
`DriverRowsClassified`, `PassedRowComplete` and `PassedRowBalances` carry that over to the
row the pressure study makes of the result file. `FeasiblePlanFits` is the positive side of the `preflight`
finding: a feasible plan reaches the start watermark and fits both pools (that the sum of the
planned histories is a natural number is an assumption: sums over sets are beyond the prover).
`QualityPairsComplete` says what a pass against a baseline means.

### Pairs and evaluations (`EvaluationProofs`)

`EligibleReadWarm`: a mixed session counts only if all its complete blocks were WARM and it
read some. `EveryQuestionPairedOnce` and `PairingAssertionsHold`: the checks of the notebook imply
that rows are paired with their own counterpart. `GapExplained`, `SmallCountsAddUp`, `PanelsCountOnce` and `ReportsAgree` count: each splits a finite
set into disjoint classes and adds their cardinalities. `ResidencyIsTheHistory`: from three counts the
notebook compares it follows exactly which blocks were WARM (a subset as large as the whole
is the whole). `SelectionDistinct`, `F1Bounded`, `ComparedPromptsAlike`, `ProblemsOnce` and `SummaryWithin` are
about the one-shot evaluations; `ComparedPromptsAlike` takes the engine to count a
prompt as the tokenizer does.

### Only model-checked

* Of the engine under asynchronous scheduling: what the worker sees (`AttentionReadsOwnHistory`; that no
  plan is found stale, and that the tiers agree, are not in a run of their own there).
* What the recursive definitions of `TraceSessions`, `WorkloadAnalysis`, `WorkloadReport`, `PressureStudy` and
  `MathStudy` compute (induction over data and recursive operators are out of the prover's reach).
* All liveness (fairness and `ENABLED` are as well).

## 5. Plan

Done: allocator and ledger; the composed demotion protocol; the policy with its
backoff; the prefix cache under demotion; configuration and capacity; the experiment drivers;
resumable evaluations; trace, analysis and report; the studies; proofs about all parts that
are operators, about the four programs that run and wait, about the protocol in every configuration, about the worker under
synchronous scheduling and about the prefix cache. Left, in order:

1. Proofs: the worker with two steps in flight.
2. `DemotionPolicy` composed with `HKVScheduler` instead of the open choice of sessions.
3. `PrefixCache` under asynchronous scheduling, where hits and plans are a step apart.

The migration manager between `HKVWorker` and `WarmSlotAllocator` gets no module of its own: the
worker is single-threaded, so that what happens inside one transition is seen by nobody, and the
allocator's refinement already says that it is all or nothing.

## 6. Not modelled

* Of the engine: kernels and quantization numerics, connectors, encoder cache, speculative decoding, structured output, LoRA, priority scheduling, pausing and shutdown,
  data parallelism, and the rest of the vendored vLLM. COLD storage is not implemented
  in the code (`src/docs/hierarchical_kv_cache.md`). The policy by idle time is one choice of the
  open policy of `HKVScheduler`; that no threshold takes effect while the scheduler is not
  invoked is a limitation the comment at `scheduler.py:459` states.
* Of the prefix cache: partial blocks, several cache groups, events, salts and adapters in the
  hash, eviction asked for by connectors, and asynchronous scheduling.
* Of the drivers: percentiles and throughput, provenance (digests, versions), chat templates,
  console output.
* Of the notebooks: figures, formatting, and everything that only displays. More than half
  of the lines of the notebook files is stored output. The notebooks of the unmodified
  engine (`notebooks/00_*`, `01_*`, `02_*`, `final_evaluation.ipynb`) display recorded numbers and the
  shapes of a cache; they keep no state and decide nothing.
