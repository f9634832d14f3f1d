--------------------------- MODULE RunConfiguration ---------------------------
(***************************************************************************)
(* From the arguments of an experiment to a running engine: what the three *)
(* scripts that start a hierarchical engine accept on their command line   *)
(* (run_qwen_bailian_replay.py, run_hkv_gsm8k_resume_quality.py and        *)
(* run_hkv_warm_smoke.py), the environment and the engine arguments they   *)
(* make of it, what SchedulerConfig and the worker check of those, each on *)
(* its own, and the bytes the worker then allocates.                       *)
(*                                                                         *)
(* An argument that may be absent is a set of at most one value.           *)
(* Utilizations are whole percents, idle thresholds milliseconds.          *)
(***************************************************************************)
EXTENDS KVCapacity

-----------------------------------------------------------------------------
(* parse_args.                                                             *)

Given(argument) == argument # {}

\* The watermarks belong to the mixed mode and are ordered.
ThresholdsAccepted(a) ==
  IF a.mixed
  THEN \E start \in a.start, stop \in a.stop :
         0 <= stop /\ stop < start /\ start <= 100
  ELSE ~Given(a.start) /\ ~Given(a.stop)

PoolAccepted(a) ==
  IF a.mixed THEN \E slots \in a.pool : slots > 0 ELSE ~Given(a.pool)

\* The pool once parsed: none given means none in all-HOT mode.
PoolBlocks(a) == IF a.mixed THEN CHOOSE slots \in a.pool : TRUE ELSE 0

Fixed(l, a) == FixedBytes(l, a.mixed, PoolBlocks(a), a.maxLen, a.maxSeqs)
PerBlock(l, a) == BytesPerBudgetedBlock(l, a.mixed)

\* A budget is derived once by the parser, for its errors only.
BudgetAccepted(l, a) ==
  \A total \in a.budget :
    /\ a.supported /\ total > 0 /\ a.maxLen > 0 /\ a.maxSeqs > 0
    /\ ~Refused(total, Fixed(l, a), PerBlock(l, a))

\* The trace replay.  Correctness runs generate one token unless told, and may
\* do without a budget; a mixed run always names its baseline.
ReplayAccepts(l, a) ==
  /\ IF a.performance THEN Given(a.budget) /\ \E n \in a.maxTokens : n > 1
                      ELSE \A n \in a.maxTokens : n > 0
  /\ a.mixed => a.baseline
  /\ ThresholdsAccepted(a) /\ PoolAccepted(a)
  /\ a.timeScale > 0 /\ a.minTurns > 0 /\ a.maxLen > 0 /\ a.maxSeqs > 0
  /\ a.maxInput >= 0 /\ a.maxSessions >= 0
  /\ BudgetAccepted(l, a)

FinalTurnTokens(a) ==
  IF Given(a.maxTokens) THEN CHOOSE n \in a.maxTokens : TRUE ELSE 1

\* The resume-quality run.  A preflight starts no engine and needs less.
QualityAccepts(l, a) ==
  /\ a.questions > 0 /\ a.shots >= 0 /\ a.seed >= 0 /\ a.margin >= 0
  /\ \A n \in a.maxTokens : n > 0
  /\ a.maxLen > 0 /\ a.maxSeqs > 0
  /\ IF a.mixed THEN a.ballast > 0 ELSE a.ballast >= 0
  /\ ThresholdsAccepted(a) /\ PoolAccepted(a)
  /\ ~a.preflight => a.result /\ Given(a.budget) /\ (a.mixed => a.baseline)
  /\ BudgetAccepted(l, a)

\* The smoke test has fixed thresholds and a fixed pool.
SmokePool == 16
SmokeAccepts(a) == /\ a.mixed => a.baseline
                   /\ a.pool = IF a.mixed THEN {SmokePool} ELSE {}

-----------------------------------------------------------------------------
(* The environment and the arguments of the engine.                        *)

Flag(on) == IF on THEN "1" ELSE "0"

\* apply_hkv_environment, and main of the smoke test, which sets no budget.
Environment(a) ==
  [v2 |-> "1", tiers |-> Flag(a.mixed), multi |-> Flag(a.mixed),
   read |-> Flag(a.mixed), pool |-> {PoolBlocks(a)}]

\* kv_cache_memory_bytes: the HOT part of the budget.
HotBudget(l, a) ==
  {DerivedBlocks(total, Fixed(l, a), PerBlock(l, a)) * HotBytesPerBlock(l) :
     total \in a.budget}

\* build_engine_args_kwargs; the resume-quality run adds asynchronous
\* scheduling and its own inspector to it.
EngineArgs(l, a) ==
  [hotIdle |-> {}, coldIdle |-> {},
   start |-> IF a.mixed THEN a.start ELSE {},
   stop |-> IF a.mixed THEN a.stop ELSE {},
   memory |-> HotBudget(l, a)]

SmokeEngineArgs(a) ==
  [hotIdle |-> IF a.mixed THEN {50} ELSE {},
   coldIdle |-> IF a.mixed THEN {3600000} ELSE {},
   start |-> {}, stop |-> {}, memory |-> {}]

-----------------------------------------------------------------------------
(* The checks of the scheduler's configuration and of the worker.  They    *)
(* read the same variables and do not agree on what is true.               *)

Demotes(e) == Given(e.hotIdle) \/ Given(e.start)

\* SchedulerConfig.__post_init__.
SchedulerAccepts(e, env) ==
  /\ Given(e.hotIdle) <=> Given(e.coldIdle)
  /\ \A hot \in e.hotIdle, cold \in e.coldIdle : 0 <= hot /\ hot < cold
  /\ Given(e.start) <=> Given(e.stop)
  /\ \A start \in e.start, stop \in e.stop :
       0 <= stop /\ stop < start /\ start <= 100
  /\ Demotes(e) => /\ env.v2 = "1" /\ env.tiers = "1"
                   /\ env.multi = "1" /\ env.read = "1"
                   /\ \E slots \in env.pool : slots > 0

TrueValues == {"1", "true", "yes", "on"}

PhysicalTiers(env) == env.tiers \in TrueValues
MixedRead(env) == env.read \in TrueValues
MultiBlock(env) == env.multi = "1"

\* validate_hkv_physical_configuration; w is what the worker knows of the model
\* and of its place among the others.
WorkerAccepts(env, w) ==
  PhysicalTiers(env) =>
    /\ w.v2Runner /\ MixedRead(env) /\ MultiBlock(env)
    /\ w.backends = {"TRITON_ATTN"} /\ w.hotType = "float16"
    /\ w.tensorParallel = 1 /\ w.pipelineParallel = 1 /\ w.dataParallel = 1
    /\ w.groups = 1 /\ w.blocksPerKVBlock = <<1>>
    /\ \E slots \in env.pool : slots > 0

\* A pool that cannot be allocated makes the start fail, also without tiers.
MigrationAccepts(env) == MultiBlock(env) => PhysicalTiers(env)

WarmCapacity(env) == IF PhysicalTiers(env) THEN env.pool ELSE {}

-----------------------------------------------------------------------------
(* What the worker allocates, from the engine's side of the source: the    *)
(* HOT blocks that fit kv_cache_memory_bytes, the WARM tensors, a map per  *)
(* layer and the slot table.                                               *)

\* AttentionSpec.real_page_size_bytes and get_num_blocks.
PageBytes(l) == 2 * l.blockSize * l.heads * l.headDim * l.hot
NumBlocks(l, memory) == (memory \div PageBytes(l)) \div l.layers

\* The scale of a token and head is kept behind its elements.
ScalePad(l) == 4 \div l.warm
WarmTensorBytes(l, slots) ==
  slots * 2 * l.blockSize * l.heads * (l.headDim + ScalePad(l)) * l.warm

\* initialize_kv_cache: columns of a block table, a multiple of 128 tokens.
TableColumns(l, maxLen) ==
  LET blocks == CeilDivide(maxLen, l.blockSize)
      alignment == 128 \div l.blockSize
  IN  CeilDivide(blocks, alignment) * alignment

\* inspect_hkv_replay after the start of the engine.
WorkerReport(l, a, env, memory) ==
  LET blocks == NumBlocks(l, memory)
      slots == PoolBlocks(a)
      tiers == PhysicalTiers(env)
      hot == blocks * PageBytes(l) * l.layers
      warm == IF tiers THEN l.layers * WarmTensorBytes(l, slots) ELSE 0
      maps == IF tiers THEN l.layers * (blocks * l.int) ELSE 0
      table == IF MultiBlock(env)
               THEN a.maxSeqs * TableColumns(l, a.maxLen) * l.int ELSE 0
  IN [blocks |-> blocks, hot |-> hot, warm |-> warm, maps |-> maps,
      table |-> table, actual |-> hot + warm + maps + table]

\* derive_persistent_kv_budget: the same figures, before there is an engine.
DerivedReport(l, a, total) ==
  LET blocks == DerivedBlocks(total, Fixed(l, a), PerBlock(l, a)) IN
  [blocks |-> blocks, hot |-> blocks * HotBytesPerBlock(l),
   warm |-> IF a.mixed THEN PoolBlocks(a) * WarmBytesPerSlot(l) ELSE 0,
   maps |-> blocks * (IF a.mixed THEN l.layers * l.int ELSE 0),
   table |-> IF a.mixed THEN SlotTableBytes(l, a.maxLen, a.maxSeqs) ELSE 0,
   actual |-> ActualBytes(total, Fixed(l, a), PerBlock(l, a))]
=============================================================================
