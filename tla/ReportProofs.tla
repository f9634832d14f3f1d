---------------------------- MODULE ReportProofs ----------------------------
(* What the experiments may rely on: the pools a script derives hold for   *)
(* every layout, budget and watermark, and arguments it accepts start an   *)
(* engine whose scheduler and worker agree; a passed replay shows what it  *)
(* says of every turn, of the tokens and of the memory, and the study of   *)
(* capacity pressure reads in it what the replay found; and a passed       *)
(* quality run fits its pools and has been compared with a baseline of the *)
(* same questions, every one read from WARM.                               *)
EXTENDS PressureStudy, QualityReport, RunConfiguration, FiniteSetTheorems, TLAPS

\* The quotient is the number with n between it and the next multiple of d.
LEMMA Quotient ==
  ASSUME NEW n \in Int, NEW d \in Nat \ {0}
  PROVE  /\ n \div d \in Int /\ n % d \in 0 .. d - 1
         /\ n = d * (n \div d) + (n % d)
  OBVIOUS

\* Compared with a quotient, a number is compared with its multiple.
LEMMA AtMostQuotient ==
  ASSUME NEW n \in Int, NEW d \in Nat \ {0}, NEW k \in Int
  PROVE  k <= n \div d <=> k * d <= n
<1> DEFINE q == n \div d
<1>1. q \in Int /\ d * q <= n /\ n < d * q + d
  BY Quotient
<1> HIDE DEF q
<1>2. CASE k <= q
  <2>1. k * d <= q * d
    BY <1>1, <1>2
  <2> QED
    BY <1>1, <1>2, <2>1
<1>3. CASE k > q
  <2>1. k * d >= (q + 1) * d
    BY <1>1, <1>3
  <2>2. (q + 1) * d = d * q + d
    BY <1>1
  <2>3. k * d > n
    BY <1>1, <2>1, <2>2
  <2> QED
    BY <1>1, <1>3, <2>3
<1> QED
  BY <1>1, <1>2, <1>3 DEF q

LEMMA AtLeastCeiling ==
  ASSUME NEW n \in Int, NEW d \in Nat \ {0}, NEW k \in Int
  PROVE  k >= CeilDivide(n, d) <=> k * d >= n
<1>1. k + 1 <= (n + d - 1) \div d <=> (k + 1) * d <= n + d - 1
  BY AtMostQuotient
<1>2. (n + d - 1) \div d \in Int
  BY Quotient
<1>3. (k + 1) * d = k * d + d /\ k * d \in Int
  OBVIOUS
<1> QED
  BY <1>1, <1>2, <1>3 DEF CeilDivide
-----------------------------------------------------------------------------
(* derive_persistent_kv_budget never spends more than the budget, leaves   *)
(* less than one block of it unused, and one more HOT block would exceed   *)
(* it: block_rounding_tolerance_bytes, which the run checks the engine     *)
(* against, is the right bound for every layout.                           *)
THEOREM BudgetIsKept ==
  ASSUME NEW total \in Nat, NEW fixed \in Nat, NEW perBlock \in Nat \ {0},
         ~Refused(total, fixed, perBlock)
  PROVE  /\ ActualBytes(total, fixed, perBlock) <= total
         /\ BudgetSlack(total, fixed, perBlock) \in 0 .. RoundingTolerance(perBlock)
         /\ ActualBytes(total, fixed, perBlock) + perBlock > total
<1> DEFINE blocks == DerivedBlocks(total, fixed, perBlock)
           rest == total - fixed
<1>1. /\ blocks \in Int
      /\ rest = perBlock * blocks + (rest % perBlock)
      /\ rest % perBlock \in 0 .. perBlock - 1
  <2>1. rest \in Int
    OBVIOUS
  <2> HIDE DEF rest
  <2>2. /\ rest \div perBlock \in Int
        /\ rest = perBlock * (rest \div perBlock) + (rest % perBlock)
        /\ rest % perBlock \in 0 .. perBlock - 1
    BY <2>1, Quotient
  <2>3. blocks = rest \div perBlock
    BY DEF DerivedBlocks, rest
  <2> QED
    BY <2>2, <2>3
<1> HIDE DEF blocks
<1>2. perBlock * blocks = blocks * perBlock /\ blocks * perBlock \in Int
  BY <1>1
<1>3. ActualBytes(total, fixed, perBlock) = blocks * perBlock + fixed
  BY DEF ActualBytes, blocks
<1> QED
  BY <1>1, <1>2, <1>3 DEF BudgetSlack, RoundingTolerance

(* In the same budget a mixed pool never has more HOT blocks than the      *)
(* all-HOT one: what equal_memory_capacity_table reports as a gain comes   *)
(* from the WARM pool alone.                                               *)
THEOREM MixedHasFewerHotBlocks ==
  ASSUME NEW total \in Nat, NEW fixed \in Nat, NEW perBlock \in Nat \ {0},
         NEW extra \in Nat, fixed <= total
  PROVE  DerivedBlocks(total, fixed, perBlock + extra)
           <= DerivedBlocks(total, 0, perBlock)
<1> DEFINE mixed == DerivedBlocks(total, fixed, perBlock + extra)
<1>1. mixed \in Int /\ mixed * (perBlock + extra) <= total - fixed
  BY Quotient, AtMostQuotient DEF DerivedBlocks
<1>2. mixed >= 0
  <2>1. 0 * (perBlock + extra) <= total - fixed
    OBVIOUS
  <2> QED
    BY <2>1, AtMostQuotient DEF DerivedBlocks
<1> HIDE DEF mixed
<1>3. mixed * (perBlock + extra) = mixed * perBlock + mixed * extra
  BY <1>1
<1>4. mixed * extra >= 0
  BY <1>1, <1>2
<1>5. mixed * perBlock <= total
  BY <1>1, <1>3, <1>4
<1>6. mixed <= total \div perBlock
  BY <1>1, <1>5, AtMostQuotient
<1>7. total - 0 = total
  OBVIOUS
<1> QED
  BY <1>6, <1>7 DEF DerivedBlocks, mixed

-----------------------------------------------------------------------------
(* mixed_hot_start_threshold_blocks is "Smallest HOT occupancy with        *)
(* occupancy / hot_blocks >= start_utilization", and                       *)
(* mixed_hot_stop_target_blocks the "Largest HOT occupancy" at most at the *)
(* stop utilization.                                                       *)
THEOREM WatermarksExact ==
  ASSUME NEW hot \in Nat \ {0}, NEW used \in 0 .. hot, NEW percent \in 0 .. 100
  PROVE  /\ used >= HotStartThreshold(hot, percent) <=> used * 100 >= percent * hot
         /\ used <= HotStopTarget(hot, percent) <=> used * 100 <= percent * hot
<1>0. hot * percent = percent * hot /\ hot * percent \in Int
  OBVIOUS
<1>1. CASE percent = 0
  BY <1>1 DEF HotStartThreshold, HotStopTarget
<1>2. CASE percent = 100
  BY <1>2 DEF HotStartThreshold, HotStopTarget
<1>3. CASE percent \in 1 .. 99
  <2>1. /\ HotStartThreshold(hot, percent) = CeilDivide(hot * percent, 100)
        /\ HotStopTarget(hot, percent) = (hot * percent) \div 100
    BY <1>3 DEF HotStartThreshold, HotStopTarget
  <2>2. used >= CeilDivide(hot * percent, 100) <=> used * 100 >= hot * percent
    BY <1>0, AtLeastCeiling
  <2>3. used <= (hot * percent) \div 100 <=> used * 100 <= hot * percent
    BY <1>0, AtMostQuotient
  <2> QED
    BY <1>0, <2>1, <2>2, <2>3
<1> QED
  BY <1>1, <1>2, <1>3

(* The analysis counts the null block among the HOT blocks, the scheduler  *)
(* does not: its forecast of the start is never early and at most one      *)
(* block late.                                                             *)
THEOREM ForecastAtMostOneLate ==
  ASSUME NEW usable \in Nat, NEW percent \in 1 .. 99
  PROVE  HotStartThreshold(usable + 1, percent) - PressureTarget(usable, percent)
           \in 0 .. 1
<1> DEFINE early == PressureTarget(usable, percent)
           late == HotStartThreshold(usable + 1, percent)
<1>0. /\ percent * usable \in Int /\ (usable + 1) * percent \in Int
      /\ (usable + 1) * percent = percent * usable + percent
  OBVIOUS
<1>1. /\ early = CeilDivide(percent * usable, 100)
      /\ late = CeilDivide((usable + 1) * percent, 100)
  BY DEF PressureTarget, HotStartThreshold
<1>2. early \in Int /\ late \in Int
  BY <1>0, <1>1, Quotient DEF CeilDivide
<1> HIDE DEF early, late
<1>3. early * 100 >= percent * usable
  BY <1>0, <1>1, <1>2, AtLeastCeiling
<1>4. late * 100 >= percent * usable + percent
  BY <1>0, <1>1, <1>2, AtLeastCeiling
<1>5. late >= early
  BY <1>0, <1>1, <1>2, <1>4, AtLeastCeiling
<1>6. early + 1 >= late
  BY <1>0, <1>1, <1>2, <1>3, AtLeastCeiling
<1> QED
  BY <1>2, <1>5, <1>6 DEF early, late

(* So it is, by one block, for the 1,812 blocks and 80% of the docstring   *)
(* of mixed_hot_start_threshold_blocks.                                    *)
COROLLARY DocumentedStartIsLate ==
  HotStartThreshold(1812, 80) = 1450 /\ PressureTarget(1811, 80) = 1449
  BY DEF HotStartThreshold, PressureTarget, CeilDivide

-----------------------------------------------------------------------------
(* The planned ballast brings the HOT pool over the start watermark by the *)
(* safety margin, so the scheduler will begin to demote.                   *)
THEOREM BallastReachesStart ==
  ASSUME NEW usable \in Nat, NEW start \in 0 .. 100, NEW margin \in Nat,
         NEW turn1 \in Nat, NEW used,
         used = turn1 + RequiredBallast(usable, start, margin, turn1)
  PROVE  (used - margin) * 100 >= start * usable
<1> DEFINE target == PressureTarget(usable, start)
<1>1. start * usable \in Int /\ target \in Int
  BY Quotient DEF PressureTarget, CeilDivide
<1>2. used \in Int /\ used - margin >= target
  BY <1>1 DEF RequiredBallast
<1> QED
  BY <1>1, <1>2, AtLeastCeiling DEF PressureTarget

(* The shares differ by one block at most, and the requests with the larger*)
(* share make up for the remainder: none of the planned blocks is lost.    *)
THEOREM BallastSharesAddUp ==
  ASSUME NEW blocks \in Nat, NEW requests \in Nat \ {0},
         NEW index \in 0 .. requests - 1
  PROVE  /\ BallastShare(blocks, requests, index)
              \in blocks \div requests .. (blocks \div requests) + 1
         /\ BallastShare(blocks, requests, index) > blocks \div requests
              <=> index \in 0 .. (blocks % requests) - 1
         /\ blocks % requests \in 0 .. requests - 1
         /\ requests * (blocks \div requests) + (blocks % requests) = blocks
<1> DEFINE base == blocks \div requests
           rest == blocks % requests
<1>1. base \in Int /\ rest \in 0 .. requests - 1 /\ blocks = requests * base + rest
  BY Quotient
<1>2. BallastShare(blocks, requests, index) = base + (IF index < rest THEN 1 ELSE 0)
  BY DEF BallastShare
<1> HIDE DEF base, rest
<1>3. /\ BallastShare(blocks, requests, index) \in base .. base + 1
      /\ BallastShare(blocks, requests, index) > base <=> index \in 0 .. rest - 1
  BY <1>1, <1>2
<1> QED
  BY <1>1, <1>3 DEF base, rest
-----------------------------------------------------------------------------
\* An argument that is absent or has one value.
Optional(o) == o \subseteq Int /\ \A x, y \in o : x = y

Arguments(a) ==
  /\ a.mixed \in BOOLEAN
  /\ Optional(a.start) /\ Optional(a.stop) /\ Optional(a.pool) /\ Optional(a.budget)

\* One worker, Triton attention on float16 and a single group of blocks: what
\* the scripts fix or leave at its default, for the model they support.  The
\* runner is the one VLLM_USE_V2_MODEL_RUNNER asks for.
SupportedWorker(w, env) ==
  /\ w.v2Runner = (env.v2 = "1")
  /\ w.backends = {"TRITON_ATTN"} /\ w.hotType = "float16"
  /\ w.tensorParallel = 1 /\ w.pipelineParallel = 1 /\ w.dataParallel = 1
  /\ w.groups = 1 /\ w.blocksPerKVBlock = <<1>>

\* A layout whose blocks divide the alignment of the tables, with WARM elements
\* that leave their scale whole.
Layout(l) ==
  /\ l.layers \in Nat \ {0} /\ l.heads \in Nat \ {0} /\ l.headDim \in Nat \ {0}
  /\ l.hot \in Nat \ {0} /\ l.int \in Nat \ {0}
  /\ l.blockSize \in 1 .. 128 /\ l.alignment = 128
  /\ l.warm \in 1 .. 4 /\ l.scale = 4 \div l.warm

-----------------------------------------------------------------------------
(* Whoever sets the environment, a scheduler that may demote has a worker  *)
(* with a WARM pool, mixed reads and block migration: the scheduler's      *)
(* check implies every one of the worker's own tests of the environment.   *)
THEOREM DemotionHasPool ==
  ASSUME NEW e, NEW env, SchedulerAccepts(e, env), Demotes(e)
  PROVE  /\ PhysicalTiers(env) /\ MixedRead(env) /\ MultiBlock(env)
         /\ MigrationAccepts(env)
         /\ \E slots \in WarmCapacity(env) : slots > 0
  BY DEF SchedulerAccepts, PhysicalTiers, MixedRead, MultiBlock, TrueValues,
         MigrationAccepts, WarmCapacity

\* The parsed pool: the given one, or none.
LEMMA ParsedPool ==
  ASSUME NEW a, Arguments(a), PoolAccepted(a)
  PROVE  /\ a.mixed => PoolBlocks(a) \in a.pool /\ PoolBlocks(a) > 0
         /\ ~a.mixed => PoolBlocks(a) = 0
         /\ PoolBlocks(a) \in Nat
<1>1. CASE a.mixed
  <2>1. PICK slots \in a.pool : slots > 0
    BY <1>1 DEF PoolAccepted
  <2>2. PoolBlocks(a) \in a.pool
    BY <1>1, <2>1 DEF PoolBlocks
  <2>3. PoolBlocks(a) = slots /\ slots \in Int
    BY <2>1, <2>2 DEF Arguments, Optional
  <2> QED
    BY <1>1, <2>1, <2>2, <2>3
<1>2. CASE ~a.mixed
  BY <1>2 DEF PoolBlocks
<1> QED
  BY <1>1, <1>2

\* The environment passes every test in mixed mode and enables nothing in
\* all-HOT mode.
LEMMA EnvironmentTests ==
  ASSUME NEW a, Arguments(a), PoolAccepted(a)
  PROVE  /\ PhysicalTiers(Environment(a)) <=> a.mixed
         /\ MixedRead(Environment(a)) <=> a.mixed
         /\ MultiBlock(Environment(a)) <=> a.mixed
         /\ Environment(a).v2 = "1" /\ Environment(a).pool = {PoolBlocks(a)}
         /\ a.mixed => /\ Environment(a).tiers = "1" /\ Environment(a).read = "1"
                       /\ Environment(a).multi = "1"
                       /\ \E slots \in Environment(a).pool : slots > 0
<1>1. /\ Environment(a).v2 = "1" /\ Environment(a).pool = {PoolBlocks(a)}
      /\ Environment(a).tiers = Flag(a.mixed)
      /\ Environment(a).multi = Flag(a.mixed)
      /\ Environment(a).read = Flag(a.mixed)
  BY DEF Environment
<1>2. CASE a.mixed
  <2>1. Flag(a.mixed) = "1"
    BY <1>2 DEF Flag
  <2>2. PoolBlocks(a) > 0
    BY <1>2, ParsedPool
  <2> QED
    BY <1>1, <1>2, <2>1, <2>2
       DEF PhysicalTiers, MixedRead, MultiBlock, TrueValues
<1>3. CASE ~a.mixed
  <2>1. Flag(a.mixed) = "0"
    BY <1>3 DEF Flag
  <2> QED
    BY <1>1, <1>3, <2>1
       DEF PhysicalTiers, MixedRead, MultiBlock, TrueValues
<1> QED
  BY <1>2, <1>3

\* What follows from the environment for the worker.
LEMMA WorkerStarts ==
  ASSUME NEW a, Arguments(a), PoolAccepted(a),
         NEW w, SupportedWorker(w, Environment(a))
  PROVE  /\ WorkerAccepts(Environment(a), w) /\ MigrationAccepts(Environment(a))
         /\ WarmCapacity(Environment(a)) =
              IF a.mixed THEN {PoolBlocks(a)} ELSE {}
<1>1. WorkerAccepts(Environment(a), w)
  BY EnvironmentTests DEF WorkerAccepts, SupportedWorker
<1>2. MigrationAccepts(Environment(a))
  BY EnvironmentTests DEF MigrationAccepts
<1>3. WarmCapacity(Environment(a)) = IF a.mixed THEN {PoolBlocks(a)} ELSE {}
  BY EnvironmentTests DEF WarmCapacity
<1> QED
  BY <1>1, <1>2, <1>3
-----------------------------------------------------------------------------
(* Arguments that parse_args of the replay or of the resume-quality run    *)
(* accepts start an engine: both checks pass.  In mixed mode the scheduler *)
(* demotes between ordered watermarks into the pool that was asked for; in *)
(* all-HOT mode it never demotes and the worker has no pool.               *)
THEOREM AcceptedRunStarts ==
  ASSUME NEW l, NEW a, Arguments(a), ReplayAccepts(l, a) \/ QualityAccepts(l, a),
         NEW w, SupportedWorker(w, Environment(a))
  PROVE  LET e == EngineArgs(l, a)
             env == Environment(a)
         IN /\ SchedulerAccepts(e, env) /\ WorkerAccepts(env, w)
            /\ MigrationAccepts(env)
            /\ Demotes(e) <=> a.mixed
            /\ a.mixed => /\ WarmCapacity(env) = {PoolBlocks(a)} /\ PoolBlocks(a) > 0
                          /\ \A start \in e.start, stop \in e.stop :
                               0 <= stop /\ stop < start /\ start <= 100
            /\ ~a.mixed => WarmCapacity(env) = {}
<1> DEFINE e == EngineArgs(l, a)
           env == Environment(a)
<1>1. ThresholdsAccepted(a) /\ PoolAccepted(a)
  BY DEF ReplayAccepts, QualityAccepts
<1>2. /\ e.hotIdle = {} /\ e.coldIdle = {}
      /\ e.start = IF a.mixed THEN a.start ELSE {}
      /\ e.stop = IF a.mixed THEN a.stop ELSE {}
  BY DEF EngineArgs
<1>3. a.mixed => /\ Given(a.start) /\ Given(a.stop)
                 /\ \A start \in a.start, stop \in a.stop :
                      0 <= stop /\ stop < start /\ start <= 100
  <2> SUFFICES ASSUME a.mixed
               PROVE  /\ Given(a.start) /\ Given(a.stop)
                      /\ \A start \in a.start, stop \in a.stop :
                           0 <= stop /\ stop < start /\ start <= 100
    OBVIOUS
  <2>1. PICK x \in a.start, y \in a.stop : 0 <= y /\ y < x /\ x <= 100
    BY <1>1 DEF ThresholdsAccepted
  <2>2. \A start \in a.start, stop \in a.stop : start = x /\ stop = y
    BY DEF Arguments, Optional
  <2> QED
    BY <2>1, <2>2 DEF Given
<1>4. Demotes(e) <=> a.mixed
  BY <1>2, <1>3 DEF Demotes, Given
<1>5. SchedulerAccepts(e, env)
  <2>1. CASE a.mixed
    BY <1>1, <1>2, <1>3, <2>1, EnvironmentTests DEF SchedulerAccepts, Given
  <2>2. CASE ~a.mixed
    <3>1. ~Demotes(e)
      BY <1>4, <2>2
    <3> QED
      BY <1>2, <2>2, <3>1 DEF SchedulerAccepts, Given
  <2> QED
    BY <2>1, <2>2
<1>6. /\ WorkerAccepts(env, w) /\ MigrationAccepts(env)
      /\ WarmCapacity(env) = IF a.mixed THEN {PoolBlocks(a)} ELSE {}
  BY <1>1, WorkerStarts
<1>7. a.mixed => PoolBlocks(a) > 0
  BY <1>1, ParsedPool
<1>8. a.mixed => \A start \in e.start, stop \in e.stop :
                   0 <= stop /\ stop < start /\ start <= 100
  BY <1>2, <1>3
<1> QED
  BY <1>4, <1>5, <1>6, <1>7, <1>8
-----------------------------------------------------------------------------
(* The smoke test, whose demotion is by idle time, starts the same way.    *)
THEOREM SmokeRunStarts ==
  ASSUME NEW a, Arguments(a), SmokeAccepts(a),
         NEW w, SupportedWorker(w, Environment(a))
  PROVE  /\ SchedulerAccepts(SmokeEngineArgs(a), Environment(a))
         /\ WorkerAccepts(Environment(a), w) /\ MigrationAccepts(Environment(a))
         /\ Demotes(SmokeEngineArgs(a)) <=> a.mixed
         /\ WarmCapacity(Environment(a)) = IF a.mixed THEN {SmokePool} ELSE {}
<1> DEFINE e == SmokeEngineArgs(a)
<1>1. PoolAccepted(a)
  BY DEF SmokeAccepts, PoolAccepted, SmokePool, Given
<1>2. /\ e.hotIdle = IF a.mixed THEN {50} ELSE {}
      /\ e.coldIdle = IF a.mixed THEN {3600000} ELSE {}
      /\ e.start = {} /\ e.stop = {}
  BY DEF SmokeEngineArgs
<1>3. a.mixed => PoolBlocks(a) = SmokePool
  BY <1>1, ParsedPool DEF SmokeAccepts
<1>4. Demotes(e) <=> a.mixed
  BY <1>2 DEF Demotes, Given
<1>5. SchedulerAccepts(e, Environment(a))
  <2>1. CASE a.mixed
    <3>1. e.hotIdle = {50} /\ e.coldIdle = {3600000} /\ e.start = {} /\ e.stop = {}
      BY <1>2, <2>1
    <3> QED
      BY <1>1, <2>1, <3>1, EnvironmentTests DEF SchedulerAccepts, Given
  <2>2. CASE ~a.mixed
    <3>1. ~Demotes(e)
      BY <1>4, <2>2
    <3> QED
      BY <1>2, <2>2, <3>1 DEF SchedulerAccepts, Given
  <2> QED
    BY <2>1, <2>2
<1> QED
  BY <1>1, <1>3, <1>4, <1>5, WorkerStarts
-----------------------------------------------------------------------------
LEMMA ExactQuotient ==
  ASSUME NEW k \in Int, NEW d \in Nat \ {0}
  PROVE  (k * d) \div d = k
<1> DEFINE n == k * d
           q == n \div d
<1>1. n \in Int
  OBVIOUS
<1>2. (k + 1) * d = n + d
  OBVIOUS
<1> HIDE DEF n
<1>3. q \in Int
  BY <1>1, Quotient
<1>4. k <= q
  BY <1>1, AtMostQuotient DEF n
<1>5. ~(k + 1 <= q)
  <2>1. k + 1 <= q <=> (k + 1) * d <= n
    BY <1>1, AtMostQuotient
  <2> QED
    BY <1>1, <1>2, <2>1
<1> QED
  BY <1>3, <1>4, <1>5 DEF n

\* The bytes of a HOT block are a page in every layer, so that the engine finds
\* as many blocks in the HOT budget as it was derived from.
LEMMA EngineHasDerivedBlocks ==
  ASSUME NEW l, Layout(l), NEW blocks \in Nat
  PROVE  /\ NumBlocks(l, blocks * HotBytesPerBlock(l)) = blocks
         /\ blocks * PageBytes(l) * l.layers = blocks * HotBytesPerBlock(l)
<1> DEFINE page == PageBytes(l)
           layers == l.layers
<1>1. page \in Nat \ {0} /\ layers \in Nat \ {0}
  <2>1. /\ l.blockSize \in Nat \ {0} /\ l.heads \in Nat \ {0}
        /\ l.headDim \in Nat \ {0} /\ l.hot \in Nat \ {0}
    BY DEF Layout
  <2>2. \A x, y \in Nat \ {0} : x * y \in Nat \ {0}
    OBVIOUS
  <2>3. 2 * l.blockSize \in Nat \ {0}
    BY <2>1
  <2>4. 2 * l.blockSize * l.heads \in Nat \ {0}
    BY <2>1, <2>2, <2>3
  <2>5. 2 * l.blockSize * l.heads * l.headDim \in Nat \ {0}
    BY <2>1, <2>2, <2>4
  <2>6. 2 * l.blockSize * l.heads * l.headDim * l.hot \in Nat \ {0}
    BY <2>1, <2>2, <2>5
  <2> QED
    BY <2>6 DEF PageBytes, Layout
<1>2. HotBytesPerBlock(l) = layers * page
  BY DEF HotBytesPerBlock, PageBytes, Layout
<1> HIDE DEF page, layers
<1>3. blocks * (layers * page) = (blocks * layers) * page /\ blocks * layers \in Int
  BY <1>1
<1>4. ((blocks * layers) * page) \div page = blocks * layers
  BY <1>1, <1>3, ExactQuotient
<1>5. (blocks * layers) \div layers = blocks
  BY <1>1, ExactQuotient
<1>6. NumBlocks(l, blocks * HotBytesPerBlock(l)) = blocks
  BY <1>2, <1>3, <1>4, <1>5 DEF NumBlocks, page, layers
<1>7. blocks * page * layers = blocks * (layers * page)
  BY <1>1
<1> QED
  BY <1>2, <1>6, <1>7 DEF page, layers

\* The blocks of an alignment, and what a WARM slot and the slot table cost.
LEMMA Alignment ==
  ASSUME NEW l, Layout(l)
  PROVE  l.alignment = 128 /\ 128 \div l.blockSize \in Nat \ {0}
<1>1. l.alignment = 128 /\ l.blockSize \in Nat \ {0} /\ 1 * l.blockSize <= 128
  BY DEF Layout
<1>2. 1 <= 128 \div l.blockSize <=> 1 * l.blockSize <= 128
  BY <1>1, AtMostQuotient
<1>3. 128 \div l.blockSize \in Int
  BY <1>1
<1> QED
  BY <1>1, <1>2, <1>3

LEMMA WarmCost ==
  ASSUME NEW l, Layout(l)
  PROVE  WarmBytesPerSlot(l) \in Nat
<1>1. \A x, y \in Nat \ {0} : x * y \in Nat \ {0}
  OBVIOUS
<1>2. l.warm \in 1 .. 4 /\ l.scale = 4 \div l.warm
  BY DEF Layout
<1>3. l.scale \in Nat
  BY <1>2
<1>4. /\ l.layers \in Nat \ {0} /\ l.blockSize \in Nat \ {0} /\ l.heads \in Nat \ {0}
      /\ l.headDim + l.scale \in Nat \ {0} /\ l.warm \in Nat \ {0}
  BY <1>2, <1>3 DEF Layout
<1>5. l.layers * 2 * l.blockSize \in Nat \ {0}
  BY <1>1, <1>4
<1>6. l.layers * 2 * l.blockSize * l.heads \in Nat \ {0}
  BY <1>1, <1>4, <1>5
<1>7. l.layers * 2 * l.blockSize * l.heads * (l.headDim + l.scale) \in Nat \ {0}
  BY <1>1, <1>4, <1>6
<1> QED
  BY <1>1, <1>4, <1>7 DEF WarmBytesPerSlot

LEMMA TableCost ==
  ASSUME NEW l, Layout(l), NEW maxLen \in Nat, NEW maxSeqs \in Nat
  PROVE  SlotTableBytes(l, maxLen, maxSeqs) \in Nat
<1> DEFINE perAlignment == l.alignment \div l.blockSize
           blocks == CeilDivide(maxLen, l.blockSize)
           rows == CeilDivide(blocks, perAlignment)
<1>1. perAlignment \in Nat \ {0}
  BY Alignment
<1>2. blocks \in Nat
  BY DEF CeilDivide, Layout
<1> HIDE DEF perAlignment, blocks
<1>3. rows \in Nat
  BY <1>1, <1>2 DEF CeilDivide
<1>4. SlotTableBytes(l, maxLen, maxSeqs) = maxSeqs * rows * perAlignment * l.int
  BY DEF SlotTableBytes, perAlignment, blocks
<1> HIDE DEF rows
<1>5. \A x, y \in Nat : x * y \in Nat
  OBVIOUS
<1>6. maxSeqs * rows \in Nat
  BY <1>3, <1>5
<1>7. maxSeqs * rows * perAlignment \in Nat
  BY <1>1, <1>5, <1>6
<1>8. l.int \in Nat
  BY DEF Layout
<1> QED
  BY <1>4, <1>5, <1>7, <1>8

\* The WARM tensors and the slot table, sized by the engine and by the script.
LEMMA EngineHasDerivedTables ==
  ASSUME NEW l, Layout(l), NEW slots \in Nat, NEW maxLen \in Nat, NEW maxSeqs \in Nat
  PROVE  /\ l.layers * WarmTensorBytes(l, slots) = slots * WarmBytesPerSlot(l)
         /\ maxSeqs * TableColumns(l, maxLen) * l.int = SlotTableBytes(l, maxLen, maxSeqs)
<1>1. l.layers * WarmTensorBytes(l, slots) = slots * WarmBytesPerSlot(l)
  <2>1. ScalePad(l) = l.scale /\ l.scale \in Int
    BY DEF ScalePad, Layout
  <2> DEFINE row == l.headDim + l.scale
  <2>2. row \in Int
    BY <2>1 DEF Layout
  <2>3. /\ WarmTensorBytes(l, slots) =
              slots * 2 * l.blockSize * l.heads * row * l.warm
        /\ WarmBytesPerSlot(l) = l.layers * 2 * l.blockSize * l.heads * row * l.warm
    BY <2>1 DEF WarmTensorBytes, WarmBytesPerSlot
  <2>4. /\ l.layers \in Int /\ l.blockSize \in Int /\ l.heads \in Int /\ l.warm \in Int
    BY DEF Layout
  <2> HIDE DEF row
  <2> QED
    BY <2>2, <2>3, <2>4
<1>2. maxSeqs * TableColumns(l, maxLen) * l.int = SlotTableBytes(l, maxLen, maxSeqs)
  <2> DEFINE perAlignment == 128 \div l.blockSize
             rows == CeilDivide(CeilDivide(maxLen, l.blockSize), perAlignment)
  <2>1. perAlignment \in Int /\ perAlignment >= 1
    BY Alignment
  <2>2. rows \in Int
    <3>1. CeilDivide(maxLen, l.blockSize) \in Int
      BY DEF CeilDivide, Layout
    <3> HIDE DEF perAlignment
    <3> QED
      BY <2>1, <3>1 DEF CeilDivide
  <2>3. /\ TableColumns(l, maxLen) = rows * perAlignment
        /\ SlotTableBytes(l, maxLen, maxSeqs) = maxSeqs * rows * perAlignment * l.int
    BY DEF TableColumns, SlotTableBytes, Layout
  <2>4. l.int \in Int
    BY DEF Layout
  <2> HIDE DEF perAlignment, rows
  <2> QED
    BY <2>1, <2>2, <2>3, <2>4
<1> QED
  BY <1>1, <1>2

\* What a run pays besides the blocks, and for a block.
LEMMA DerivedCosts ==
  ASSUME NEW l, Layout(l), NEW a, Arguments(a), PoolAccepted(a),
         a.maxLen \in Nat, a.maxSeqs \in Nat
  PROVE  /\ HotBytesPerBlock(l) \in Nat \ {0}
         /\ PerBlock(l, a) \in Nat \ {0} /\ Fixed(l, a) \in Nat
         /\ PerBlock(l, a) =
              HotBytesPerBlock(l) + (IF a.mixed THEN l.layers * l.int ELSE 0)
<1>0. \A x, y \in Nat \ {0} : x * y \in Nat \ {0}
  OBVIOUS
<1>1. /\ l.layers \in Nat \ {0} /\ l.blockSize \in Nat \ {0} /\ l.heads \in Nat \ {0}
      /\ l.headDim \in Nat \ {0} /\ l.hot \in Nat \ {0} /\ l.int \in Nat \ {0}
      /\ l.warm \in Nat \ {0} /\ l.scale \in Nat
  <2>1. l.warm \in 1 .. 4 /\ l.scale = 4 \div l.warm
    BY DEF Layout
  <2>2. l.scale \in Nat
    BY <2>1
  <2> QED
    BY <2>1, <2>2 DEF Layout
<1>2. HotBytesPerBlock(l) \in Nat \ {0}
  <2>1. l.layers * 2 * l.blockSize \in Nat \ {0}
    BY <1>0, <1>1
  <2>2. l.layers * 2 * l.blockSize * l.heads \in Nat \ {0}
    BY <1>0, <1>1, <2>1
  <2>3. l.layers * 2 * l.blockSize * l.heads * l.headDim \in Nat \ {0}
    BY <1>0, <1>1, <2>2
  <2> QED
    BY <1>0, <1>1, <2>3 DEF HotBytesPerBlock
<1>3. PerBlock(l, a) = HotBytesPerBlock(l) + (IF a.mixed THEN l.layers * l.int ELSE 0)
  BY DEF PerBlock, BytesPerBudgetedBlock
<1>4. l.layers * l.int \in Nat
  BY <1>1
<1>5. PerBlock(l, a) \in Nat \ {0}
  BY <1>2, <1>3, <1>4
<1>6. Fixed(l, a) \in Nat
  <2>1. CASE ~a.mixed
    BY <2>1 DEF Fixed, FixedBytes
  <2>2. CASE a.mixed
    <3>1. PoolBlocks(a) \in Nat
      BY ParsedPool
    <3>2. WarmBytesPerSlot(l) \in Nat
      BY WarmCost
    <3>3. SlotTableBytes(l, a.maxLen, a.maxSeqs) \in Nat
      BY TableCost
    <3>4. PoolBlocks(a) * WarmBytesPerSlot(l) \in Nat
      BY <3>1, <3>2
    <3> QED
      BY <2>2, <3>3, <3>4 DEF Fixed, FixedBytes
  <2> QED
    BY <2>1, <2>2
<1> QED
  BY <1>2, <1>3, <1>5, <1>6

-----------------------------------------------------------------------------
(* The engine that a budgeted run starts holds exactly what the script has *)
(* derived without it: the HOT blocks, the WARM tensors, the maps and the  *)
(* slot table, sized by the engine's own formulas, are the derived ones to *)
(* the byte.  So the run's check of the one against the other fails only   *)
(* for an engine that allocates otherwise, and the budget is kept.         *)
THEOREM WorkerHoldsTheBudget ==
  ASSUME NEW l, Layout(l), NEW a, Arguments(a), PoolAccepted(a),
         a.maxLen \in Nat, a.maxSeqs \in Nat,
         BudgetAccepted(l, a), NEW total \in a.budget, NEW memory \in HotBudget(l, a)
  PROVE  LET report == WorkerReport(l, a, Environment(a), memory) IN
         /\ report = DerivedReport(l, a, total)
         /\ report.actual <= total /\ total < report.actual + PerBlock(l, a)
         /\ report.hot \in Int /\ report.warm \in Int
         /\ report.maps \in Int /\ report.table \in Int
         /\ report.actual = report.hot + report.warm + report.maps + report.table
<1> DEFINE blocks == DerivedBlocks(total, Fixed(l, a), PerBlock(l, a))
           hotBytes == HotBytesPerBlock(l)
           mapBytes == IF a.mixed THEN l.layers * l.int ELSE 0
           warm == IF a.mixed THEN PoolBlocks(a) * WarmBytesPerSlot(l) ELSE 0
           table == IF a.mixed THEN SlotTableBytes(l, a.maxLen, a.maxSeqs) ELSE 0
           report == WorkerReport(l, a, Environment(a), memory)
<1>1. /\ hotBytes \in Nat \ {0} /\ PerBlock(l, a) \in Nat \ {0}
      /\ Fixed(l, a) \in Nat /\ PerBlock(l, a) = hotBytes + mapBytes
  BY DerivedCosts
<1>2. total \in Nat /\ ~Refused(total, Fixed(l, a), PerBlock(l, a))
  <2>1. total \in Int
    BY DEF Arguments, Optional
  <2> QED
    BY <2>1 DEF BudgetAccepted
<1>3. blocks \in Nat
  <2>1. blocks \in Int
    BY <1>1, <1>2, Quotient DEF DerivedBlocks
  <2>2. ~(blocks <= 0)
    BY <1>2 DEF Refused
  <2> QED
    BY <2>1, <2>2
<1>4. memory = blocks * hotBytes
  <2>1. PICK other \in a.budget :
          memory = DerivedBlocks(other, Fixed(l, a), PerBlock(l, a)) * hotBytes
    BY DEF HotBudget
  <2>2. other = total
    BY DEF Arguments, Optional
  <2> QED
    BY <2>1, <2>2
<1> HIDE DEF blocks
<1>5. /\ NumBlocks(l, memory) = blocks
      /\ blocks * PageBytes(l) * l.layers = blocks * hotBytes
  BY <1>3, <1>4, EngineHasDerivedBlocks
<1>6. /\ PhysicalTiers(Environment(a)) <=> a.mixed
      /\ MultiBlock(Environment(a)) <=> a.mixed
  BY EnvironmentTests
<1>7. PoolBlocks(a) \in Nat
  BY ParsedPool
<1>8. /\ l.layers * WarmTensorBytes(l, PoolBlocks(a)) =
            PoolBlocks(a) * WarmBytesPerSlot(l)
      /\ a.maxSeqs * TableColumns(l, a.maxLen) * l.int =
            SlotTableBytes(l, a.maxLen, a.maxSeqs)
  BY <1>7, EngineHasDerivedTables
<1>9. l.layers * (blocks * l.int) = blocks * (l.layers * l.int)
  BY <1>3 DEF Layout
<1>10. Fixed(l, a) = warm + table /\ warm \in Int /\ table \in Int
  <2>1. CASE ~a.mixed
    BY <2>1 DEF Fixed, FixedBytes
  <2>2. CASE a.mixed
    <3>1. Fixed(l, a) = PoolBlocks(a) * WarmBytesPerSlot(l)
                          + SlotTableBytes(l, a.maxLen, a.maxSeqs)
      BY <2>2 DEF Fixed, FixedBytes
    <3>2. WarmBytesPerSlot(l) \in Nat /\ SlotTableBytes(l, a.maxLen, a.maxSeqs) \in Nat
      <4>1. WarmBytesPerSlot(l) \in Nat
        BY WarmCost
      <4>2. SlotTableBytes(l, a.maxLen, a.maxSeqs) \in Nat
        BY TableCost
      <4> QED
        BY <4>1, <4>2
    <3>3. PoolBlocks(a) * WarmBytesPerSlot(l) \in Int
      BY <1>7, <3>2
    <3> QED
      BY <2>2, <3>1, <3>2, <3>3
  <2> QED
    BY <2>1, <2>2
<1>11. mapBytes \in Int /\ blocks * mapBytes \in Int /\ blocks * hotBytes \in Int
  BY <1>1, <1>3 DEF Layout
<1>12. blocks * hotBytes + warm + blocks * mapBytes + table =
         ActualBytes(total, Fixed(l, a), PerBlock(l, a))
  <2>1. blocks * (hotBytes + mapBytes) = blocks * hotBytes + blocks * mapBytes
    BY <1>1, <1>3, <1>11
  <2>2. ActualBytes(total, Fixed(l, a), PerBlock(l, a)) =
          blocks * (hotBytes + mapBytes) + (warm + table)
    BY <1>1, <1>10 DEF ActualBytes, blocks
  <2> HIDE DEF warm, table, mapBytes, hotBytes
  <2> QED
    BY <1>10, <1>11, <2>1, <2>2
<1>13. /\ report.blocks = blocks /\ report.hot = blocks * hotBytes
       /\ report.warm = warm /\ report.maps = blocks * mapBytes
       /\ report.table = table
       /\ report.actual = blocks * hotBytes + warm + blocks * mapBytes + table
  <2>1. CASE a.mixed
    BY <1>5, <1>6, <1>8, <1>9, <2>1 DEF WorkerReport
  <2>2. CASE ~a.mixed
    BY <1>3, <1>5, <1>6, <2>2 DEF WorkerReport
  <2> QED
    BY <2>1, <2>2
<1>14. report = DerivedReport(l, a, total)
  <2> DEFINE derived == DerivedReport(l, a, total)
  <2>1. derived = [blocks |-> blocks, hot |-> blocks * hotBytes, warm |-> warm,
                   maps |-> blocks * mapBytes, table |-> table,
                   actual |-> ActualBytes(total, Fixed(l, a), PerBlock(l, a))]
    BY DEF DerivedReport, blocks
  <2>2. report = [blocks |-> report.blocks, hot |-> report.hot, warm |-> report.warm,
                  maps |-> report.maps, table |-> report.table,
                  actual |-> report.actual]
    BY DEF WorkerReport
  <2> QED
    BY <1>12, <1>13, <2>1, <2>2
<1>15. /\ ActualBytes(total, Fixed(l, a), PerBlock(l, a)) <= total
       /\ ActualBytes(total, Fixed(l, a), PerBlock(l, a)) + PerBlock(l, a) > total
  BY <1>1, <1>2, BudgetIsKept
<1>16. /\ report.hot \in Int /\ report.warm \in Int
       /\ report.maps \in Int /\ report.table \in Int
       /\ report.actual = report.hot + report.warm + report.maps + report.table
  BY <1>10, <1>11, <1>13
<1>17. report.actual <= total /\ total < report.actual + PerBlock(l, a)
  <2>1. report.actual = ActualBytes(total, Fixed(l, a), PerBlock(l, a))
    BY <1>12, <1>13
  <2>2. report.actual \in Int /\ PerBlock(l, a) \in Int
    BY <1>1, <1>10, <1>11, <1>13
  <2> QED
    BY <1>15, <2>1, <2>2
<1> HIDE DEF report
<1> QED
  BY <1>14, <1>16, <1>17 DEF report
-----------------------------------------------------------------------------
\* A result of a session: turns that were planned, times of those reached.
SessionResult(s) ==
  /\ s.turns \in Nat \ {0}
  /\ \A i \in Recorded(s) :
       s.sentAt[i] \in Int /\ s.firstAt[i] \in Int /\ s.finishedAt[i] \in Int

Report(r) == \A root \in DOMAIN r.sessions : SessionResult(r.sessions[root])

-----------------------------------------------------------------------------
(* As many turns are recorded as were planned, so that all are.            *)
LEMMA EveryTurnRecorded ==
  ASSUME NEW s, SessionResult(s), TimingValid(s)
  PROVE  Recorded(s) = 1 .. s.turns
<1>1. s.turns \in Nat \ {0}
  BY DEF SessionResult
<1>2. IsFiniteSet(1 .. s.turns) /\ Cardinality(1 .. s.turns) = s.turns
  BY <1>1, FS_Interval
<1>3. Recorded(s) \in SUBSET (1 .. s.turns) /\ Cardinality(Recorded(s)) = s.turns
  BY DEF Recorded, TimingValid
<1> HIDE DEF Recorded
<1> QED
  BY <1>2, <1>3, FS_Subset

\* The turn that counts as the final one is the last.
LEMMA FinalTurnIsLast ==
  ASSUME NEW s, SessionResult(s), TimingValid(s)
  PROVE  FinalTurn(s) = s.turns
<1> DEFINE final == FinalTurn(s)
<1>1. Recorded(s) = 1 .. s.turns /\ s.turns \in Nat \ {0}
  BY EveryTurnRecorded DEF SessionResult
<1>2. s.turns \in Recorded(s) /\ \A j \in Recorded(s) : j <= s.turns
  BY <1>1
<1>3. final \in Recorded(s) /\ \A j \in Recorded(s) : j <= final
  BY <1>2 DEF FinalTurn
<1>4. final <= s.turns /\ s.turns <= final /\ final \in Int
  BY <1>1, <1>2, <1>3
<1> QED
  BY <1>1, <1>4

(* A run that passes has recorded every turn of every session, each        *)
(* answered after it was sent and ended after it was sent: nothing the     *)
(* driver averages over is missing or negative.                            *)
THEOREM PassedRunHasEveryTurn ==
  ASSUME NEW l, NEW a, NEW r, Report(r), NEW baseline, Passed(l, a, r, baseline),
         NEW root \in DOMAIN r.sessions, NEW i \in 1 .. r.sessions[root].turns
  PROVE  LET s == r.sessions[root] IN
         /\ i \in DOMAIN s.sentAt /\ i \in DOMAIN s.firstAt /\ i \in DOMAIN s.finishedAt
         /\ 0 <= s.sentAt[i] /\ s.sentAt[i] <= s.firstAt[i]
         /\ s.sentAt[i] <= s.finishedAt[i]
<1> DEFINE s == r.sessions[root]
<1>1. SessionResult(s) /\ TimingValid(s)
  BY DEF Report, Passed, ValidationPasses
<1> HIDE DEF s
<1>2. i \in Recorded(s)
  BY <1>1, EveryTurnRecorded DEF s
<1>3. /\ s.sentAt[i] \in Int /\ s.firstAt[i] \in Int /\ s.finishedAt[i] \in Int
      /\ s.sentAt[i] >= 0 /\ s.firstAt[i] - s.sentAt[i] >= 0
      /\ s.finishedAt[i] - s.sentAt[i] >= 0
  BY <1>1, <1>2 DEF SessionResult, TimingValid, Ttft, Latency
<1>4. i \in DOMAIN s.sentAt /\ i \in DOMAIN s.firstAt /\ i \in DOMAIN s.finishedAt
  BY <1>2 DEF Recorded
<1> QED
  BY <1>3, <1>4 DEF s

-----------------------------------------------------------------------------
(* The correctness gate: a correctness run that passes against a baseline  *)
(* has generated, for every turn of every session, exactly the tokens the  *)
(* baseline recorded for the same request, and the baseline has recorded   *)
(* no other turn.  So a baseline that lost a turn cannot be passed.        *)
THEOREM CorrectnessGate ==
  ASSUME NEW l, NEW a, ~a.performance, NEW r, Report(r), NEW b,
         Passed(l, a, r, {b})
  PROVE  /\ \A root \in DOMAIN r.sessions : \A i \in 1 .. r.sessions[root].turns :
              LET s == r.sessions[root]
                  t == b.sessions[root]
              IN  /\ root \in DOMAIN b.sessions /\ i \in Recorded(t)
                  /\ t.chat[i] = s.chat[i] /\ t.tokens[i] = s.tokens[i]
         /\ \A root \in DOMAIN b.sessions : \A i \in Recorded(b.sessions[root]) :
              /\ root \in DOMAIN r.sessions /\ i \in Recorded(r.sessions[root])
              /\ r.sessions[root].chat[i] = b.sessions[root].chat[i]
<1>1. TurnKeys(r) = TurnKeys(b)
  BY DEF Passed, ValidationPasses, ComparisonValid, Mismatched
<1>2. \A key \in TurnKeys(r) : OrderedTurnTokens(r)[key] = OrderedTurnTokens(b)[key]
  BY DEF Passed, ValidationPasses, ComparisonValid, Mismatched
<1>3. ASSUME NEW x, NEW root, NEW chat, NEW i
      PROVE  <<root, chat, i>> \in TurnKeys(x) <=>
               /\ root \in DOMAIN x.sessions /\ i \in Recorded(x.sessions[root])
               /\ chat = x.sessions[root].chat[i]
  BY DEF TurnKeys
<1>4. ASSUME NEW x, NEW root \in DOMAIN x.sessions, NEW i \in Recorded(x.sessions[root])
      PROVE  OrderedTurnTokens(x)[<<root, x.sessions[root].chat[i], i>>] =
               x.sessions[root].tokens[i]
  <2>1. <<root, x.sessions[root].chat[i], i>> \in TurnKeys(x)
    BY <1>3
  <2> QED
    BY <2>1 DEF OrderedTurnTokens
<1>5. ASSUME NEW root \in DOMAIN r.sessions, NEW i \in 1 .. r.sessions[root].turns
      PROVE  /\ root \in DOMAIN b.sessions /\ i \in Recorded(b.sessions[root])
             /\ b.sessions[root].chat[i] = r.sessions[root].chat[i]
             /\ b.sessions[root].tokens[i] = r.sessions[root].tokens[i]
  <2> DEFINE key == <<root, r.sessions[root].chat[i], i>>
  <2>1. SessionResult(r.sessions[root]) /\ TimingValid(r.sessions[root])
    BY DEF Report, Passed, ValidationPasses
  <2>2. i \in Recorded(r.sessions[root])
    BY <2>1, EveryTurnRecorded
  <2>3. key \in TurnKeys(r)
    BY <1>3, <2>2
  <2>4. key \in TurnKeys(b)
    BY <1>1, <2>3
  <2>5. /\ root \in DOMAIN b.sessions /\ i \in Recorded(b.sessions[root])
        /\ b.sessions[root].chat[i] = r.sessions[root].chat[i]
    BY <1>3, <2>4
  <2>6. OrderedTurnTokens(r)[key] = r.sessions[root].tokens[i]
    BY <1>4, <2>2
  <2>7. OrderedTurnTokens(b)[key] = b.sessions[root].tokens[i]
    BY <1>4, <2>5
  <2>8. OrderedTurnTokens(r)[key] = OrderedTurnTokens(b)[key]
    BY <1>2, <2>3
  <2> QED
    BY <2>5, <2>6, <2>7, <2>8
<1>6. ASSUME NEW root \in DOMAIN b.sessions, NEW i \in Recorded(b.sessions[root])
      PROVE  /\ root \in DOMAIN r.sessions /\ i \in Recorded(r.sessions[root])
             /\ r.sessions[root].chat[i] = b.sessions[root].chat[i]
  <2>1. <<root, b.sessions[root].chat[i], i>> \in TurnKeys(r)
    BY <1>1, <1>3
  <2> QED
    BY <1>3, <2>1
<1> QED
  BY <1>5, <1>6

-----------------------------------------------------------------------------
(* The check of the memory refuses no engine that sizes its pools by its   *)
(* own formulas, and every run it lets pass has kept the budget to less    *)
(* than a block: the second of its two comparisons can only fail with the  *)
(* first.                                                                  *)
THEOREM AccountingIsExact ==
  ASSUME NEW l, Layout(l), NEW a, Arguments(a), PoolAccepted(a),
         a.maxLen \in Nat, a.maxSeqs \in Nat, BudgetAccepted(l, a),
         NEW total \in a.budget, NEW r
  PROVE  /\ \A memory \in HotBudget(l, a) :
              r.memory = WorkerReport(l, a, Environment(a), memory)
                => AccountingValid(l, a, r)
         /\ AccountingValid(l, a, r) =>
              r.memory.actual <= total /\ total < r.memory.actual + PerBlock(l, a)
         /\ r.memory = DerivedReport(l, a, total) => ~(r.memory.actual > total)
<1>1. ASSUME NEW other \in a.budget PROVE other = total
  BY <1>1 DEF Arguments, Optional
<1>2. total \in Int
  BY DEF Arguments, Optional
<1>3. PICK memory \in HotBudget(l, a) : TRUE
  BY DEF HotBudget
<1>4. /\ DerivedReport(l, a, total).actual <= total
      /\ total < DerivedReport(l, a, total).actual + PerBlock(l, a)
  BY <1>3, WorkerHoldsTheBudget
<1>5. DerivedReport(l, a, total).actual \in Int
  <2>1. /\ PerBlock(l, a) \in Nat \ {0} /\ Fixed(l, a) \in Nat
    BY DerivedCosts
  <2>2. DerivedBlocks(total, Fixed(l, a), PerBlock(l, a)) \in Int
    <3> DEFINE free == total - Fixed(l, a)
               cost == PerBlock(l, a)
    <3>1. free \in Int /\ cost \in Nat \ {0}
      BY <1>2, <2>1
    <3> HIDE DEF free, cost
    <3>2. free \div cost \in Int
      BY <3>1, Quotient
    <3> QED
      BY <3>2 DEF DerivedBlocks, free, cost
  <2>3. ActualBytes(total, Fixed(l, a), PerBlock(l, a)) \in Int
    BY <2>1, <2>2 DEF ActualBytes
  <2> QED
    BY <2>3 DEF DerivedReport
<1>6. ASSUME NEW m \in HotBudget(l, a), r.memory = WorkerReport(l, a, Environment(a), m)
      PROVE  AccountingValid(l, a, r)
  <2>1. r.memory = DerivedReport(l, a, total)
    BY <1>6, WorkerHoldsTheBudget
  <2>2. ~(r.memory.actual > total)
    BY <1>2, <1>4, <1>5, <2>1
  <2> QED
    BY <1>1, <2>1, <2>2 DEF AccountingValid
<1>7. AccountingValid(l, a, r) => r.memory = DerivedReport(l, a, total)
  BY DEF AccountingValid
<1>8. r.memory = DerivedReport(l, a, total) => ~(r.memory.actual > total)
  BY <1>2, <1>4, <1>5
<1> QED
  BY <1>4, <1>6, <1>7, <1>8

-----------------------------------------------------------------------------
(* A performance run that passes has decoded: in some session the last     *)
(* turn generated more or less than the one token of a capped turn, or     *)
(* ended for another reason than its length.  It need not be so in every   *)
(* session.                                                                *)
THEOREM PerformanceRunDecodes ==
  ASSUME NEW l, NEW a, a.performance, ReplayAccepts(l, a), Optional(a.maxTokens),
         NEW r, Report(r), DOMAIN r.sessions # {},
         \A root \in DOMAIN r.sessions : \A i \in 1 .. r.sessions[root].turns :
           Len(r.sessions[root].tokens[i]) \in Nat,
         NEW baseline, Passed(l, a, r, baseline)
  PROVE  \E root \in DOMAIN r.sessions :
           LET s == r.sessions[root] IN
           Len(s.tokens[s.turns]) # 1 \/ s.reason[s.turns] # "length"
<1>1. FinalTurnTokens(a) \in Int /\ FinalTurnTokens(a) > 1
  <2>1. PICK n \in a.maxTokens : n > 1
    BY DEF ReplayAccepts
  <2>2. FinalTurnTokens(a) \in a.maxTokens
    BY <2>1 DEF FinalTurnTokens, Given
  <2> QED
    BY <2>1, <2>2 DEF Optional
<1>2. ASSUME NEW root \in DOMAIN r.sessions
      PROVE  LET s == r.sessions[root] IN
             /\ Recorded(s) # {} /\ FinalTurn(s) = s.turns
             /\ EffectiveMaxTokens(a, s, s.turns) = FinalTurnTokens(a)
             /\ Len(s.tokens[s.turns]) \in Nat
  <2> DEFINE s == r.sessions[root]
  <2>1. SessionResult(s) /\ TimingValid(s)
    BY DEF Report, Passed, ValidationPasses
  <2>2. s.turns \in Nat \ {0}
    BY <2>1 DEF SessionResult
  <2>3. FinalTurn(s) = s.turns /\ Recorded(s) = 1 .. s.turns
    BY <2>1, FinalTurnIsLast, EveryTurnRecorded
  <2>4. s.turns \in 1 .. s.turns
    BY <2>2
  <2>5. Recorded(s) # {}
    BY <2>3, <2>4
  <2>6. EffectiveMaxTokens(a, s, s.turns) = FinalTurnTokens(a)
    BY <2>2 DEF EffectiveMaxTokens
  <2> QED
    BY <2>3, <2>4, <2>5, <2>6
<1>3. MultiTokenFinals(a, r) = DOMAIN r.sessions
  BY <1>1, <1>2 DEF MultiTokenFinals
<1>4. SilentlyLimited(a, r) # MultiTokenFinals(a, r)
  BY <1>3 DEF Passed, ValidationPasses, LimitsValid
<1>5. PICK root \in DOMAIN r.sessions : root \notin SilentlyLimited(a, r)
  BY <1>3, <1>4 DEF SilentlyLimited
<1> DEFINE s == r.sessions[root]
<1>6. ~ /\ Len(s.tokens[s.turns]) < FinalTurnTokens(a)
        /\ Len(s.tokens[s.turns]) = 1 /\ s.reason[s.turns] = "length"
  BY <1>2, <1>3, <1>5 DEF SilentlyLimited
<1> QED
  BY <1>1, <1>2, <1>6

-----------------------------------------------------------------------------
(* The progress of a run.                                                  *)

\* What the tasks leave: results of planned sessions, and no turn completed
\* that was not planned.
ResultsOfPlan(r) ==
  /\ IsFiniteSet(DOMAIN r.plan) /\ \A root \in DOMAIN r.plan : r.plan[root] \in Nat \ {0}
  /\ DOMAIN r.sessions \subseteq DOMAIN r.plan
  /\ \A root \in DOMAIN r.sessions :
       /\ r.sessions[root].turns = r.plan[root]
       /\ r.sessions[root].completed \in 0 .. r.plan[root]

LEMMA RequestsFinite ==
  ASSUME NEW turns, IsFiniteSet(DOMAIN turns),
         \A root \in DOMAIN turns : turns[root] \in Nat
  PROVE  IsFiniteSet(Requests(turns))
<1> DEFINE roots == DOMAIN turns
           of == [root \in roots |-> {root} \X (1 .. turns[root])]
           images == {{root} \X (1 .. turns[root]) : root \in roots}
<1>1. of \in Surjection(roots, images)
  BY DEF Surjection
<1>2. IsFiniteSet(images)
  BY <1>1, FS_Surjection
<1>3. ASSUME NEW root \in roots PROVE IsFiniteSet({root} \X (1 .. turns[root]))
  <2>1. IsFiniteSet({root})
    BY FS_Singleton
  <2>2. IsFiniteSet(1 .. turns[root])
    BY FS_Interval
  <2> QED
    BY <2>1, <2>2, FS_Product
<1>4. \A T \in images : IsFiniteSet(T)
  BY <1>3
<1> QED
  BY <1>2, <1>4, FS_UNION DEF Requests

LEMMA RequestOf ==
  ASSUME NEW turns, NEW root, NEW i
  PROVE  <<root, i>> \in Requests(turns) <=>
           root \in DOMAIN turns /\ i \in 1 .. turns[root]
  BY DEF Requests

LEMMA SomeRequest ==
  ASSUME NEW turns, NEW t \in Requests(turns)
  PROVE  \E root \in DOMAIN turns : \E i \in 1 .. turns[root] : t = <<root, i>>
  BY DEF Requests

LEMMA AllCompleted ==
  ASSUME NEW r, ResultsOfPlan(r), DOMAIN r.sessions = DOMAIN r.plan,
         \A root \in DOMAIN r.plan : r.sessions[root].completed = r.plan[root]
  PROVE  CompletedRequests(r) = Requests(r.plan)
<1> DEFINE done == [root \in DOMAIN r.sessions |-> r.sessions[root].completed]
<1>1. DOMAIN done = DOMAIN r.plan /\ \A root \in DOMAIN r.plan : done[root] = r.plan[root]
  OBVIOUS
<1>2. CompletedRequests(r) = Requests(done)
  BY DEF CompletedRequests
<1> HIDE DEF done
<1>3. \A t \in Requests(done) : t \in Requests(r.plan)
  BY <1>1, RequestOf, SomeRequest
<1>4. \A t \in Requests(r.plan) : t \in Requests(done)
  BY <1>1, RequestOf, SomeRequest
<1> QED
  BY <1>2, <1>3, <1>4

\* A run completes no more than it has selected, and its two counters agree:
\* no request is incomplete exactly when no session is.
THEOREM ProgressAdds ==
  ASSUME NEW r, ResultsOfPlan(r)
  PROVE  LET p == Progress(r) IN
         /\ p.incompleteRequests \in Nat /\ p.incompleteSessions \in Nat
         /\ p.incompleteRequests = 0 <=> p.incompleteSessions = 0
         /\ p.incompleteSessions = 0 <=>
              \A root \in DOMAIN r.plan :
                root \in DOMAIN r.sessions /\ r.sessions[root].completed = r.plan[root]
<1> DEFINE done == [root \in DOMAIN r.sessions |-> r.sessions[root].completed]
           all == \A root \in DOMAIN r.plan :
                    /\ root \in DOMAIN r.sessions
                    /\ r.sessions[root].completed = r.plan[root]
<1>1. /\ IsFiniteSet(DOMAIN r.plan) /\ IsFiniteSet(Requests(r.plan))
      /\ Cardinality(DOMAIN r.plan) \in Nat /\ Cardinality(Requests(r.plan)) \in Nat
  <2>1. IsFiniteSet(DOMAIN r.plan) /\ IsFiniteSet(Requests(r.plan))
    BY RequestsFinite DEF ResultsOfPlan
  <2> QED
    BY <2>1, FS_CardinalityType
<1>2. CompletedRequests(r) = Requests(done)
  BY DEF CompletedRequests
<1>3. CompletedRequests(r) \in SUBSET Requests(r.plan)
  <2>1. ASSUME NEW t \in Requests(done) PROVE t \in Requests(r.plan)
    <3>1. PICK root \in DOMAIN done : \E i \in 1 .. done[root] : t = <<root, i>>
      BY <2>1, SomeRequest
    <3> PICK i \in 1 .. done[root] : t = <<root, i>>
      BY <3>1
    <3>2. root \in DOMAIN r.plan /\ i \in 1 .. r.plan[root]
      BY <3>1 DEF ResultsOfPlan
    <3> QED
      BY <3>1, <3>2, RequestOf
  <2> QED
    BY <1>2, <2>1
<1>4. CompletedSessions(r) \in SUBSET DOMAIN r.plan
  BY DEF CompletedSessions, ResultsOfPlan
<1>5. /\ Cardinality(CompletedRequests(r)) \in Nat
      /\ Cardinality(CompletedRequests(r)) <= Cardinality(Requests(r.plan))
      /\ Cardinality(CompletedRequests(r)) = Cardinality(Requests(r.plan))
           => CompletedRequests(r) = Requests(r.plan)
  BY <1>1, <1>3, FS_Subset, FS_CardinalityType
<1>6. /\ Cardinality(CompletedSessions(r)) \in Nat
      /\ Cardinality(CompletedSessions(r)) <= Cardinality(DOMAIN r.plan)
      /\ Cardinality(CompletedSessions(r)) = Cardinality(DOMAIN r.plan)
           => CompletedSessions(r) = DOMAIN r.plan
  BY <1>1, <1>4, FS_Subset, FS_CardinalityType
<1>7. CompletedSessions(r) = DOMAIN r.plan <=> all
  BY DEF CompletedSessions, ResultsOfPlan
<1>8. CompletedRequests(r) = Requests(r.plan) => all
  <2>1. ASSUME CompletedRequests(r) = Requests(r.plan), NEW root \in DOMAIN r.plan
        PROVE  root \in DOMAIN r.sessions /\ r.sessions[root].completed = r.plan[root]
    <3>1. r.plan[root] \in Nat \ {0}
      BY DEF ResultsOfPlan
    <3>2. <<root, r.plan[root]>> \in Requests(r.plan)
      BY <3>1, RequestOf
    <3>3. root \in DOMAIN done /\ r.plan[root] \in 1 .. done[root]
      BY <1>2, <2>1, <3>2, RequestOf
    <3> QED
      BY <3>1, <3>3 DEF ResultsOfPlan
  <2> QED
    BY <2>1
<1>9. all => CompletedRequests(r) = Requests(r.plan)
  <2> SUFFICES ASSUME all PROVE CompletedRequests(r) = Requests(r.plan)
    OBVIOUS
  <2>1. DOMAIN r.sessions = DOMAIN r.plan
    BY DEF ResultsOfPlan
  <2> QED
    BY <2>1, AllCompleted
<1> HIDE DEF all
<1>10. LET p == Progress(r) IN
       /\ p.incompleteRequests =
            Cardinality(Requests(r.plan)) - Cardinality(CompletedRequests(r))
       /\ p.incompleteSessions =
            Cardinality(DOMAIN r.plan) - Cardinality(CompletedSessions(r))
  BY DEF Progress
<1> QED
  BY <1>1, <1>5, <1>6, <1>7, <1>8, <1>9, <1>10 DEF all

-----------------------------------------------------------------------------
(* What the study of capacity pressure reads in a result of the driver.    *)
LEMMA FoundBlock ==
  ASSUME NEW block, NEW key, NEW value, key \in DOMAIN block, block[key] = {value}
  PROVE  Lookup(block, key) = {value} /\ Block(block, key) = value
  BY DEF Lookup, Get, Block, Given, The

LEMMA DriverBlocks ==
  ASSUME NEW l, NEW a, NEW r, NEW baseline
  PROVE  LET data == ResultFile(l, a, r, baseline) IN
         /\ Block(data, "termination") = Termination(a, r)
         /\ Block(data, "runtime_persistent_kv_memory") = RuntimeMemory(a, r)
         /\ Lookup(data, "kv_mode") = {IF a.mixed THEN "mixed" ELSE "all-hot"}
         /\ Lookup(data, "requests_per_second") = RequestRate(r)
         /\ Lookup(data, "output_tokens_per_second_service_window") = TokenRate(r)
         /\ RequiredTopLevel \subseteq DOMAIN data
<1> DEFINE data == ResultFile(l, a, r, baseline)
<1>1. "termination" \in DOMAIN data /\ data["termination"] = {Termination(a, r)}
  BY DEF ResultFile
<1>2. /\ "runtime_persistent_kv_memory" \in DOMAIN data
      /\ data["runtime_persistent_kv_memory"] = {RuntimeMemory(a, r)}
  BY DEF ResultFile
<1>3. /\ "kv_mode" \in DOMAIN data
      /\ data["kv_mode"] = {IF a.mixed THEN "mixed" ELSE "all-hot"}
  BY DEF ResultFile
<1>4. /\ "requests_per_second" \in DOMAIN data
      /\ data["requests_per_second"] = RequestRate(r)
  BY DEF ResultFile
<1>5. /\ "output_tokens_per_second_service_window" \in DOMAIN data
      /\ data["output_tokens_per_second_service_window"] = TokenRate(r)
  BY DEF ResultFile
<1>6. RequiredTopLevel \subseteq DOMAIN data
  BY DEF ResultFile, RequiredTopLevel
<1> HIDE DEF data
<1>7. /\ Block(data, "termination") = Termination(a, r)
      /\ Block(data, "runtime_persistent_kv_memory") = RuntimeMemory(a, r)
  BY <1>1, <1>2, FoundBlock
<1>8. /\ Lookup(data, "kv_mode") = {IF a.mixed THEN "mixed" ELSE "all-hot"}
      /\ Lookup(data, "requests_per_second") = RequestRate(r)
      /\ Lookup(data, "output_tokens_per_second_service_window") = TokenRate(r)
  BY <1>3, <1>4, <1>5 DEF Lookup, Get
<1> QED
  BY <1>6, <1>7, <1>8 DEF data

\* The row of a result says of a run that it was completed exactly when the
\* driver was not timed out, a run has throughput in the study exactly when it
\* was completed, and a file under the name of its mode is never flagged.
THEOREM DriverRowsClassified ==
  ASSUME NEW l, NEW a, NEW r, r.timedOut \in BOOLEAN, NEW baseline,
         NEW f, f.data = ResultFile(l, a, r, baseline)
  PROVE  LET row == ExtractRow(f) IN
         /\ row.completed_run <=> ~r.timedOut
         /\ row.timed_out = {r.timedOut}
         /\ row.mode = {IF a.mixed THEN "mixed" ELSE "all-hot"}
         /\ Given(row.requests_per_second_completed_workload) <=> row.completed_run
         /\ Given(row.output_tokens_per_second_completed_workload) <=> row.completed_run
         /\ SchemaIssue(f) <=> ExpectedMode(f) # IF a.mixed THEN "mixed" ELSE "all-hot"
<1> DEFINE row == ExtractRow(f)
           term == Block(f.data, "termination")
           mode == IF a.mixed THEN "mixed" ELSE "all-hot"
<1>1. /\ term = Termination(a, r) /\ Lookup(f.data, "kv_mode") = {mode}
      /\ Lookup(f.data, "requests_per_second") = RequestRate(r)
      /\ Lookup(f.data, "output_tokens_per_second_service_window") = TokenRate(r)
      /\ RequiredTopLevel \subseteq DOMAIN f.data
  BY DriverBlocks
<1>2. /\ Lookup(Termination(a, r), "timed_out") = {r.timedOut}
      /\ Lookup(Termination(a, r), "status") = {IF r.timedOut THEN "timeout" ELSE "completed"}
  BY DEF Termination, Lookup, Get
<1>3. /\ row.timed_out = Lookup(term, "timed_out")
      /\ row.completed_run = IsCompletedRun(Lookup(term, "timed_out"), Lookup(term, "status"))
      /\ row.mode = Lookup(f.data, "kv_mode")
  BY DEF ExtractRow
<1>4. /\ row.requests_per_second_completed_workload =
           IF IsCompletedRun(Lookup(term, "timed_out"), Lookup(term, "status"))
           THEN Lookup(f.data, "requests_per_second") ELSE {}
      /\ row.output_tokens_per_second_completed_workload =
           IF IsCompletedRun(Lookup(term, "timed_out"), Lookup(term, "status"))
           THEN Lookup(f.data, "output_tokens_per_second_service_window") ELSE {}
  BY DEF ExtractRow
<1>5. ~r.timedOut => RequestRate(r) # {} /\ TokenRate(r) # {}
  BY DEF RequestRate, TokenRate
<1>6. IsCompletedRun(Lookup(term, "timed_out"), Lookup(term, "status")) <=> ~r.timedOut
  BY <1>1, <1>2 DEF IsCompletedRun
<1>7. SchemaIssue(f) <=> ExpectedMode(f) # mode
  BY <1>1 DEF SchemaIssue
<1> HIDE DEF row, term, mode
<1>8. row.completed_run <=> ~r.timedOut
  BY <1>3, <1>6
<1>9. row.timed_out = {r.timedOut} /\ row.mode = {mode}
  BY <1>1, <1>2, <1>3
<1>10. /\ Given(row.requests_per_second_completed_workload) <=> row.completed_run
       /\ Given(row.output_tokens_per_second_completed_workload) <=> row.completed_run
  BY <1>1, <1>4, <1>5, <1>6, <1>8 DEF Given
<1> QED
  BY <1>7, <1>8, <1>9, <1>10 DEF row, mode

\* The row of a run that passed with results of all its sessions shows every
\* request completed; of a completed run that is not so.
THEOREM PassedRowComplete ==
  ASSUME NEW l, NEW a, NEW r, r.timedOut \in BOOLEAN, ResultsOfPlan(r),
         DOMAIN r.plan # {}, DOMAIN r.sessions = DOMAIN r.plan,
         NEW baseline, Passed(l, a, r, baseline),
         NEW f, f.data = ResultFile(l, a, r, baseline)
  PROVE  LET row == ExtractRow(f)
             n == Cardinality(Requests(r.plan))
         IN /\ row.completed_run
            /\ row.completion_rate_pct = {<<100 * n, n>>}
<1> DEFINE row == ExtractRow(f)
           term == Block(f.data, "termination")
           n == Cardinality(Requests(r.plan))
           m == Cardinality(CompletedRequests(r))
<1>1. row.completed_run
  BY DriverRowsClassified DEF Passed
<1>2. \A root \in DOMAIN r.plan :
        root \in DOMAIN r.sessions /\ r.sessions[root].completed = r.plan[root]
  BY DEF Passed, ValidationPasses, TimingValid, ResultsOfPlan
<1>3. m = n /\ n \in Nat \ {0}
  <2>2. IsFiniteSet(Requests(r.plan))
    BY RequestsFinite DEF ResultsOfPlan
  <2>3. n \in Nat
    BY <2>2, FS_CardinalityType
  <2>4. m = n
    BY <1>2, AllCompleted
  <2>5. Requests(r.plan) # {}
    <3>1. PICK root \in DOMAIN r.plan : r.plan[root] \in Nat \ {0}
      BY DEF ResultsOfPlan
    <3>2. <<root, 1>> \in Requests(r.plan)
      BY <3>1, RequestOf
    <3> QED
      BY <3>2
  <2> QED
    BY <2>2, <2>3, <2>4, <2>5, FS_EmptySet
<1>4. term = Termination(a, r)
  BY DriverBlocks
<1>5. /\ Lookup(Termination(a, r), "completed_request_count") = {m}
      /\ "selected_request_count" \in DOMAIN Termination(a, r)
      /\ Termination(a, r)["selected_request_count"] = {n}
  BY DEF Termination, Progress, Lookup, Get
<1>6. row.completion_rate_pct =
        CompletionRate(Lookup(term, "completed_request_count"),
          Get(term, "selected_request_count",
              Lookup(Block(f.data, "selection"), "selected_request_count")))
  BY DEF ExtractRow
<1> HIDE DEF row, term
<1>7. row.completion_rate_pct = CompletionRate({m}, {n})
  BY <1>4, <1>5, <1>6 DEF Get
<1> HIDE DEF m, n
<1>8. CompletionRate({m}, {n}) = {<<100 * n, n>>}
  <2>1. {m} \X ({n} \ {0}) = {<<n, n>>}
    BY <1>3
  <2>2. CompletionRate({m}, {n}) = {<<100 * pair[1], pair[2]>> : pair \in {<<n, n>>}}
    BY <2>1 DEF CompletionRate
  <2>3. {<<100 * pair[1], pair[2]>> : pair \in {<<n, n>>}} = {<<100 * n, n>>}
    OBVIOUS
  <2> QED
    BY <2>2, <2>3
<1> QED
  BY <1>1, <1>7, <1>8 DEF row, n

\* The study's two checks of the memory hold for every run that passed on a
\* budget: its parts add up to its total, and what is left of the budget is
\* what the driver recorded, less than a block.
THEOREM PassedRowBalances ==
  ASSUME NEW l, Layout(l), NEW a, Arguments(a), PoolAccepted(a),
         a.maxLen \in Nat, a.maxSeqs \in Nat, BudgetAccepted(l, a),
         NEW total \in a.budget,
         NEW r, r.everInspected, NEW baseline, Passed(l, a, r, baseline),
         NEW f, f.data = ResultFile(l, a, r, baseline)
  PROVE  LET row == ExtractRow(f) IN
         /\ SumMatchesTotal(row) /\ WithinRecordedSlack(row)
         /\ \A slack \in row.budget_slack_bytes : slack < PerBlock(l, a)
<1> DEFINE row == ExtractRow(f)
           runtime == Block(f.data, "runtime_persistent_kv_memory")
           m == r.memory
<1>1. a.budget = {total} /\ total \in Int
  BY DEF Arguments, Optional
<1>2. PICK memory \in HotBudget(l, a) : TRUE
  BY DEF HotBudget
<1>3. m = WorkerReport(l, a, Environment(a), memory)
  <2>1. m = DerivedReport(l, a, total)
    BY DEF Passed, ValidationPasses, AccountingValid
  <2> QED
    BY <1>2, <2>1, WorkerHoldsTheBudget
<1>4. m.actual <= total /\ total < m.actual + PerBlock(l, a)
  BY <1>2, <1>3, WorkerHoldsTheBudget
<1>5. /\ m.hot \in Int /\ m.warm \in Int /\ m.maps \in Int /\ m.table \in Int
      /\ m.actual = m.hot + m.warm + m.maps + m.table
  BY <1>2, <1>3, WorkerHoldsTheBudget
<1>6. runtime = RuntimeMemory(a, r)
  BY DriverBlocks
<1>7. \A default :
        /\ Get(RuntimeMemory(a, r), "hot_kv_storage_bytes", default) = {m.hot}
        /\ Get(RuntimeMemory(a, r), "warm_kv_storage_bytes", default) = {m.warm}
        /\ Get(RuntimeMemory(a, r), "hot_to_warm_map_storage_bytes", default) = {m.maps}
        /\ Get(RuntimeMemory(a, r), "warm_slot_table_storage_bytes", default) = {m.table}
        /\ Get(RuntimeMemory(a, r), "actual_persistent_kv_bytes", default) = {m.actual}
  BY DEF RuntimeMemory, Get
<1>8. \A default :
        /\ Get(RuntimeMemory(a, r), "configured_total_kv_budget_bytes", default) = {total}
        /\ Get(RuntimeMemory(a, r), "budget_slack_bytes", default) = {total - m.actual}
  BY <1>1 DEF RuntimeMemory, Get
<1> HIDE DEF m, runtime
<1>9. row.hot_bytes = {m.hot} /\ row.warm_bytes = {m.warm}
  <2>1. PICK x, y :
          /\ row.hot_bytes = Get(runtime, "hot_kv_storage_bytes", x)
          /\ row.warm_bytes = Get(runtime, "warm_kv_storage_bytes", y)
    BY DEF ExtractRow, runtime
  <2> QED
    BY <1>6, <1>7, <2>1
<1>10. row.metadata_bytes = {m.maps + m.table}
  <2>1. PICK x, y :
          LET maps == Get(runtime, "hot_to_warm_map_storage_bytes", x)
              table == Get(runtime, "warm_slot_table_storage_bytes", y)
          IN row.metadata_bytes = IF Given(maps) \/ Given(table)
                                  THEN {OrZero(maps) + OrZero(table)} ELSE {}
    BY DEF ExtractRow, runtime
  <2> QED
    BY <1>6, <1>7, <2>1 DEF Given, OrZero, The
<1>11. row.total_persistent_kv_bytes = {m.actual}
  <2>1. PICK x :
          row.total_persistent_kv_bytes = Get(runtime, "actual_persistent_kv_bytes", x)
    BY DEF ExtractRow, runtime
  <2> QED
    BY <1>6, <1>7, <2>1
<1>12. /\ row.configured_kv_budget_bytes = {total}
       /\ row.budget_slack_bytes = {total - m.actual}
  <2>1. PICK x, y :
          /\ row.configured_kv_budget_bytes =
               Get(runtime, "configured_total_kv_budget_bytes", x)
          /\ row.budget_slack_bytes = Get(runtime, "budget_slack_bytes", y)
    BY DEF ExtractRow, runtime
  <2> QED
    BY <1>6, <1>8, <2>1
<1> HIDE DEF row
<1>13. SumMatchesTotal(row)
  BY <1>5, <1>9, <1>10, <1>11 DEF SumMatchesTotal, OrZero, Given, The
<1>14. ComputedSlack(row) = {total - m.actual}
  <2>1. row.configured_kv_budget_bytes \X row.total_persistent_kv_bytes =
          {<<total, m.actual>>}
    BY <1>11, <1>12
  <2>2. ComputedSlack(row) = {pair[1] - pair[2] : pair \in {<<total, m.actual>>}}
    BY <2>1 DEF ComputedSlack
  <2>3. {pair[1] - pair[2] : pair \in {<<total, m.actual>>}} = {total - m.actual}
    OBVIOUS
  <2> QED
    BY <2>2, <2>3
<1>15. m.actual \in Int /\ total - m.actual >= 0
  BY <1>1, <1>4, <1>5 DEF m
<1>16. WithinRecordedSlack(row)
  BY <1>12, <1>14, <1>15 DEF WithinRecordedSlack, Given
<1>17. PerBlock(l, a) \in Int
  BY DerivedCosts
<1>18. \A slack \in row.budget_slack_bytes : slack < PerBlock(l, a)
  BY <1>1, <1>4, <1>12, <1>15, <1>17 DEF m
<1> QED
  BY <1>13, <1>16, <1>18 DEF row
-----------------------------------------------------------------------------
-----------------------------------------------------------------------------
(* A plan the preflight lets pass brings the HOT pool to the start         *)
(* watermark, by the safety margin, without ever needing more than it has: *)
(* first turns and ballast fit side by side, and all complete blocks of    *)
(* the first turns fit the WARM pool together.  It says nothing of where   *)
(* demotion stops (see FeasibleRunConfirmsWarm).                           *)
THEOREM FeasiblePlanFits ==
  ASSUME NEW l, NEW a, Arguments(a), a.mixed, QualityAccepts(l, a), a.margin \in Nat,
         NEW plans, NEW hot \in Nat, FeasiblePlans(a, plans, {hot}),
         PlannedHot(plans) \in Nat, NEW used,
         used = PlannedHot(plans) + PlannedBallast(a, hot, PlannedHot(plans))
  PROVE  /\ used <= UsableHot(hot)
         /\ \A start \in a.start : (used - a.margin) * 100 >= start * UsableHot(hot)
         /\ PlannedComplete(plans) <= PoolBlocks(a)
<1> DEFINE turn1 == PlannedHot(plans)
           usable == UsableHot(hot)
           required == PlannedBallast(a, hot, turn1)
<1>1. usable \in Nat /\ turn1 \in Nat
  BY DEF UsableHot
<1>2. PICK start \in a.start : 0 <= start /\ start <= 100
  <2>1. PICK start \in a.start, stop \in a.stop :
          0 <= stop /\ stop < start /\ start <= 100
    BY DEF QualityAccepts, ThresholdsAccepted
  <2>2. start \in Int /\ stop \in Int
    BY DEF Arguments, Optional
  <2> QED
    BY <2>1, <2>2
<1>3. start \in 0 .. 100 /\ \A other \in a.start : other = start
  BY <1>2 DEF Arguments, Optional
<1>4. required = RequiredBallast(usable, start, a.margin, turn1)
  <2>1. (CHOOSE other \in a.start : TRUE) = start
    BY <1>2, <1>3
  <2> QED
    BY <2>1 DEF PlannedBallast
<1>5. turn1 <= usable
  BY DEF FeasiblePlans
<1>6. required <= usable - turn1
  <2>1. FeasibleBallast(a, hot, turn1)
    BY DEF FeasiblePlans
  <2> QED
    BY <1>5, <2>1 DEF FeasibleBallast
<1>7. used = turn1 + required
  OBVIOUS
<1> HIDE DEF usable, turn1
<1>8. used = turn1 + RequiredBallast(usable, start, a.margin, turn1)
  <2> HIDE DEF required
  <2> QED
    BY <1>4, <1>7
<1>9. (used - a.margin) * 100 >= start * usable
  BY <1>1, <1>3, <1>8, BallastReachesStart
<1>10. required \in Int
  <2>1. start * usable \in Int
    BY <1>1, <1>3
  <2>2. PressureTarget(usable, start) \in Int
    BY <2>1, Quotient DEF PressureTarget, CeilDivide
  <2> QED
    BY <1>1, <1>4, <2>2 DEF RequiredBallast
<1>11. used <= usable
  <2> HIDE DEF required
  <2> QED
    BY <1>1, <1>6, <1>7, <1>10
<1>12. PlannedComplete(plans) <= PoolBlocks(a)
  BY DEF FeasiblePlans
<1>13. \A other \in a.start : (used - a.margin) * 100 >= other * usable
  BY <1>3, <1>9
<1> QED
  BY <1>11, <1>12, <1>13 DEF usable

-----------------------------------------------------------------------------
\* What a run of these arguments leaves: a result for each planned question.
ResultOf(data, a, r) ==
  /\ DOMAIN r.sessions = DOMAIN PromptPlans(data, a)
  /\ \A i \in DOMAIN r.sessions :
       /\ r.sessions[i].gold = PromptPlans(data, a)[i].gold
       /\ r.sessions[i].complete \in Nat

\* Equal fingerprints are of the same questions, prompts and gold answers.
LEMMA SameFingerprint ==
  ASSUME NEW data, NEW a, NEW other, NEW b,
         QualityFingerprint(other, b) = QualityFingerprint(data, a)
  PROVE  /\ DOMAIN PromptPlans(other, b) = DOMAIN PromptPlans(data, a)
         /\ \A i \in DOMAIN PromptPlans(data, a) :
              PromptPlans(other, b)[i] = PromptPlans(data, a)[i]
<1> DEFINE mine == PromptPlans(data, a)
           theirs == PromptPlans(other, b)
<1>1. /\ [i \in DOMAIN theirs |-> theirs[i].turn1] = [i \in DOMAIN mine |-> mine[i].turn1]
      /\ other.test = data.test /\ other.turn2 = data.turn2
  BY DEF QualityFingerprint
<1>2. DOMAIN theirs = DOMAIN mine
  <2> DEFINE f == [i \in DOMAIN theirs |-> theirs[i].turn1]
             g == [i \in DOMAIN mine |-> mine[i].turn1]
  <2>1. DOMAIN f = DOMAIN theirs /\ DOMAIN g = DOMAIN mine
    OBVIOUS
  <2>2. f = g
    BY <1>1
  <2> HIDE DEF f, g, mine, theirs
  <2> QED
    BY <2>1, <2>2
<1>3. ASSUME NEW i \in DOMAIN mine PROVE theirs[i].turn1 = mine[i].turn1
  <2> HIDE DEF mine, theirs
  <2>1. [j \in DOMAIN theirs |-> theirs[j].turn1][i] = [j \in DOMAIN mine |-> mine[j].turn1][i]
    BY <1>1
  <2> QED
    BY <1>2, <1>3, <2>1
<1>4. ASSUME NEW d, NEW c, NEW i \in DOMAIN PromptPlans(d, c)
      PROVE  PromptPlans(d, c)[i] =
               [gold |-> d.test[i + 1].gold, turn1 |-> PromptPlans(d, c)[i].turn1,
                turn2 |-> d.turn2]
  BY <1>4 DEF PromptPlans, Chosen
<1>5. ASSUME NEW i \in DOMAIN mine PROVE theirs[i] = mine[i]
  <2>1. mine[i] = [gold |-> data.test[i + 1].gold, turn1 |-> mine[i].turn1,
                   turn2 |-> data.turn2]
    BY <1>4
  <2>2. theirs[i] = [gold |-> other.test[i + 1].gold, turn1 |-> theirs[i].turn1,
                     turn2 |-> other.turn2]
    BY <1>2, <1>4
  <2> HIDE DEF mine, theirs
  <2> QED
    BY <1>1, <1>3, <2>1, <2>2
<1> QED
  BY <1>2, <1>5

(* A mixed run that passes against a baseline is compared question by      *)
(* question: none is missing, both were asked with the same prompts and    *)
(* are judged by the same gold answer, every history was in WARM before    *)
(* its session resumed, and the pairs that count, of which there is one,   *)
(* are those whose answer was read from WARM.                              *)
THEOREM QualityPairsComplete ==
  ASSUME NEW l, NEW data, NEW a, a.mixed, NEW r, ResultOf(data, a, r),
         NEW other, NEW b, NEW q, ResultOf(other, b, q),
         QualityPassed(l, data, a, r, {[fingerprint |-> QualityFingerprint(other, b)]})
  PROVE  LET hot == Qualities(b, q.sessions)
             mix == Qualities(a, r.sessions)
         IN /\ DOMAIN hot = DOMAIN mix /\ Missing(hot, mix) = {}
            /\ \A i \in DOMAIN mix :
                 /\ PromptPlans(other, b)[i] = PromptPlans(data, a)[i]
                 /\ hot[i].gold = mix[i].gold /\ mix[i].confirmed
            /\ Paired(hot, mix) = {i \in DOMAIN mix : mix[i].hadWarm}
            /\ Paired(hot, mix) # {}
<1> DEFINE hot == Qualities(b, q.sessions)
           mix == Qualities(a, r.sessions)
<1>1. QualityFingerprint(other, b) = QualityFingerprint(data, a)
  BY DEF QualityPassed
<1>2. /\ DOMAIN PromptPlans(other, b) = DOMAIN PromptPlans(data, a)
      /\ \A i \in DOMAIN PromptPlans(data, a) :
           PromptPlans(other, b)[i] = PromptPlans(data, a)[i]
  BY <1>1, SameFingerprint
<1>3. DOMAIN hot = DOMAIN q.sessions /\ DOMAIN mix = DOMAIN r.sessions
  BY DEF Qualities
<1>4. DOMAIN hot = DOMAIN mix /\ DOMAIN mix = DOMAIN PromptPlans(data, a)
  BY <1>2, <1>3 DEF ResultOf
<1>5. \A i \in DOMAIN mix : hot[i].gold = mix[i].gold
  <2>1. ASSUME NEW i \in DOMAIN mix
        PROVE  /\ hot[i].gold = q.sessions[i].gold
               /\ mix[i].gold = r.sessions[i].gold
    BY <1>3, <1>4 DEF Qualities, SessionQuality
  <2>2. ASSUME NEW i \in DOMAIN mix PROVE q.sessions[i].gold = r.sessions[i].gold
    BY <1>2, <1>3, <1>4 DEF ResultOf
  <2> QED
    BY <2>1, <2>2
<1>6. ASSUME NEW i \in DOMAIN mix
      PROVE  /\ mix[i].confirmed
             /\ mix[i].exclusion = "none" <=> mix[i].hadWarm
  <2>1. CompleteBlocksAreWarm(r.sessions[i].complete, r.sessions[i].residency,
                              r.sessions[i].id, r.sessions[i].numBlocks)
    BY <1>3 DEF QualityPassed, RunErrors, CleanBeforeResume
  <2>2. r.sessions[i].complete > 0
    BY <2>1 DEF CompleteBlocksAreWarm
  <2>3. mix[i] = SessionQuality(TRUE, r.sessions[i])
    BY <1>3 DEF Qualities
  <2> HIDE DEF mix
  <2> DEFINE s == r.sessions[i]
             warm == CompleteBlocksAreWarm(s.complete, s.residency, s.id, s.numBlocks)
             hadWarm == HadWarmSlots(s.before, s.after)
  <2>4. /\ mix[i].confirmed = (TRUE /\ warm)
        /\ mix[i].hadWarm = hadWarm
        /\ mix[i].exclusion = ExclusionReason(s.complete, TRUE /\ warm, hadWarm)
    <3>1. /\ SessionQuality(TRUE, s).confirmed = (TRUE /\ warm)
          /\ SessionQuality(TRUE, s).hadWarm = hadWarm
          /\ SessionQuality(TRUE, s).exclusion =
               ExclusionReason(s.complete, TRUE /\ warm, hadWarm)
      BY Zenon DEF SessionQuality
    <3>2. mix[i] = SessionQuality(TRUE, s)
      BY <2>3
    <3> HIDE DEF s, warm, hadWarm
    <3> QED
      BY <3>1, <3>2, Zenon
  <2>5. ~(s.complete <= 0)
    BY <1>3, <2>2 DEF ResultOf, mix
  <2>6. mix[i].confirmed
    BY <2>1, <2>4
  <2>7. mix[i].exclusion = IF ~hadWarm THEN "no_resumed_mixed_read_step" ELSE "none"
    <3> HIDE DEF hadWarm
    <3> QED
      BY <2>1, <2>4, <2>5 DEF ExclusionReason
  <2>8. mix[i].hadWarm <=> hadWarm
    BY <2>4
  <2>9. mix[i].exclusion = "none" <=> hadWarm
    <3> HIDE DEF hadWarm
    <3>1. CASE hadWarm
      BY <2>7, <3>1
    <3>2. CASE ~hadWarm
      BY <2>7, <3>2
    <3> QED
      BY <3>1, <3>2
  <2> QED
    BY <2>6, <2>8, <2>9
<1>7. Paired(hot, mix) = {i \in DOMAIN mix : mix[i].hadWarm}
  BY <1>4, <1>6 DEF Paired
<1>8. Paired(hot, mix) # {}
  <2>1. Summary(TRUE, mix).eligible # 0
    BY DEF QualityPassed, RunErrors, SummaryRefused
  <2>2. Cardinality(Eligible(TRUE, mix)) # 0
    BY <2>1 DEF Summary
  <2>3. Eligible(TRUE, mix) # {}
    BY <2>2, FS_EmptySet
  <2> QED
    BY <1>4, <2>3 DEF Eligible, Paired
<1>9. Missing(hot, mix) = {}
  BY <1>4 DEF Missing
<1> QED
  BY <1>2, <1>4, <1>5, <1>6, <1>7, <1>8, <1>9
=============================================================================
