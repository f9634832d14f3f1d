------------------------------ MODULE KVCapacity ------------------------------
(***************************************************************************)
(* The arithmetic by which the experiments size the two pools and foresee  *)
(* demotion, before an engine exists: the HOT and WARM bytes of a total    *)
(* budget (run_qwen_bailian_replay.py), the watermarks in blocks and the   *)
(* pressure of a peak (analyze_qwen_bailian_workload.py), and the ballast  *)
(* that is to push the sessions of the resume-quality run to WARM          *)
(* (hkv_gsm8k.py).  Utilizations are whole percents; the floating-point    *)
(* rounding of the scripts, which UTILIZATION_EPS hides, is left out.      *)
(***************************************************************************)
EXTENDS Integers

CeilDivide(n, d) == (n + d - 1) \div d

-----------------------------------------------------------------------------
(* derive_persistent_kv_budget.                                            *)

\* A layout gives layers, heads, headDim, blockSize, alignment (tokens of a
\* block table row) and the bytes of an element: hot, warm, scale and int.
HotBytesPerBlock(l) == l.layers * 2 * l.blockSize * l.heads * l.headDim * l.hot

WarmBytesPerSlot(l) ==
  l.layers * 2 * l.blockSize * l.heads * (l.headDim + l.scale) * l.warm

SlotTableBytes(l, maxLen, maxSeqs) ==
  LET perAlignment == l.alignment \div l.blockSize
  IN  maxSeqs * CeilDivide(CeilDivide(maxLen, l.blockSize), perAlignment)
        * perAlignment * l.int

\* Bytes that do not depend on the number of HOT blocks: the WARM pool and the
\* slot table, in mixed mode only.
FixedBytes(l, mixed, pool, maxLen, maxSeqs) ==
  IF mixed THEN pool * WarmBytesPerSlot(l) + SlotTableBytes(l, maxLen, maxSeqs) ELSE 0

\* A HOT block comes with its entries in the HOT-to-WARM map.
BytesPerBudgetedBlock(l, mixed) ==
  HotBytesPerBlock(l) + (IF mixed THEN l.layers * l.int ELSE 0)

DerivedBlocks(total, fixed, perBlock) == (total - fixed) \div perBlock

Refused(total, fixed, perBlock) ==
  fixed >= total \/ DerivedBlocks(total, fixed, perBlock) <= 0

ActualBytes(total, fixed, perBlock) ==
  DerivedBlocks(total, fixed, perBlock) * perBlock + fixed

BudgetSlack(total, fixed, perBlock) == total - ActualBytes(total, fixed, perBlock)

RoundingTolerance(perBlock) == perBlock - 1

\* equal_memory_capacity_table: what a mixed pool holds in the same budget.
LogicalBlocks(total, fixed, perBlock, pool) ==
  DerivedBlocks(total, fixed, perBlock) + pool

-----------------------------------------------------------------------------
(* The watermarks in blocks and policy_aware_pressure.                     *)

HotStartThreshold(hot, start) ==
  IF hot <= 0 \/ start <= 0 THEN 0
  ELSE IF start >= 100 THEN hot ELSE CeilDivide(hot * start, 100)

HotStopTarget(hot, stop) ==
  IF hot <= 0 \/ stop <= 0 THEN 0
  ELSE IF stop >= 100 THEN hot ELSE (hot * stop) \div 100

PolicyAwarePressure(peak, hot, pool, start, stop, allHot) ==
  LET target == HotStopTarget(hot, stop)
      toStop == IF peak > target THEN peak - target ELSE 0
      most == IF toStop < pool THEN toStop ELSE pool
  IN  [start |-> HotStartThreshold(hot, start), target |-> target,
       demote |-> toStop, fits |-> toStop <= pool,
       demotable |-> most, after |-> peak - most,
       starts |-> peak >= HotStartThreshold(hot, start)
                    /\ HotStartThreshold(hot, start) > 0,
       beyondAllHot |-> peak > allHot, beyondMixed |-> peak > hot + pool]

-----------------------------------------------------------------------------
(* plan_ballast_allocation.                                                *)

\* demotion_start_hot_blocks: the same threshold over the usable blocks, that
\* is without the null block of the pool.
PressureTarget(usable, start) == CeilDivide(start * usable, 100)

RequiredBallast(usable, start, margin, turn1) ==
  IF turn1 < PressureTarget(usable, start) + margin
  THEN PressureTarget(usable, start) + margin - turn1 ELSE 0

\* divide_blocks_across_sessions: the remainder goes to the first ones.
BallastShare(blocks, requests, index) ==
  blocks \div requests + (IF index < blocks % requests THEN 1 ELSE 0)
=============================================================================
