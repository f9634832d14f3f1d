---------------------------- MODULE ResumePreflight ----------------------------
(***************************************************************************)
(* The resume-quality experiment plans its ballast (hkv_gsm8k.py) for a    *)
(* scheduler that demotes by DemotionPolicy: after turn 1 the evaluated    *)
(* sessions are idle, the planned ballast requests take their blocks, and  *)
(* the run waits until every complete block of every evaluated session is  *)
(* WARM.  A refused preflight starts no engine.                            *)
(*                                                                         *)
(* A session with no complete last block has one partial block, which      *)
(* DemotionPolicy counts apart; of a ballast request, whose blocks are all *)
(* complete, the last one is counted so.                                   *)
(***************************************************************************)
EXTENDS DemotionPolicy, KVCapacity

CONSTANTS Scored,          \* the evaluated sessions; the others are ballast
          CompleteOf(_),   \* complete_historical_blocks of an evaluated one
          Margin           \* --ballast-safety-margin-blocks

Ballast == Session \ Scored

-----------------------------------------------------------------------------
(* build_capacity_report.                                                  *)

TotalComplete == MapThenSumSet(CompleteOf, Scored)
TotalHotTurn1 == TotalComplete + Cardinality(Scored)

Required == RequiredBallast(HotBlocks, Start, Margin, TotalHotTurn1)

PlannedBlocks(b) ==
  BallastShare(Required, Cardinality(Ballast), Cardinality({c \in Ballast : c < b}))

Feasible ==
  /\ \A s \in Scored : CompleteOf(s) > 0
  /\ TotalHotTurn1 <= HotBlocks /\ TotalComplete <= WarmSlots
  /\ Ballast # {} /\ Required <= HotBlocks - TotalHotTurn1

-----------------------------------------------------------------------------
(* wait_for_turn1 is over; run_ballast_session takes the planned blocks.   *)

PreflightInit ==
  /\ phase = [s \in Session |-> IF s \in Scored THEN "IDLE" ELSE "CLOSED"]
  /\ tier = [s \in Session |-> "HOT"]
  /\ full = [s \in Session |-> IF s \in Scored THEN CompleteOf(s) ELSE 0]
  /\ order = SetToSortSeq(Scored, <) \o SetToSortSeq(Ballast, <)
  /\ wish = [s \in Session |-> "NOTHING"]
  /\ pend = [s \in Session |-> NoId]
  /\ others = FALSE /\ flight = <<>> /\ toFree = {}
  /\ warm = [s \in Session |-> 0]
  /\ failures = 0 /\ cooldown = 0
  /\ probeRequired = FALSE /\ probe = NoId

BallastStep(b) ==
  \/ PlannedBlocks(b) > 0 /\ Open(b)
  \/ full[b] < PlannedBlocks(b) - 1 /\ Grow(b)
  \/ full[b] >= PlannedBlocks(b) - 1 /\ EndTurn(b)

BallastHeld ==
  \A b \in Ballast : PlannedBlocks(b) > 0 =>
    phase[b] = "IDLE" /\ full[b] + warm[b] = PlannedBlocks(b) - 1

PreflightNext ==
  \/ Feasible /\ \E b \in Ballast : BallastStep(b)
  \/ Schedule \/ Execute \/ Update

PreflightSpec == PreflightInit /\ [][PreflightNext]_vars

-----------------------------------------------------------------------------
(* "can_satisfy_per_session_warm_confirmation" is true whenever the report *)
(* is feasible: once the ballast holds its blocks and the scheduler has    *)
(* nothing more to demote, every evaluated session is WARM.                *)
FeasibleRunConfirmsWarm ==
  Feasible /\ BallastHeld /\ flight = <<>> /\ cooldown = 0 /\ Planned = <<>> =>
    \A s \in Scored : tier[s] = "WARM"
=============================================================================
