------------------------------- MODULE SmokeRun -------------------------------
(***************************************************************************)
(* One run of run_hkv_warm_smoke.py: a session of three turns beside a     *)
(* request that keeps the engine stepping.  After each of the first two    *)
(* turns the driver polls the worker until the history is in WARM, or      *)
(* gives up after two seconds and goes on; at the end it asserts on the    *)
(* snapshots it took.  Nothing else in the script has a timeout.           *)
(*                                                                         *)
(* The engine is reduced to what the snapshots show: the WARM residency of *)
(* the session, the null blocks of its block table, and its length.        *)
(***************************************************************************)
EXTENDS Integers, FiniteSets

VARIABLES
  tiers,               \* --mode mixed, not all-hot
  turn, answering,     \* turns yielded by inputs(); the engine works on one
  output,              \* the unread output: "none", "part" or "end"
  residency, nulls,    \* WARM blocks; null blocks of the worker's table
  request, keepalive,  \* "live" or "gone"; the keepalive "running" or "over"
  place, current,      \* where the driver is; the output it handles
  demotion, resumed, second_demotion, second_resumed, after_release,
  observed, gaveUp,    \* turns with an output_counts above 0; a poll timed out
  dead, shut, judged   \* the engine died; it was shut down; the verdict

smokeEngine == <<turn, answering, output, residency, nulls, request, keepalive>>
snapshots == <<demotion, resumed, second_demotion, second_resumed, after_release>>
smokeVars == <<tiers, smokeEngine, place, current, snapshots, observed, gaveUp,
               dead, shut, judged>>

\* Complete blocks, and all blocks, of 37, 72 and 75 computed tokens.
CompleteAfter == <<2, 4, 4>>
TableAfter == <<3, 5, 5>>
\* Blocks of the table when the first output of a turn is made.
TableAtResume == <<3, 4, 5>>

SmokeInit ==
  /\ tiers \in BOOLEAN
  /\ turn = 0 /\ answering = FALSE /\ output = "none"
  /\ residency = {} /\ nulls = {} /\ request = "live" /\ keepalive = "running"
  /\ place = "reading" /\ current = "none"
  /\ demotion = <<>> /\ resumed = <<>> /\ second_demotion = <<>>
  /\ second_resumed = <<>> /\ after_release = <<>>
  /\ observed = {} /\ gaveUp = FALSE
  /\ dead = FALSE /\ shut = FALSE /\ judged = "no"

-----------------------------------------------------------------------------
(* inputs(): a turn is yielded when the driver has set its event.          *)

MayYield ==
  \/ turn = 0
  \/ turn = 1 /\ demotion # <<>>
  \/ turn = 2 /\ second_demotion # <<>>

\* The table is rebuilt when the turn is scheduled.
Yield ==
  /\ ~dead /\ place = "reading" /\ MayYield
  /\ turn' = turn + 1 /\ answering' = TRUE /\ nulls' = residency
  /\ UNCHANGED <<tiers, output, residency, request, keepalive, place, current,
                 snapshots, observed, gaveUp, dead, shut, judged>>

\* After turn_three_observed the stream ends, and with it the request.
StreamOver ==
  /\ ~dead /\ request = "live" /\ 3 \in observed /\ place = "reading"
  /\ output = "none" /\ ~answering /\ current = "end"
  /\ request' = "gone"
  /\ UNCHANGED <<tiers, turn, answering, output, residency, nulls, keepalive,
                 place, current, snapshots, observed, gaveUp, dead, shut, judged>>

-----------------------------------------------------------------------------
(* The engine.                                                             *)

\* Turns 1 and 3 generate one token, turn 2 several; unread outputs merge.
Part ==
  /\ ~dead /\ answering /\ turn = 2 /\ output = "none" /\ output' = "part"
  /\ UNCHANGED <<tiers, turn, answering, residency, nulls, request, keepalive, place,
                 current, snapshots, observed, gaveUp, dead, shut, judged>>

Answer ==
  /\ ~dead /\ answering /\ output' = "end" /\ answering' = FALSE
  /\ UNCHANGED <<tiers, turn, residency, nulls, request, keepalive, place, current,
                 snapshots, observed, gaveUp, dead, shut, judged>>

\* Idle long enough, and the engine is stepping: all complete blocks go.
MoveToWarm ==
  /\ ~dead /\ tiers /\ keepalive = "running" /\ request = "live"
  /\ turn > 0 /\ ~answering /\ residency # 0 .. CompleteAfter[turn] - 1
  /\ residency' = 0 .. CompleteAfter[turn] - 1
  /\ UNCHANGED <<tiers, turn, answering, output, nulls, request, keepalive, place,
                 current, snapshots, observed, gaveUp, dead, shut, judged>>

\* A finished request gives its slots back in the next step.
GiveBack ==
  /\ ~dead /\ request = "gone" /\ residency # {}
  /\ residency' = {} /\ nulls' = {}
  /\ UNCHANGED <<tiers, turn, answering, output, request, keepalive, place, current,
                 snapshots, observed, gaveUp, dead, shut, judged>>

\* The keepalive has generated its 512 tokens.
KeepaliveEnds ==
  /\ keepalive = "running" /\ keepalive' = "over"
  /\ UNCHANGED <<tiers, turn, answering, output, residency, nulls, request, place,
                 current, snapshots, observed, gaveUp, dead, shut, judged>>

SmokeEngineDies ==
  /\ ~dead /\ ~shut /\ dead' = TRUE
  /\ UNCHANGED <<tiers, smokeEngine, place, current, snapshots, observed, gaveUp,
                 shut, judged>>

-----------------------------------------------------------------------------
(* run: the loop over the outputs.                                         *)

Inspect ==
  [warm |-> residency, null |-> nulls,
   len |-> IF request = "gone" THEN 0
           ELSE IF answering THEN TableAtResume[turn] ELSE TableAfter[turn]]

ReadSmoke ==
  /\ ~dead /\ place = "reading" /\ output # "none"
  /\ output' = "none" /\ current' = output
  /\ observed' = observed \cup {turn}
  /\ place' = IF turn = 1 THEN "demoting" ELSE "resumed"
  /\ UNCHANGED <<tiers, turn, answering, residency, nulls, request, keepalive,
                 snapshots, gaveUp, dead, shut, judged>>

\* The first output of turn 2 or 3 is followed by an inspection.
InspectResumed ==
  /\ ~dead /\ place = "resumed"
  /\ resumed' = IF turn = 2 /\ resumed = <<>> THEN Inspect ELSE resumed
  /\ second_resumed' = IF turn = 3 /\ second_resumed = <<>> THEN Inspect
                       ELSE second_resumed
  /\ place' = IF turn = 2 /\ current = "end" THEN "demoting" ELSE "reading"
  /\ UNCHANGED <<tiers, smokeEngine, current, demotion, second_demotion,
                 after_release, observed, gaveUp, dead, shut, judged>>

\* Mutant: both polls wait for two blocks.
AnyTwoBlocks == Cardinality(residency) >= 2

\* The predicates of the two polls.  The second one observed from the first.
Demoted ==
  IF turn # 2 THEN Cardinality(residency) >= 2
  ELSE Cardinality(residency) > Cardinality(demotion.warm)

\* poll_hkv_state returns when the predicate holds, or with the last state
\* when it has waited long enough; in all-HOT mode the driver just inspects.
PollEnds ==
  /\ ~dead /\ place = "demoting"
  /\ gaveUp' = (gaveUp \/ (tiers /\ ~Demoted))
  /\ demotion' = IF turn = 1 THEN Inspect ELSE demotion
  /\ second_demotion' = IF turn = 2 THEN Inspect ELSE second_demotion
  /\ place' = "reading"
  /\ UNCHANGED <<tiers, smokeEngine, current, resumed, second_resumed,
                 after_release, observed, dead, shut, judged>>

\* finally: the keepalive is cancelled, then the release is polled for.
LoopEnds ==
  /\ ~dead /\ place = "reading" /\ request = "gone"
  /\ place' = "releasing" /\ keepalive' = "over"
  /\ UNCHANGED <<tiers, turn, answering, output, residency, nulls, request, current,
                 snapshots, observed, gaveUp, dead, shut, judged>>

ReleaseSeen ==
  /\ ~dead /\ place = "releasing"
  /\ after_release' = Inspect
  /\ gaveUp' = (gaveUp \/ (tiers /\ residency # {}))
  /\ place' = "judging" /\ shut' = TRUE
  /\ UNCHANGED <<tiers, smokeEngine, current, demotion, resumed, second_demotion,
                 second_resumed, observed, dead, judged>>

\* Every call of a dead engine raises, those of the finally clause too, and
\* with them the call of engine.shutdown is skipped.
SmokeRaises ==
  /\ dead /\ place \notin {"judging", "over"}
  /\ place' = "over" /\ judged' = "error" /\ keepalive' = "over"
  /\ UNCHANGED <<tiers, turn, answering, output, residency, nulls, request, current,
                 snapshots, observed, gaveUp, dead, shut>>

-----------------------------------------------------------------------------
(* The assertions.                                                         *)

LifecycleComplete ==
  /\ demotion # <<>> /\ resumed # <<>> /\ second_demotion # <<>>
  /\ second_resumed # <<>> /\ 3 \in observed

HotBlocksOf(snapshot) == (0 .. snapshot.len - 1) \ snapshot.null

TiersAsserted ==
  LET first == demotion.warm
      newly == second_demotion.warm \ first
  IN IF tiers
     THEN /\ Cardinality(first) >= 2
          /\ first \subseteq resumed.null /\ resumed.len > Cardinality(first)
          /\ newly # {} /\ newly \subseteq HotBlocksOf(resumed)
          /\ Cardinality(second_demotion.warm) > Cardinality(first)
          /\ first \subseteq second_demotion.warm
          /\ first \subseteq second_demotion.null
          /\ first \cup newly \subseteq second_resumed.null
          /\ first \subseteq second_resumed.warm
          /\ (0 .. second_resumed.len - 1) \ second_demotion.warm
               \subseteq HotBlocksOf(second_resumed)
          /\ after_release.warm = {}
     ELSE /\ first = {} /\ resumed.warm = {}
          /\ second_demotion.warm = {} /\ second_resumed.warm = {}

\* The tokens may differ from those of the baseline: WARM blocks are rounded.
JudgeSmoke ==
  /\ place = "judging" /\ place' = "over"
  /\ \E sameTokens \in BOOLEAN :
       judged' = IF ~LifecycleComplete THEN "error"
                 ELSE IF ~TiersAsserted THEN "asserted"
                 ELSE IF ~sameTokens THEN "mismatch" ELSE "passed"
  /\ UNCHANGED <<tiers, smokeEngine, current, snapshots, observed, gaveUp, dead, shut>>

SmokeOver == place = "over" /\ UNCHANGED smokeVars

SmokeEngine == Answer \/ GiveBack
SmokeDriver ==
  \/ Yield \/ StreamOver \/ ReadSmoke \/ InspectResumed \/ PollEnds
  \/ LoopEnds \/ ReleaseSeen \/ SmokeRaises \/ JudgeSmoke
SmokeNext ==
  \/ SmokeEngine \/ SmokeDriver \/ Part
  \/ MoveToWarm \/ KeepaliveEnds \/ SmokeEngineDies \/ SmokeOver

\* The event loop runs, the clock reaches the end of a poll, and a turn that
\* was sent is answered to its end: the script waits for it without a timeout.
SmokeFairness == WF_smokeVars(SmokeEngine) /\ WF_smokeVars(SmokeDriver)

-----------------------------------------------------------------------------
(* Properties.                                                             *)

\* An assertion on the tiers fails only if a poll gave up before: with every
\* poll satisfied, the snapshots taken at any moment between the turns show
\* the demotions, the null blocks and the release the script asserts.
SmokeAssertsWhatItSaw == judged = "asserted" => gaveUp
=============================================================================
