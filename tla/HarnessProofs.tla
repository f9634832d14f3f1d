---------------------------- MODULE HarnessProofs -----------------------------
(***************************************************************************)
(* The programs of the harness that run for hours, wait and are killed:    *)
(* for any number of sessions, turns, examples and kills, what one of them *)
(* reports at its end is what happened.                                    *)
(***************************************************************************)
EXTENDS TraceReplay, ResumeQuality, SmokeRun, ResumableEvaluation,
        SubsequenceProofs

-----------------------------------------------------------------------------
(* The smoke run.                                                          *)

SmokeSpec == SmokeInit /\ [][SmokeNext]_smokeVars

\* The turn that was sent last has been answered and the answer was read.
Quiet == ~answering /\ output = "none"

Snapshot3 == [warm : SUBSET (0 .. 3), null : SUBSET (0 .. 3), len : 0 .. 5]

SmokeTyped ==
  /\ tiers \in BOOLEAN /\ answering \in BOOLEAN /\ gaveUp \in BOOLEAN
  /\ turn \in 0 .. 3 /\ output \in {"none", "part", "end"}
  /\ residency \in {{}, 0 .. 1, 0 .. 3} /\ nulls \in {{}, 0 .. 1, 0 .. 3}
  /\ request \in {"live", "gone"} /\ observed \subseteq 1 .. 3
  /\ place \in {"reading", "resumed", "demoting", "releasing", "judging", "over"}
  /\ \A snapshot \in {demotion, resumed, second_demotion, second_resumed, after_release} :
       snapshot \in Snapshot3 \cup {<<>>}

\* How far the driver is with the turn of the moment: it goes on to the next
\* one when nothing of this one is left to read.
SmokeProgress ==
  /\ output = "end" => ~answering
  /\ turn # 2 => output # "part"
  /\ turn = 0 => /\ Quiet /\ residency = {} /\ demotion = <<>>
                 /\ place \in {"reading", "over"}
  /\ turn <= 1 => place # "resumed" /\ resumed = <<>> /\ second_demotion = <<>>
  /\ turn = 1 /\ (place = "demoting" \/ demotion # <<>>) => Quiet
  /\ turn >= 2 => demotion # <<>>
  /\ turn = 2 /\ place = "resumed" /\ current = "end" => Quiet
  /\ turn = 2 /\ (place = "demoting" \/ second_demotion # <<>>) => Quiet /\ resumed # <<>>
  /\ turn = 3 => place # "demoting" /\ second_demotion # <<>> /\ resumed # <<>>
  /\ turn = 3 /\ (place = "resumed" \/ second_resumed # <<>>) => Quiet
  /\ second_resumed # <<>> => turn = 3
  /\ 3 \in observed => turn = 3 /\ (place \in {"resumed", "over"} \/ second_resumed # <<>>)
  /\ request = "gone" => second_resumed # <<>> /\ place # "resumed"
  /\ place \in {"releasing", "judging"} => request = "gone"
  /\ place = "judging" => after_release # <<>>

\* What the pool, the worker's table and the snapshots show while no poll has
\* given up.
TiersShown ==
  tiers /\ ~gaveUp =>
    /\ request = "live" =>
         /\ turn = 1 => residency \in {{}, 0 .. 1} /\ nulls = {}
         /\ turn = 1 /\ demotion # <<>> => residency = 0 .. 1
         /\ turn = 2 => residency \in {0 .. 1, 0 .. 3} /\ nulls = 0 .. 1
         /\ turn = 2 /\ second_demotion # <<>> => residency = 0 .. 3
         /\ turn = 3 => residency = 0 .. 3 /\ nulls = 0 .. 3
    /\ demotion # <<>> => demotion.warm = 0 .. 1
    /\ resumed # <<>> => resumed.null = 0 .. 1 /\ resumed.len \in 4 .. 5
    /\ second_demotion # <<>> => second_demotion.warm = 0 .. 3 /\ second_demotion.null = 0 .. 1
    /\ second_resumed # <<>> => /\ second_resumed.warm = 0 .. 3 /\ second_resumed.null = 0 .. 3
                                /\ second_resumed.len = 5
    /\ after_release # <<>> => after_release.warm = {}

NothingShown ==
  ~tiers =>
    /\ residency = {}
    /\ \A snapshot \in {demotion, resumed, second_demotion, second_resumed} :
         snapshot # <<>> => snapshot.warm = {}

SmokeInvariant ==
  SmokeTyped /\ SmokeProgress /\ TiersShown /\ NothingShown /\ SmokeAssertsWhatItSaw

\* What a snapshot of a turn shows.
LEMMA InspectShows ==
  ASSUME SmokeTyped, turn \in 1 .. 3
  PROVE  /\ Inspect \in Snapshot3 /\ Inspect # <<>>
         /\ Inspect.warm = residency /\ Inspect.null = nulls
         /\ request = "live" /\ turn >= 2 => Inspect.len \in 4 .. 5
         /\ request = "live" /\ turn = 3 => Inspect.len = 5
<1> DEFINE length == IF request = "gone" THEN 0
                     ELSE IF answering THEN TableAtResume[turn] ELSE TableAfter[turn]
<1>1. Inspect = [warm |-> residency, null |-> nulls, len |-> length]
  BY DEF Inspect
<1>2. /\ length \in 0 .. 5
      /\ request = "live" /\ turn >= 2 => length \in 4 .. 5
      /\ request = "live" /\ turn = 3 => length = 5
  BY DEF SmokeTyped, TableAtResume, TableAfter
<1> HIDE DEF length
<1>3. residency \in SUBSET (0 .. 3) /\ nulls \in SUBSET (0 .. 3)
  BY DEF SmokeTyped
<1>4. Inspect \in Snapshot3
  BY <1>1, <1>2, <1>3 DEF Snapshot3
<1>5. Inspect # <<>>
  <2>1. "len" \in DOMAIN Inspect /\ DOMAIN <<>> = {}
    BY <1>1
  <2> QED BY <2>1
<1> QED BY <1>1, <1>2, <1>4, <1>5

LEMMA WarmSizes ==
  Cardinality({}) = 0 /\ Cardinality(0 .. 1) = 2 /\ Cardinality(0 .. 3) = 4
<1> DEFINE size(a, b) == IF a > b THEN 0 ELSE b - a + 1
<1>1. \A a, b \in Int : Cardinality(a .. b) = size(a, b)
  BY FS_Interval
<1>2. size(0, 1) = 2 /\ size(0, 3) = 4 /\ 0 \in Int /\ 1 \in Int /\ 3 \in Int
  OBVIOUS
<1> HIDE DEF size
<1>4. Cardinality(0 .. 1) = 2 /\ Cardinality(0 .. 3) = 4
  BY <1>1, <1>2, Zenon
<1>3. Cardinality({}) = 0
  BY FS_EmptySet
<1> QED BY <1>3, <1>4

LEMMA SmokeInits == SmokeInit => SmokeInvariant
<1> SUFFICES ASSUME SmokeInit PROVE SmokeInvariant
  OBVIOUS
<1> USE DEF SmokeInit
<1>1. SmokeTyped
  <2>1. 0 \in 0 .. 3 /\ {} \subseteq 1 .. 3
    OBVIOUS
  <2> QED BY <2>1, Zenon DEF SmokeTyped
<1>4. SmokeProgress
  BY DEF SmokeProgress, Quiet
<1>5. SmokeAssertsWhatItSaw
  BY DEF SmokeAssertsWhatItSaw
<1>2. TiersShown
  BY DEF SmokeInit, TiersShown
<1>3. NothingShown
  BY DEF SmokeInit, NothingShown
<1> QED BY <1>1, <1>2, <1>3, <1>4, <1>5 DEF SmokeInvariant

\* Every step keeps the types and leaves the driver where it can be.
LEMMA SmokeProgresses ==
  ASSUME SmokeTyped, SmokeProgress, [SmokeNext]_smokeVars
  PROVE  SmokeTyped' /\ SmokeProgress'
<1> USE DEF SmokeTyped, SmokeProgress, Quiet, smokeEngine, snapshots
<1>1. CASE Answer
  <2>1. SmokeTyped'
    <3> HIDE DEF SmokeProgress
    <3> QED BY <1>1 DEF Answer
  <2>2. SmokeProgress'
    BY <1>1 DEF Answer
  <2> QED BY <2>1, <2>2
<1>2. CASE GiveBack
  BY <1>2 DEF GiveBack
<1>3. CASE Yield
  BY <1>3 DEF Yield, MayYield
<1>4. CASE StreamOver
  BY <1>4 DEF StreamOver
<1>5. CASE ReadSmoke
  BY <1>5 DEF ReadSmoke
<1>6. CASE InspectResumed
  BY <1>6, InspectShows DEF InspectResumed
<1>7. CASE PollEnds
  BY <1>7, InspectShows DEF PollEnds
<1>8. CASE LoopEnds
  BY <1>8 DEF LoopEnds
<1>9. CASE ReleaseSeen
  BY <1>9, InspectShows DEF ReleaseSeen
<1>10. CASE SmokeRaises
  BY <1>10 DEF SmokeRaises
<1>11. CASE JudgeSmoke
  BY <1>11 DEF JudgeSmoke
<1>12. CASE Part
  BY <1>12 DEF Part
<1>13. CASE MoveToWarm
  BY <1>13 DEF MoveToWarm, CompleteAfter
<1>14. CASE KeepaliveEnds
  BY <1>14 DEF KeepaliveEnds
<1>15. CASE SmokeEngineDies
  BY <1>15 DEF SmokeEngineDies
<1>16. CASE UNCHANGED smokeVars
  BY <1>16 DEF smokeVars
<1> QED BY <1>1, <1>2, <1>3, <1>4, <1>5, <1>6, <1>7, <1>8, <1>9, <1>10, <1>11,
           <1>12, <1>13, <1>14, <1>15, <1>16
        DEF SmokeNext, SmokeEngine, SmokeDriver, SmokeOver

\* While no poll has given up, the snapshots of mixed mode show the tiers.
LEMMA TiersStayShown ==
  ASSUME SmokeTyped, SmokeProgress, TiersShown, [SmokeNext]_smokeVars
  PROVE  TiersShown'
<1> USE DEF smokeEngine, snapshots
<1>1. CASE Answer
  BY <1>1 DEF Answer, TiersShown
<1>2. CASE GiveBack
  BY <1>2 DEF GiveBack, TiersShown
<1>3. CASE Yield
  BY <1>3 DEF Yield, MayYield, TiersShown, SmokeTyped, SmokeProgress
<1>4. CASE StreamOver
  BY <1>4 DEF StreamOver, TiersShown
<1>5. CASE ReadSmoke
  BY <1>5 DEF ReadSmoke, TiersShown
<1>6. CASE InspectResumed
  BY <1>6, InspectShows DEF InspectResumed, TiersShown, SmokeTyped, SmokeProgress
<1>7. CASE PollEnds
  <2>1. turn \in 1 .. 3 /\ UNCHANGED <<tiers, turn, residency, nulls, request>>
    BY <1>7 DEF PollEnds, SmokeTyped, SmokeProgress
  <2>2. tiers /\ ~gaveUp' => ~gaveUp /\ Demoted
    BY <1>7 DEF PollEnds, SmokeTyped
  <2>3. /\ residency = {} => Cardinality(residency) = 0
        /\ residency = 0 .. 1 => Cardinality(residency) = 2
    BY WarmSizes, Zenon
  <2>4. demotion.warm = 0 .. 1 => Cardinality(demotion.warm) = 2
    BY WarmSizes, Zenon
  <2>5. ASSUME tiers, ~gaveUp', turn = 1, request = "live" PROVE residency = 0 .. 1
    <3>1. Cardinality(residency) >= 2 /\ residency \in {{}, 0 .. 1}
      BY <2>2, <2>5 DEF Demoted, TiersShown
    <3> QED BY <2>3, <3>1
  <2>6. ASSUME tiers, ~gaveUp', turn = 2, request = "live" PROVE residency = 0 .. 3
    <3>1. Cardinality(residency) > 2 /\ residency \in {0 .. 1, 0 .. 3}
      BY <2>2, <2>4, <2>6 DEF Demoted, TiersShown, SmokeProgress
    <3> QED BY <2>3, <3>1
  <2> QED BY <1>7, <2>1, <2>2, <2>5, <2>6, InspectShows
          DEF PollEnds, TiersShown, SmokeTyped, SmokeProgress
<1>8. CASE LoopEnds
  BY <1>8 DEF LoopEnds, TiersShown
<1>9. CASE ReleaseSeen
  <2>1. turn = 3 /\ UNCHANGED <<tiers, turn, residency, nulls, request>>
    BY <1>9 DEF ReleaseSeen, SmokeTyped, SmokeProgress
  <2>3. tiers /\ ~gaveUp' => ~gaveUp /\ residency = {}
    BY <1>9 DEF ReleaseSeen
  <2>2. tiers /\ ~gaveUp' => ~gaveUp /\ Inspect.warm = {}
    BY <2>1, <2>3, InspectShows
  <2> QED BY <1>9, <2>1, <2>2 DEF ReleaseSeen, TiersShown
<1>10. CASE SmokeRaises
  BY <1>10 DEF SmokeRaises, TiersShown
<1>11. CASE JudgeSmoke
  BY <1>11 DEF JudgeSmoke, TiersShown
<1>12. CASE Part
  BY <1>12 DEF Part, TiersShown
<1>13. CASE MoveToWarm
  BY <1>13 DEF MoveToWarm, CompleteAfter, TiersShown, SmokeTyped, SmokeProgress, Quiet
<1>14. CASE KeepaliveEnds
  BY <1>14 DEF KeepaliveEnds, TiersShown
<1>15. CASE SmokeEngineDies
  BY <1>15 DEF SmokeEngineDies, TiersShown
<1>16. CASE UNCHANGED smokeVars
  BY <1>16 DEF smokeVars, TiersShown
<1> QED BY <1>1, <1>2, <1>3, <1>4, <1>5, <1>6, <1>7, <1>8, <1>9, <1>10, <1>11,
           <1>12, <1>13, <1>14, <1>15, <1>16
        DEF SmokeNext, SmokeEngine, SmokeDriver, SmokeOver

\* In all-HOT mode they never show a WARM block.
LEMMA NothingStaysShown ==
  ASSUME SmokeTyped, SmokeProgress, NothingShown, [SmokeNext]_smokeVars
  PROVE  NothingShown'
<1> SUFFICES ASSUME ~tiers, tiers' = tiers PROVE NothingShown'
  BY DEF NothingShown, SmokeNext, SmokeEngine, SmokeDriver, SmokeOver, Answer, GiveBack,
         Yield, StreamOver, ReadSmoke, InspectResumed, PollEnds, LoopEnds, ReleaseSeen,
         SmokeRaises, JudgeSmoke, Part, MoveToWarm, KeepaliveEnds, SmokeEngineDies, smokeVars
<1>1. residency = {}
  BY DEF NothingShown
<1>2. turn \in 1 .. 3 => Inspect.warm = {}
  BY <1>1, InspectShows
<1>3. CASE InspectResumed
  BY <1>1, <1>2, <1>3 DEF InspectResumed, NothingShown, smokeEngine, SmokeTyped, SmokeProgress
<1>4. CASE PollEnds
  BY <1>1, <1>2, <1>4 DEF PollEnds, NothingShown, smokeEngine, SmokeTyped, SmokeProgress
<1>5. CASE ~InspectResumed /\ ~PollEnds
  <2>1. residency' = {}
    BY <1>1, <1>5 DEF SmokeNext, SmokeEngine, SmokeDriver, SmokeOver, Answer, GiveBack,
         Yield, StreamOver, ReadSmoke, LoopEnds, ReleaseSeen, SmokeRaises, JudgeSmoke, Part,
         MoveToWarm, KeepaliveEnds, SmokeEngineDies, smokeVars, smokeEngine
  <2>2. UNCHANGED <<demotion, resumed, second_demotion, second_resumed>>
    BY <1>5 DEF SmokeNext, SmokeEngine, SmokeDriver, SmokeOver, Answer, GiveBack,
         Yield, StreamOver, ReadSmoke, LoopEnds, ReleaseSeen, SmokeRaises, JudgeSmoke, Part,
         MoveToWarm, KeepaliveEnds, SmokeEngineDies, smokeVars, snapshots
  <2> QED BY <2>1, <2>2 DEF NothingShown
<1> QED BY <1>3, <1>4, <1>5

\* With a complete lifecycle and no poll that gave up, what is asserted on the
\* tiers is what the snapshots show.
LEMMA AssertedTiersShown ==
  ASSUME SmokeTyped, SmokeProgress, TiersShown, NothingShown,
         place = "judging", LifecycleComplete, ~gaveUp
  PROVE  TiersAsserted
<1>1. CASE ~tiers
  BY <1>1 DEF NothingShown, LifecycleComplete, TiersAsserted
<1>2. CASE tiers
  <2>1. /\ demotion.warm = 0 .. 1
        /\ resumed.null = 0 .. 1 /\ resumed.len \in 4 .. 5
        /\ second_demotion.warm = 0 .. 3 /\ second_demotion.null = 0 .. 1
        /\ second_resumed.warm = 0 .. 3 /\ second_resumed.null = 0 .. 3
        /\ second_resumed.len = 5 /\ after_release.warm = {}
    BY <1>2 DEF TiersShown, LifecycleComplete, SmokeProgress
  <2>2. Cardinality(0 .. 1) = 2 /\ Cardinality(0 .. 3) = 4
    BY WarmSizes
  <2> DEFINE first == demotion.warm
             newly == second_demotion.warm \ first
  <2>3. first = 0 .. 1 /\ newly = 2 .. 3
    BY <2>1
  <2>4. Cardinality(first) = 2 /\ Cardinality(second_demotion.warm) = 4
    BY <2>1, <2>2
  <2> HIDE DEF first, newly
  <2>5. newly # {} /\ newly \subseteq HotBlocksOf(resumed)
    BY <2>1, <2>3 DEF HotBlocksOf
  <2>6. first \cup newly \subseteq second_resumed.null
    BY <2>1, <2>3
  <2>7. (0 .. second_resumed.len - 1) \ second_demotion.warm \subseteq HotBlocksOf(second_resumed)
    BY <2>1 DEF HotBlocksOf
  <2>8. /\ first \subseteq resumed.null /\ first \subseteq second_demotion.warm
        /\ first \subseteq second_demotion.null /\ first \subseteq second_resumed.warm
    BY <2>1, <2>3
  <2>9. /\ Cardinality(first) >= 2 /\ resumed.len > Cardinality(first)
        /\ Cardinality(second_demotion.warm) > Cardinality(first)
    BY <2>1, <2>4
  <2> QED BY <1>2, <2>1, <2>5, <2>6, <2>7, <2>8, <2>9 DEF TiersAsserted, first, newly
<1> QED BY <1>1, <1>2

LEMMA SmokeSteps ==
  ASSUME SmokeInvariant, [SmokeNext]_smokeVars PROVE SmokeInvariant'
<1> USE DEF SmokeInvariant
<1>1. SmokeTyped' /\ SmokeProgress' /\ TiersShown' /\ NothingShown'
  BY SmokeProgresses, TiersStayShown, NothingStaysShown
<1>2. SmokeAssertsWhatItSaw'
  <2>1. CASE JudgeSmoke
    BY <2>1, AssertedTiersShown DEF JudgeSmoke, SmokeAssertsWhatItSaw
  <2>2. CASE SmokeRaises
    BY <2>2 DEF SmokeRaises, SmokeAssertsWhatItSaw
  <2>3. CASE ~JudgeSmoke /\ ~SmokeRaises
    <3>1. judged' = judged
      BY <2>3 DEF SmokeNext, SmokeEngine, SmokeDriver, SmokeOver, Answer, GiveBack, Yield,
           StreamOver, ReadSmoke, InspectResumed, PollEnds, LoopEnds, ReleaseSeen, Part,
           MoveToWarm, KeepaliveEnds, SmokeEngineDies, smokeVars
    <3>2. gaveUp => gaveUp'
      BY <2>3 DEF SmokeNext, SmokeEngine, SmokeDriver, SmokeOver, Answer, GiveBack, Yield,
           StreamOver, ReadSmoke, InspectResumed, PollEnds, LoopEnds, ReleaseSeen, Part,
           MoveToWarm, KeepaliveEnds, SmokeEngineDies, smokeVars
    <3> QED BY <3>1, <3>2 DEF SmokeAssertsWhatItSaw
  <2> QED BY <2>1, <2>2, <2>3
<1> QED BY <1>1, <1>2

\* In every run of run_hkv_warm_smoke.py a snapshot is taken of the turn it is
\* named after, when nothing of the turn before is left to be read; and unless
\* a poll had given up, it shows the blocks the driver's loops waited for.
THEOREM SmokeRunInvariant == SmokeSpec => []SmokeInvariant
BY SmokeInits, SmokeSteps, PTL DEF SmokeSpec

\* The assertions of the smoke run (LifecycleComplete and TiersAsserted of
\* run_hkv_warm_smoke.py) fail on the tiers only when a poll had given up, at
\* whatever moments the snapshots between and within the turns are taken.
THEOREM SmokeAsserts == SmokeSpec => []SmokeAssertsWhatItSaw
<1>1. SmokeInvariant => SmokeAssertsWhatItSaw
  BY DEF SmokeInvariant
<1> QED BY <1>1, SmokeRunInvariant, PTL
-----------------------------------------------------------------------------
(* The resume-quality run.                                                 *)

QualitySpec == QualityInit /\ [][QualityNext]_qualityVars

QualityTyped ==
  /\ mixed \in BOOLEAN /\ overlap \in BOOLEAN /\ errors \in BOOLEAN /\ passed \in BOOLEAN
  /\ serving \in [Plans -> {"turn1", "idle", "turn2", "gone"}]
  /\ unread \in [Plans -> 0 .. 2] /\ completed_turns \in [Plans -> 0 .. 2]
  /\ ended \in [Plans -> {"no", "done", "failed", "cancelled"}]
  /\ \A marks \in {history, sent2, turn1_done, resume_event, turn2_start_event,
                   turn2_done, confirmed} : marks \in [Plans -> BOOLEAN]
  /\ ballast \in {"none", "running", "ended"}
  /\ step \in {"turn1", "barrier", "releasing", "inspecting", "starting", "finishing",
               "retaining", "gathering", "draining", "failing", "stopping", "over"}
  /\ at \in Plans

\* A request is gone when its task has ended.
RequestsGone == \A s \in Plans : ended[s] # "no" <=> serving[s] = "gone"

\* Where run() is, while it has not failed: before any session is resumed, at
\* its sessions one by one, behind the last one, or at the engine's shutdown.
Before == {"turn1", "barrier", "releasing"}
OneByOne == {"inspecting", "starting", "finishing"}
Behind == {"retaining", "gathering", "draining"}
Ending == {"stopping", "over"}

\* A session whose stream is open: before its second prompt, and with it.
OpenSession(s) ==
  /\ ~sent2[s] => /\ serving[s] \in {"turn1", "idle"} /\ ~turn2_start_event[s]
                  /\ turn1_done[s] => serving[s] = "idle"
  /\ sent2[s] => /\ serving[s] \in {"turn2", "idle"} /\ turn2_start_event[s]
                 /\ serving[s] = "turn2" => completed_turns[s] # 2
  /\ unread[s] # 0 => serving[s] = "idle"
  /\ turn1_done[s] /\ ~sent2[s] => unread[s] = 0

SessionsInOrder ==
  step \notin {"failing"} \cup Ending =>
    \A s \in Plans :
      /\ ended[s] = "no" => OpenSession(s)
      /\ step # "turn1" => turn1_done[s]
      /\ sent2[s] => resume_event[s]
      /\ completed_turns[s] = 2 => sent2[s]
      /\ resume_event[s] => /\ s <= at /\ step \notin Before
                            /\ s = at => step # "inspecting"

\* The sessions before the one at hand have completed their second turn.
CompletedInOrder ==
  /\ step \in {"turn1", "releasing"} => at = 1
  /\ step \in OneByOne => \A s \in Plans : s < at => completed_turns[s] = 2
  /\ step \in Behind => \A s \in Plans : completed_turns[s] = 2
  /\ step = "draining" => \A s \in Plans : ended[s] = "done"
  /\ step \in OneByOne \cup Behind => ballast = "ended"

\* What a run that has recorded no error so far has confirmed.
ErrorsRecorded ==
  /\ step = "failing" => errors
  /\ step \in Ending => \A s \in Plans : ended[s] # "no"
  /\ passed => step = "over" /\ ~errors
  /\ ~errors => /\ mixed => \A s \in Plans : resume_event[s] => confirmed[s]
                /\ step \in {"gathering", "draining"} \cup Ending => ~overlap
                /\ step \in Ending =>
                     /\ ballast = "ended"
                     /\ \A s \in Plans : /\ completed_turns[s] = 2 /\ ended[s] = "done"
                                         /\ resume_event[s]

QualityInvariant ==
  QualityTyped /\ RequestsGone /\ SessionsInOrder /\ CompletedInOrder /\ ErrorsRecorded

\* Reading the end of a turn: it is that of turn 2 for a session that was told
\* to start it.
LEMMA ReadEndKeeps ==
  ASSUME QualityTyped, NEW s \in Plans, ReadEnd(s)
  PROVE  /\ QualityTyped'
         /\ RequestsGone /\ SessionsInOrder /\ CompletedInOrder =>
              SessionsInOrder' /\ CompletedInOrder'
<1>1. /\ ended[s] = "no" /\ unread[s] # 0
      /\ unread' = [unread EXCEPT ![s] = 0]
      /\ UNCHANGED <<mixed, serving, history, sent2, resume_event, turn2_start_event,
                     ended, overlap, ballast, step, at, confirmed, errors, passed>>
  BY DEF ReadEnd, ballastVars, runVars
<1>2. \A r \in Plans : unread'[r] = IF r = s THEN 0 ELSE unread[r]
  BY <1>1 DEF QualityTyped
<1>3. \A r \in Plans \ {s} : completed_turns'[r] = completed_turns[r]
                             /\ turn1_done'[r] = turn1_done[r]
  BY DEF ReadEnd, QualityTyped
<1>4. turn2_start_event[s] => completed_turns'[s] = 2 /\ turn1_done'[s] = turn1_done[s]
  BY DEF ReadEnd, QualityTyped
<1>5. ~turn2_start_event[s] => completed_turns'[s] = 1 /\ turn1_done'[s] = TRUE
  BY DEF ReadEnd, QualityTyped
<1>6. QualityTyped'
  <2>1. unread' \in [Plans -> 0 .. 2]
    BY <1>1 DEF QualityTyped
  <2>2. completed_turns' \in [Plans -> 0 .. 2]
    BY DEF ReadEnd, QualityTyped
  <2>3. turn1_done' \in [Plans -> BOOLEAN] /\ turn2_done' \in [Plans -> BOOLEAN]
    BY DEF ReadEnd, QualityTyped
  <2> QED BY <1>1, <2>1, <2>2, <2>3 DEF QualityTyped
<1>7. ASSUME RequestsGone, SessionsInOrder, CompletedInOrder
      PROVE  SessionsInOrder' /\ CompletedInOrder'
  <2>1. completed_turns[s] = 2 /\ step \notin {"failing"} \cup Ending => turn2_start_event[s]
    BY <1>1, <1>7 DEF SessionsInOrder, OpenSession
  <2>2. SessionsInOrder'
    BY <1>1, <1>2, <1>3, <1>4, <1>5, <1>7, <2>1
    DEF SessionsInOrder, OpenSession, Ending, CompletedInOrder
  <2>3. CompletedInOrder'
    BY <1>1, <1>2, <1>3, <1>4, <1>5, <1>7, <2>1 DEF CompletedInOrder, OneByOne, Behind, Ending
  <2> QED BY <2>2, <2>3
<1> QED BY <1>6, <1>7

\* Every step keeps the types.
LEMMA QualityTypes ==
  ASSUME QualityTyped, [QualityNext]_qualityVars
  PROVE  QualityTyped'
<1> USE DEF sessionVars, ballastVars, runVars, Go, Fail, EndSession, QualityTyped, Plans
<1>1. ASSUME NEW s \in Plans, TurnEnds(s) PROVE QualityTyped'
  BY <1>1 DEF TurnEnds
<1>2. ASSUME NEW s \in Plans, HistoryDemoted(s) PROVE QualityTyped'
  BY <1>2 DEF HistoryDemoted
<1>3. ASSUME NEW s \in Plans, SendTurn2(s) PROVE QualityTyped'
  BY <1>3 DEF SendTurn2
<1>4. ASSUME NEW s \in Plans, ReadEnd(s) PROVE QualityTyped'
  BY <1>4, ReadEndKeeps
<1>5. ASSUME NEW s \in Plans, StreamEnds(s) PROVE QualityTyped'
  BY <1>5 DEF StreamEnds
<1>6. ASSUME NEW s \in Plans, Dies(s) PROVE QualityTyped'
  <2>1. CASE EndSession(s, "failed")
    BY <1>6, <2>1
  <2>2. CASE EndSession(s, "done")
    BY <1>6, <2>2
  <2> QED BY <1>6, <2>1, <2>2 DEF Dies
<1>7. ASSUME NEW s \in Plans, CancelSession(s) PROVE QualityTyped'
  BY <1>7 DEF CancelSession
<1>8. CASE BallastEnds
  BY <1>8 DEF BallastEnds
<1>9. CASE BallastFreed
  BY <1>9 DEF BallastFreed
<1>10. CASE Turn1Over
  BY <1>10 DEF Turn1Over
<1>11. CASE Inspected
  BY <1>11, EvaluatedAssumption DEF Inspected
<1>12. CASE BallastDied
  BY <1>12 DEF BallastDied
<1>13. CASE AbortBallast
  BY <1>13 DEF AbortBallast
<1>14. CASE BallastReleased
  BY <1>14 DEF BallastReleased
<1>15. CASE Resume
  BY <1>15 DEF Resume
<1>16. CASE NotAlive
  BY <1>16 DEF NotAlive
<1>17. CASE Started
  BY <1>17 DEF Started
<1>18. CASE Turn2Over
  BY <1>18, EvaluatedAssumption DEF Turn2Over, NextSession
<1>19. CASE Turn2Missing
  BY <1>19 DEF Turn2Missing
<1>20. CASE Retain
  BY <1>20 DEF Retain
<1>21. CASE Gathered
  BY <1>21 DEF Gathered
<1>22. CASE GatherFails
  BY <1>22 DEF GatherFails
<1>23. CASE Drained
  BY <1>23 DEF Drained
<1>24. CASE CancelBallast
  BY <1>24 DEF CancelBallast
<1>25. CASE GatheredAfterError
  BY <1>25 DEF GatheredAfterError
<1>26. CASE Shutdown
  BY <1>26 DEF Shutdown
<1>27. CASE TimesOut
  BY <1>27 DEF TimesOut
<1>28. CASE UNCHANGED qualityVars
  BY <1>28 DEF qualityVars
<1> QED BY <1>1, <1>2, <1>3, <1>4, <1>5, <1>6, <1>7, <1>8, <1>9, <1>10, <1>11, <1>12,
           <1>13, <1>14, <1>15, <1>16, <1>17, <1>18, <1>19, <1>20, <1>21, <1>22, <1>23,
           <1>24, <1>25, <1>26, <1>27, <1>28
        DEF QualityNext, Conduct, QualityOver

LEMMA QualityRequests ==
  ASSUME QualityTyped, RequestsGone, [QualityNext]_qualityVars
  PROVE  RequestsGone'
<1> USE DEF sessionVars, ballastVars, runVars
<1>1. ASSUME NEW s \in Plans, TurnEnds(s) PROVE RequestsGone'
  BY <1>1 DEF TurnEnds, QualityTyped, RequestsGone
<1>2. ASSUME NEW s \in Plans, HistoryDemoted(s) PROVE RequestsGone'
  BY <1>2 DEF HistoryDemoted, QualityTyped, RequestsGone
<1>3. ASSUME NEW s \in Plans, SendTurn2(s) PROVE RequestsGone'
  BY <1>3 DEF SendTurn2, QualityTyped, RequestsGone
<1>4. ASSUME NEW s \in Plans, ReadEnd(s) PROVE RequestsGone'
  BY <1>4 DEF ReadEnd, QualityTyped, RequestsGone
<1>5. ASSUME NEW s \in Plans, StreamEnds(s) PROVE RequestsGone'
  BY <1>5 DEF StreamEnds, EndSession, QualityTyped, RequestsGone
<1>6. ASSUME NEW s \in Plans, Dies(s) PROVE RequestsGone'
  BY <1>6 DEF Dies, EndSession, QualityTyped, RequestsGone
<1>7. ASSUME NEW s \in Plans, CancelSession(s) PROVE RequestsGone'
  BY <1>7 DEF CancelSession, EndSession, QualityTyped, RequestsGone
<1>8. CASE BallastEnds
  BY <1>8 DEF BallastEnds, QualityTyped, RequestsGone
<1>9. CASE BallastFreed
  BY <1>9 DEF BallastFreed, QualityTyped, RequestsGone
<1>10. CASE Turn1Over
  BY <1>10 DEF Turn1Over, Go, QualityTyped, RequestsGone
<1>11. CASE Inspected
  BY <1>11 DEF Inspected, QualityTyped, RequestsGone
<1>12. CASE BallastDied
  BY <1>12 DEF BallastDied, Fail, QualityTyped, RequestsGone
<1>13. CASE AbortBallast
  BY <1>13 DEF AbortBallast, QualityTyped, RequestsGone
<1>14. CASE BallastReleased
  BY <1>14 DEF BallastReleased, Go, QualityTyped, RequestsGone
<1>15. CASE Resume
  BY <1>15 DEF Resume, QualityTyped, RequestsGone
<1>16. CASE NotAlive
  BY <1>16 DEF NotAlive, Fail, QualityTyped, RequestsGone
<1>17. CASE Started
  BY <1>17 DEF Started, Go, QualityTyped, RequestsGone
<1>18. CASE Turn2Over
  BY <1>18 DEF Turn2Over, NextSession, QualityTyped, RequestsGone
<1>19. CASE Turn2Missing
  BY <1>19 DEF Turn2Missing, Fail, QualityTyped, RequestsGone
<1>20. CASE Retain
  BY <1>20 DEF Retain, Go, QualityTyped, RequestsGone
<1>21. CASE Gathered
  BY <1>21 DEF Gathered, Go, QualityTyped, RequestsGone
<1>22. CASE GatherFails
  BY <1>22 DEF GatherFails, Fail, QualityTyped, RequestsGone
<1>23. CASE Drained
  BY <1>23 DEF Drained, Go, QualityTyped, RequestsGone
<1>24. CASE CancelBallast
  BY <1>24 DEF CancelBallast, QualityTyped, RequestsGone
<1>25. CASE GatheredAfterError
  BY <1>25 DEF GatheredAfterError, Go, QualityTyped, RequestsGone
<1>26. CASE Shutdown
  BY <1>26 DEF Shutdown, Go, QualityTyped, RequestsGone
<1>27. CASE TimesOut
  BY <1>27 DEF TimesOut, Fail, QualityTyped, RequestsGone
<1>28. CASE UNCHANGED qualityVars
  BY <1>28 DEF qualityVars, QualityTyped, RequestsGone
<1> QED BY <1>1, <1>2, <1>3, <1>4, <1>5, <1>6, <1>7, <1>8, <1>9, <1>10, <1>11, <1>12,
           <1>13, <1>14, <1>15, <1>16, <1>17, <1>18, <1>19, <1>20, <1>21, <1>22, <1>23,
           <1>24, <1>25, <1>26, <1>27, <1>28
        DEF QualityNext, Conduct, QualityOver

\* And the order of the sessions.
LEMMA QualityOrder ==
  ASSUME QualityTyped, RequestsGone, SessionsInOrder, CompletedInOrder,
         [QualityNext]_qualityVars
  PROVE  SessionsInOrder'
<1> USE DEF sessionVars, ballastVars, runVars, Go, Fail, EndSession, QualityTyped,
            RequestsGone, SessionsInOrder, CompletedInOrder, OpenSession, Before,
            OneByOne, Behind, Ending, Plans
<1>1. ASSUME NEW s \in Plans, TurnEnds(s) PROVE SessionsInOrder'
  BY <1>1 DEF TurnEnds
<1>2. ASSUME NEW s \in Plans, HistoryDemoted(s) PROVE SessionsInOrder'
  BY <1>2 DEF HistoryDemoted
<1>3. ASSUME NEW s \in Plans, SendTurn2(s) PROVE SessionsInOrder'
  BY <1>3 DEF SendTurn2
<1>4. ASSUME NEW s \in Plans, ReadEnd(s) PROVE SessionsInOrder'
  BY <1>4, ReadEndKeeps
<1>5. ASSUME NEW s \in Plans, StreamEnds(s) PROVE SessionsInOrder'
  BY <1>5 DEF StreamEnds
<1>6. ASSUME NEW s \in Plans, Dies(s) PROVE SessionsInOrder'
  <2>1. CASE EndSession(s, "failed")
    BY <1>6, <2>1
  <2>2. CASE EndSession(s, "done")
    BY <1>6, <2>2
  <2> QED BY <1>6, <2>1, <2>2 DEF Dies
<1>7. ASSUME NEW s \in Plans, CancelSession(s) PROVE SessionsInOrder'
  BY <1>7 DEF CancelSession
<1>8. CASE BallastEnds
  BY <1>8 DEF BallastEnds
<1>9. CASE BallastFreed
  BY <1>9 DEF BallastFreed
<1>10. CASE Turn1Over
  BY <1>10 DEF Turn1Over
<1>11. CASE Inspected
  BY <1>11, EvaluatedAssumption DEF Inspected
<1>12. CASE BallastDied
  BY <1>12 DEF BallastDied
<1>13. CASE AbortBallast
  BY <1>13 DEF AbortBallast
<1>14. CASE BallastReleased
  BY <1>14 DEF BallastReleased
<1>15. CASE Resume
  BY <1>15 DEF Resume
<1>16. CASE NotAlive
  BY <1>16 DEF NotAlive
<1>17. CASE Started
  BY <1>17 DEF Started
<1>18. CASE Turn2Over
  BY <1>18, EvaluatedAssumption DEF Turn2Over, NextSession
<1>19. CASE Turn2Missing
  BY <1>19 DEF Turn2Missing
<1>20. CASE Retain
  BY <1>20 DEF Retain
<1>21. CASE Gathered
  BY <1>21 DEF Gathered
<1>22. CASE GatherFails
  BY <1>22 DEF GatherFails
<1>23. CASE Drained
  BY <1>23 DEF Drained
<1>24. CASE CancelBallast
  BY <1>24 DEF CancelBallast
<1>25. CASE GatheredAfterError
  BY <1>25 DEF GatheredAfterError
<1>26. CASE Shutdown
  BY <1>26 DEF Shutdown
<1>27. CASE TimesOut
  BY <1>27 DEF TimesOut
<1>28. CASE UNCHANGED qualityVars
  BY <1>28 DEF qualityVars
<1> QED BY <1>1, <1>2, <1>3, <1>4, <1>5, <1>6, <1>7, <1>8, <1>9, <1>10, <1>11, <1>12,
           <1>13, <1>14, <1>15, <1>16, <1>17, <1>18, <1>19, <1>20, <1>21, <1>22, <1>23,
           <1>24, <1>25, <1>26, <1>27, <1>28
        DEF QualityNext, Conduct, QualityOver

LEMMA QualityCompletes ==
  ASSUME QualityTyped, RequestsGone, SessionsInOrder, CompletedInOrder,
         [QualityNext]_qualityVars
  PROVE  CompletedInOrder'
<1> USE DEF sessionVars, ballastVars, runVars, Go, Fail, EndSession, QualityTyped,
            RequestsGone, SessionsInOrder, CompletedInOrder, OpenSession, Before,
            OneByOne, Behind, Ending, Plans
<1>1. ASSUME NEW s \in Plans, TurnEnds(s) PROVE CompletedInOrder'
  BY <1>1 DEF TurnEnds
<1>2. ASSUME NEW s \in Plans, HistoryDemoted(s) PROVE CompletedInOrder'
  BY <1>2 DEF HistoryDemoted
<1>3. ASSUME NEW s \in Plans, SendTurn2(s) PROVE CompletedInOrder'
  BY <1>3 DEF SendTurn2
<1>4. ASSUME NEW s \in Plans, ReadEnd(s) PROVE CompletedInOrder'
  BY <1>4, ReadEndKeeps
<1>5. ASSUME NEW s \in Plans, StreamEnds(s) PROVE CompletedInOrder'
  BY <1>5 DEF StreamEnds
<1>6. ASSUME NEW s \in Plans, Dies(s) PROVE CompletedInOrder'
  <2>1. CASE EndSession(s, "failed")
    BY <1>6, <2>1
  <2>2. CASE EndSession(s, "done")
    BY <1>6, <2>2
  <2> QED BY <1>6, <2>1, <2>2 DEF Dies
<1>7. ASSUME NEW s \in Plans, CancelSession(s) PROVE CompletedInOrder'
  BY <1>7 DEF CancelSession
<1>8. CASE BallastEnds
  BY <1>8 DEF BallastEnds
<1>9. CASE BallastFreed
  BY <1>9 DEF BallastFreed
<1>10. CASE Turn1Over
  BY <1>10 DEF Turn1Over
<1>11. CASE Inspected
  BY <1>11, EvaluatedAssumption DEF Inspected
<1>12. CASE BallastDied
  BY <1>12 DEF BallastDied
<1>13. CASE AbortBallast
  BY <1>13 DEF AbortBallast
<1>14. CASE BallastReleased
  BY <1>14 DEF BallastReleased
<1>15. CASE Resume
  BY <1>15 DEF Resume
<1>16. CASE NotAlive
  BY <1>16 DEF NotAlive
<1>17. CASE Started
  BY <1>17 DEF Started
<1>18. CASE Turn2Over
  <2> HIDE DEF SessionsInOrder, RequestsGone, OpenSession, Ending
  <2>1. /\ step = "finishing" /\ completed_turns[at] = 2
        /\ \A p \in Plans : p < at => completed_turns[p] = 2
        /\ ballast = "ended"
    BY <1>18 DEF Turn2Over
  <2>2. /\ completed_turns' = completed_turns /\ ended' = ended /\ ballast' = ballast
        /\ at \in 1 .. Evaluated
    BY <1>18 DEF Turn2Over, NextSession
  <2>3. CASE at < Evaluated /\ step' = "inspecting" /\ at' = at + 1
    <3>1. \A p \in Plans : p < at' => p < at \/ p = at
      BY <2>2, <2>3, EvaluatedAssumption
    <3> QED BY <2>1, <2>2, <2>3, <3>1
  <2>4. CASE ~(at < Evaluated) /\ step' = "retaining" /\ at' = at
    <3>1. \A p \in Plans : p < at \/ p = at
      BY <2>2, <2>4, EvaluatedAssumption
    <3> QED BY <2>1, <2>2, <2>4, <3>1
  <2> QED BY <1>18, <2>3, <2>4 DEF Turn2Over, NextSession
<1>19. CASE Turn2Missing
  BY <1>19 DEF Turn2Missing
<1>20. CASE Retain
  BY <1>20 DEF Retain
<1>21. CASE Gathered
  BY <1>21 DEF Gathered
<1>22. CASE GatherFails
  BY <1>22 DEF GatherFails
<1>23. CASE Drained
  BY <1>23 DEF Drained
<1>24. CASE CancelBallast
  BY <1>24 DEF CancelBallast
<1>25. CASE GatheredAfterError
  BY <1>25 DEF GatheredAfterError
<1>26. CASE Shutdown
  BY <1>26 DEF Shutdown
<1>27. CASE TimesOut
  BY <1>27 DEF TimesOut
<1>28. CASE UNCHANGED qualityVars
  BY <1>28 DEF qualityVars
<1> QED BY <1>1, <1>2, <1>3, <1>4, <1>5, <1>6, <1>7, <1>8, <1>9, <1>10, <1>11, <1>12,
           <1>13, <1>14, <1>15, <1>16, <1>17, <1>18, <1>19, <1>20, <1>21, <1>22, <1>23,
           <1>24, <1>25, <1>26, <1>27, <1>28
        DEF QualityNext, Conduct, QualityOver

LEMMA QualityErrors ==
  ASSUME QualityTyped, RequestsGone, SessionsInOrder, CompletedInOrder, ErrorsRecorded,
         [QualityNext]_qualityVars
  PROVE  ErrorsRecorded'
<1> USE DEF sessionVars, ballastVars, runVars, Go, Fail, EndSession, QualityTyped,
            RequestsGone, SessionsInOrder, CompletedInOrder, ErrorsRecorded, OpenSession,
            Before, OneByOne, Behind, Ending, Plans
<1>1. ASSUME NEW s \in Plans, TurnEnds(s) PROVE ErrorsRecorded'
  BY <1>1 DEF TurnEnds
<1>2. ASSUME NEW s \in Plans, HistoryDemoted(s) PROVE ErrorsRecorded'
  BY <1>2 DEF HistoryDemoted
<1>3. ASSUME NEW s \in Plans, SendTurn2(s) PROVE ErrorsRecorded'
  BY <1>3 DEF SendTurn2
<1>4. ASSUME NEW s \in Plans, ReadEnd(s) PROVE ErrorsRecorded'
  BY <1>4 DEF ReadEnd
<1>5. ASSUME NEW s \in Plans, StreamEnds(s) PROVE ErrorsRecorded'
  BY <1>5 DEF StreamEnds
<1>6. ASSUME NEW s \in Plans, Dies(s) PROVE ErrorsRecorded'
  <2>1. CASE EndSession(s, "failed")
    BY <1>6, <2>1
  <2>2. CASE EndSession(s, "done")
    BY <1>6, <2>2
  <2> QED BY <1>6, <2>1, <2>2 DEF Dies
<1>7. ASSUME NEW s \in Plans, CancelSession(s) PROVE ErrorsRecorded'
  BY <1>7 DEF CancelSession
<1>8. CASE BallastEnds
  BY <1>8 DEF BallastEnds
<1>9. CASE BallastFreed
  BY <1>9 DEF BallastFreed
<1>10. CASE Turn1Over
  BY <1>10 DEF Turn1Over
<1>11. CASE Inspected
  BY <1>11 DEF Inspected
<1>12. CASE BallastDied
  BY <1>12 DEF BallastDied
<1>13. CASE AbortBallast
  BY <1>13 DEF AbortBallast
<1>14. CASE BallastReleased
  BY <1>14 DEF BallastReleased
<1>15. CASE Resume
  BY <1>15 DEF Resume
<1>16. CASE NotAlive
  BY <1>16 DEF NotAlive
<1>17. CASE Started
  BY <1>17 DEF Started
<1>18. CASE Turn2Over
  BY <1>18 DEF Turn2Over, NextSession
<1>19. CASE Turn2Missing
  BY <1>19 DEF Turn2Missing
<1>20. CASE Retain
  BY <1>20 DEF Retain
<1>21. CASE Gathered
  BY <1>21 DEF Gathered
<1>22. CASE GatherFails
  BY <1>22 DEF GatherFails
<1>23. CASE Drained
  BY <1>23 DEF Drained
<1>24. CASE CancelBallast
  BY <1>24 DEF CancelBallast
<1>25. CASE GatheredAfterError
  BY <1>25 DEF GatheredAfterError
<1>26. CASE Shutdown
  BY <1>26 DEF Shutdown
<1>27. CASE TimesOut
  BY <1>27 DEF TimesOut
<1>28. CASE UNCHANGED qualityVars
  BY <1>28 DEF qualityVars
<1> QED BY <1>1, <1>2, <1>3, <1>4, <1>5, <1>6, <1>7, <1>8, <1>9, <1>10, <1>11, <1>12,
           <1>13, <1>14, <1>15, <1>16, <1>17, <1>18, <1>19, <1>20, <1>21, <1>22, <1>23,
           <1>24, <1>25, <1>26, <1>27, <1>28
        DEF QualityNext, Conduct, QualityOver

LEMMA QualityInits == QualityInit => QualityInvariant
<1> SUFFICES ASSUME QualityInit PROVE QualityInvariant
  OBVIOUS
<1>1. 1 \in Plans
  BY EvaluatedAssumption DEF Plans
<1>2. QualityTyped
  <2>1. /\ \A marks \in {history, sent2, turn1_done, resume_event, turn2_start_event,
                        turn2_done, confirmed} : marks = None
        /\ None \in [Plans -> BOOLEAN]
    BY DEF QualityInit, None
  <2>2. /\ serving \in [Plans -> {"turn1", "idle", "turn2", "gone"}]
        /\ unread \in [Plans -> 0 .. 2] /\ completed_turns \in [Plans -> 0 .. 2]
        /\ ended \in [Plans -> {"no", "done", "failed", "cancelled"}]
    BY DEF QualityInit
  <2> QED BY <1>1, <2>1, <2>2 DEF QualityInit, QualityTyped
<1>3. RequestsGone
  BY DEF QualityInit, RequestsGone
<1>4. SessionsInOrder
  BY DEF QualityInit, SessionsInOrder, OpenSession, None, Ending
<1>5. CompletedInOrder
  BY DEF QualityInit, CompletedInOrder, OneByOne, Behind
<1>6. ErrorsRecorded
  BY DEF QualityInit, ErrorsRecorded, None, Ending
<1> QED BY <1>2, <1>3, <1>4, <1>5, <1>6 DEF QualityInvariant

\* In every run of run_hkv_gsm8k_resume_quality.py a session is resumed only
\* when all have ended their first turn and the sessions before it have
\* completed their second, and what makes run() fail is on record.
THEOREM QualityRunInvariant == QualitySpec => []QualityInvariant
<1>1. ASSUME QualityInvariant, [QualityNext]_qualityVars PROVE QualityInvariant'
  BY <1>1, QualityTypes, QualityRequests, QualityOrder, QualityCompletes, QualityErrors
  DEF QualityInvariant
<1> QED BY <1>1, QualityInits, PTL DEF QualitySpec

\* Only the session at hand can have its second turn in the engine.
LEMMA OnlyOneResumes == QualityInvariant => OneResumeAtATime
<1> SUFFICES ASSUME QualityInvariant, step # "failing" PROVE OneResumeAtATime
  BY DEF OneResumeAtATime
<1> DEFINE resuming == {s \in Plans : sent2[s] /\ serving[s] \in {"turn1", "turn2"}}
<1>1. resuming \subseteq {at}
  <2> SUFFICES ASSUME NEW s \in Plans, sent2[s], serving[s] \in {"turn1", "turn2"}
               PROVE  s = at
    OBVIOUS
  <2>1. ended[s] = "no"
    BY DEF QualityInvariant, RequestsGone
  <2>2. step \notin Ending
    BY <2>1 DEF QualityInvariant, ErrorsRecorded
  <2>3. OpenSession(s) /\ resume_event[s] /\ s <= at /\ step \notin Before
    BY <2>1, <2>2 DEF QualityInvariant, SessionsInOrder
  <2>4. completed_turns[s] # 2
    BY <2>3 DEF OpenSession
  <2>5. step \in OneByOne
    BY <2>2, <2>3, <2>4
    DEF QualityInvariant, QualityTyped, CompletedInOrder, Before, OneByOne, Behind, Ending
  <2>6. ~ (s < at)
    BY <2>4, <2>5 DEF QualityInvariant, CompletedInOrder
  <2> QED BY <2>3, <2>6 DEF QualityInvariant, QualityTyped, Plans
<1>2. IsFiniteSet({at}) /\ Cardinality({at}) = 1
  BY FS_Singleton
<1>3. Cardinality(resuming) <= Cardinality({at})
  BY <1>1, <1>2, FS_Subset, Zenon
<1> QED BY <1>2, <1>3 DEF OneResumeAtATime

\* The sessions of run_hkv_gsm8k_resume_quality.py resume one at a time, and a
\* run that passes has completed and, in mixed mode, confirmed every one of
\* them before the engine was shut down: for any number of sessions, whatever
\* tasks die at whatever await and whichever wait times out.
THEOREM QualityRuns == QualitySpec => []PassedRunIsComplete
<1>1. QualityInvariant => PassedRunIsComplete
  <2> SUFFICES ASSUME QualityInvariant PROVE PassedRunIsComplete
    OBVIOUS
  <2>1. ASSUME passed
        PROVE  /\ \A s \in Plans : /\ completed_turns[s] = 2 /\ ended[s] = "done"
                                   /\ mixed => confirmed[s]
                                   /\ serving[s] = "gone"
               /\ ~overlap /\ ballast = "ended"
    <3>1. step \in Ending /\ ~errors
      BY <2>1 DEF QualityInvariant, ErrorsRecorded, Ending
    <3> QED BY <3>1 DEF QualityInvariant, ErrorsRecorded, RequestsGone
  <2> QED BY <2>1, OnlyOneResumes DEF PassedRunIsComplete
<1> QED BY <1>1, QualityRunInvariant, PTL
-----------------------------------------------------------------------------
(* The trace replay.                                                       *)

ReplaySpec == ReplayInit /\ [][ReplayNext]_replayVars

\* Of the first n tokens of a session: the finish reasons that came with them,
\* and how many of them belong to a turn.
Reasons(s, n) ==
  IF n < TurnsOf(s) THEN n
  ELSE IF n < AllTokens(s) THEN TurnsOf(s) - 1 ELSE TurnsOf(s)
TokensOf(s, t, n) ==
  IF t < TurnsOf(s) THEN IF t <= n THEN 1 ELSE 0
  ELSE IF n < TurnsOf(s) THEN 0 ELSE n - TurnsOf(s) + 1

\* The tokens run_session has read: all but those in the slot.
Taken(s) == made[s] - Len(slot[s].tokens)

ReplayTyped ==
  /\ alive \in [Replayed -> BOOLEAN] /\ warmed \in [Replayed -> BOOLEAN]
  /\ task \in [Replayed -> {"running", "done", "cancelled", "failed"}]
  /\ made \in [Replayed -> Nat] /\ finished \in [Replayed -> Nat]
  /\ DOMAIN slot = Replayed /\ DOMAIN credit = Replayed
  /\ \A s \in Replayed :
       /\ slot[s] \in [tokens : Seq(Nat), reason : BOOLEAN, last : BOOLEAN]
       /\ credit[s] \in [1 .. TurnsOf(s) -> Seq(Nat)]
       /\ made[s] <= AllTokens(s) /\ Len(slot[s].tokens) <= made[s]
  /\ stageOf \in {"working", "failing", "cancelling", "draining", "stopping", "over"}
  /\ timedOut \in BOOLEAN /\ seen \in BOOLEAN /\ drained \in BOOLEAN

\* The slot holds the newest tokens in their order, and a finish reason in it
\* is that of the newest one.
SlotInOrder ==
  \A s \in Replayed :
    /\ \A n \in 1 .. Len(slot[s].tokens) :
         slot[s].tokens[n] = TurnOfToken(s, Taken(s) + n)
    /\ slot[s].reason => /\ Len(slot[s].tokens) > 0
                         /\ made[s] < TurnsOf(s) \/ made[s] = AllTokens(s)
    /\ slot[s].last => ~alive[s]

\* A session is credited with no more turns than finish reasons came with the
\* tokens it has read, and as long as it has lost none of them in a merged
\* output each turn has its own tokens.
CreditsInOrder ==
  \A s \in Replayed :
    /\ finished[s] <= Reasons(s, Taken(s))
    /\ finished[s] = Reasons(s, Taken(s)) =>
         \A t \in 1 .. TurnsOf(s) :
           credit[s][t] = [n \in 1 .. TokensOf(s, t, Taken(s)) |-> t]

\* No request outlives its task, and the driver goes on with settled tasks.
TasksInOrder ==
  /\ \A s \in Replayed :
       /\ task[s] # "running" => ~alive[s]
       /\ task[s] = "done" => finished[s] = TurnsOf(s)
  /\ stageOf \in {"draining", "stopping", "over"} => Settled
  /\ stageOf = "failing" => \E s \in Replayed : task[s] = "failed"
  /\ stageOf = "cancelling" => timedOut
  /\ stageOf = "draining" /\ ~timedOut => \A s \in Replayed : task[s] = "done"
  /\ stageOf \in {"stopping", "over"} /\ ~timedOut =>
       \/ \A s \in Replayed : task[s] = "done"
       \/ \E s \in Replayed : task[s] = "failed"
  /\ drained => Settled /\ ~AnyWarm
  /\ drained => stageOf \in {"stopping", "over"}
  /\ verdict = "passed" => /\ stageOf = "over" /\ seen /\ drained
                           /\ \A s \in Replayed : task[s] = "done"

ReplayInvariant == ReplayTyped /\ SlotInOrder /\ CreditsInOrder /\ TasksInOrder

\* A turn's tokens are alike: more of them make a longer sequence of the same.
LEMMA SameTokensAppended ==
  ASSUME NEW k \in Nat, NEW t \in Nat, NEW more \in Seq(Nat),
         \A n \in 1 .. Len(more) : more[n] = t
  PROVE  [n \in 1 .. k |-> t] \o more = [n \in 1 .. k + Len(more) |-> t]
<1> DEFINE old == [n \in 1 .. k |-> t]
           both == [n \in 1 .. k + Len(more) |-> t]
<1>1. old \in Seq(Nat) /\ Len(old) = k /\ both \in Seq(Nat) /\ Len(both) = k + Len(more)
  OBVIOUS
<1>2. old \o more \in Seq(Nat) /\ Len(old \o more) = k + Len(more)
  BY <1>1
<1>3. \A n \in 1 .. k + Len(more) : (old \o more)[n] = t
  BY <1>1
<1> QED BY <1>1, <1>2, <1>3

\* More tokens come with more finish reasons, and a reason with the newest of
\* them is one more.
LEMMA ReasonsGrow ==
  ASSUME NEW s \in Replayed, NEW c \in Nat, NEW m \in Nat, c <= m, m <= AllTokens(s)
  PROVE  /\ Reasons(s, c) \in Nat /\ Reasons(s, m) \in Nat
         /\ Reasons(s, c) <= Reasons(s, m) /\ Reasons(s, m) <= TurnsOf(s)
         /\ c < m /\ (m < TurnsOf(s) \/ m = AllTokens(s)) => Reasons(s, c) < Reasons(s, m)
BY TurnsAssumption, TokensAssumption DEF Reasons, AllTokens

\* Tokens with at most one reason, that of the newest, are all of one turn.
LEMMA OneTurnGrows ==
  ASSUME NEW s \in Replayed, NEW c \in Nat, NEW m \in Nat, c <= m, m <= AllTokens(s),
         \/ Reasons(s, m) = Reasons(s, c)
         \/ /\ Reasons(s, m) = Reasons(s, c) + 1
            /\ m < TurnsOf(s) \/ m = AllTokens(s),
         NEW t \in 1 .. TurnsOf(s)
  PROVE  /\ TokensOf(s, t, c) \in Nat
         /\ t # Reasons(s, c) + 1 => TokensOf(s, t, m) = TokensOf(s, t, c)
         /\ t = Reasons(s, c) + 1 =>
              /\ TokensOf(s, t, m) = TokensOf(s, t, c) + (m - c)
              /\ \A n \in c + 1 .. m : TurnOfToken(s, n) = t
<1>1. TurnsOf(s) \in Nat \ {0} /\ FinalTokens \in Nat \ {0}
  BY TurnsAssumption, TokensAssumption
<1>2. TokensOf(s, t, c) \in Nat
  BY <1>1 DEF TokensOf
<1>3. t # Reasons(s, c) + 1 => TokensOf(s, t, m) = TokensOf(s, t, c)
  BY <1>1 DEF TokensOf, Reasons, AllTokens
<1>4. t = Reasons(s, c) + 1 => TokensOf(s, t, m) = TokensOf(s, t, c) + (m - c)
  BY <1>1 DEF TokensOf, Reasons, AllTokens
<1>5. t = Reasons(s, c) + 1 => \A n \in c + 1 .. m : TurnOfToken(s, n) = t
  BY <1>1 DEF TurnOfToken, Reasons, AllTokens
<1> QED BY <1>2, <1>3, <1>4, <1>5

\* A token goes to the end of the slot.
LEMMA TokenKeeps ==
  ASSUME ReplayTyped, NEW s \in Replayed, Token(s)
  PROVE  /\ ReplayTyped'
         /\ SlotInOrder /\ CreditsInOrder => SlotInOrder' /\ CreditsInOrder'
<1> DEFINE n == made[s] + 1
           t == TurnOfToken(s, n)
           new == [tokens |-> <<t>>, last |-> FALSE,
                   reason |-> t < TurnsOf(s) \/ n = AllTokens(s)]
<1>1. /\ TurnsOf(s) \in Nat \ {0} /\ FinalTokens \in Nat \ {0} /\ AllTokens(s) \in Nat
      /\ made[s] \in Nat /\ n \in Nat /\ t \in Nat
  BY TurnsAssumption, TokensAssumption DEF ReplayTyped, TurnOfToken, AllTokens
<1>2. /\ n <= AllTokens(s) /\ alive[s]
      /\ made' = [made EXCEPT ![s] = n]
      /\ slot' = [slot EXCEPT ![s] = Merged(slot[s], new)]
      /\ UNCHANGED <<alive, warmed, finished, credit, task, stageOf, timedOut, seen, drained>>
  BY DEF Token, clientVars, driverVars
<1>3. slot[s] \in [tokens : Seq(Nat), reason : BOOLEAN, last : BOOLEAN]
  BY DEF ReplayTyped
<1>4. /\ slot'[s].tokens = Append(slot[s].tokens, t) /\ slot'[s].reason = new.reason
      /\ slot'[s].last = slot[s].last
      /\ slot'[s] \in [tokens : Seq(Nat), reason : BOOLEAN, last : BOOLEAN]
  <2>1. slot[s].tokens \o <<t>> = Append(slot[s].tokens, t)
    BY <1>1, <1>3
  <2>2. slot'[s] = [tokens |-> Append(slot[s].tokens, t), reason |-> new.reason,
                    last |-> slot[s].last]
    BY <1>2, <1>3, <2>1 DEF Merged, ReplayTyped
  <2>3. Append(slot[s].tokens, t) \in Seq(Nat) /\ new.reason \in BOOLEAN
    BY <1>1, <1>3
  <2> HIDE DEF new, t, n
  <2> QED BY <1>3, <2>2, <2>3
<1>5. new.reason => n < TurnsOf(s) \/ n = AllTokens(s)
  <2>1. new.reason => t < TurnsOf(s) \/ n = AllTokens(s)
    OBVIOUS
  <2>2. t < TurnsOf(s) => n < TurnsOf(s)
    BY <1>1 DEF TurnOfToken
  <2> QED BY <2>1, <2>2
<1> HIDE DEF t, new
<1>6. /\ Len(slot'[s].tokens) = Len(slot[s].tokens) + 1 /\ Len(slot[s].tokens) \in Nat
      /\ \A k \in 1 .. Len(slot[s].tokens) : slot'[s].tokens[k] = slot[s].tokens[k]
      /\ slot'[s].tokens[Len(slot[s].tokens) + 1] = t
  BY <1>1, <1>3, <1>4
<1>7. \A r \in Replayed : r # s => slot'[r] = slot[r] /\ made'[r] = made[r]
  BY <1>2 DEF ReplayTyped
<1>8. made'[s] = n /\ made' \in [Replayed -> Nat] /\ DOMAIN slot' = Replayed
  BY <1>1, <1>2 DEF ReplayTyped
<1>9. ReplayTyped'
  <2>1. made'[s] <= AllTokens(s) /\ Len(slot'[s].tokens) <= made'[s]
    BY <1>1, <1>2, <1>6, <1>8 DEF ReplayTyped
  <2>2. \A r \in Replayed :
          /\ slot'[r] \in [tokens : Seq(Nat), reason : BOOLEAN, last : BOOLEAN]
          /\ credit'[r] \in [1 .. TurnsOf(r) -> Seq(Nat)]
          /\ made'[r] <= AllTokens(r) /\ Len(slot'[r].tokens) <= made'[r]
    <3> TAKE r \in Replayed
    <3>1. CASE r = s
      BY <1>2, <1>4, <2>1, <3>1 DEF ReplayTyped
    <3>2. CASE r # s
      BY <1>2, <1>7, <3>2 DEF ReplayTyped
    <3> QED BY <3>1, <3>2
  <2> QED BY <1>2, <1>8, <2>2 DEF ReplayTyped, AllTokens
<1>10. \A r \in Replayed : Taken(r)' = Taken(r)
  <2>1. Taken(s)' = Taken(s)
    <3>1. \A a, b \in Nat : (a + 1) - (b + 1) = a - b
      OBVIOUS
    <3>2. Taken(s)' = made'[s] - Len(slot'[s].tokens) /\ Taken(s) = made[s] - Len(slot[s].tokens)
      BY DEF Taken
    <3>3. made'[s] = made[s] + 1 /\ Len(slot'[s].tokens) = Len(slot[s].tokens) + 1
      BY <1>6, <1>8
    <3>4. made[s] \in Nat /\ Len(slot[s].tokens) \in Nat
      BY <1>1, <1>6
    <3>5. (made[s] + 1) - (Len(slot[s].tokens) + 1) = made[s] - Len(slot[s].tokens)
      BY <3>1, <3>4, Zenon
    <3> QED BY <3>2, <3>3, <3>5, Zenon
  <2>2. \A r \in Replayed : r # s => Taken(r)' = Taken(r)
    BY <1>7 DEF Taken
  <2> QED BY <2>1, <2>2
<1>11. ASSUME SlotInOrder PROVE SlotInOrder'
  <2>1. ASSUME NEW k \in 1 .. Len(slot'[s].tokens)
        PROVE  slot'[s].tokens[k] = TurnOfToken(s, Taken(s) + k)
    <3>1. CASE k \in 1 .. Len(slot[s].tokens)
      BY <1>6, <1>11, <3>1 DEF SlotInOrder
    <3>2. CASE k = Len(slot[s].tokens) + 1
      <4>1. Taken(s) + k = n
        BY <1>1, <1>6, <3>2 DEF Taken
      <4> QED BY <1>6, <3>2, <4>1 DEF t
    <3>3. k \in 1 .. Len(slot[s].tokens) \/ k = Len(slot[s].tokens) + 1
      <4>1. \A m \in Nat : \A i \in 1 .. m + 1 : i \in 1 .. m \/ i = m + 1
        OBVIOUS
      <4> QED BY <1>6, <4>1, Zenon
    <3> QED BY <3>1, <3>2, <3>3, Zenon
  <2>2. slot'[s].reason => /\ Len(slot'[s].tokens) > 0
                           /\ made'[s] < TurnsOf(s) \/ made'[s] = AllTokens(s)
    BY <1>4, <1>5, <1>6, <1>8
  <2>3. slot'[s].last => ~alive'[s]
    BY <1>2, <1>4, <1>11 DEF SlotInOrder
  <2> QED BY <1>2, <1>7, <1>10, <1>11, <2>1, <2>2, <2>3 DEF SlotInOrder, TurnOfToken, AllTokens
<1>12. ASSUME CreditsInOrder PROVE CreditsInOrder'
  BY <1>2, <1>10, <1>12 DEF CreditsInOrder, Reasons, TokensOf, AllTokens
<1> QED BY <1>9, <1>11, <1>12

\* A read takes the whole slot.  It credits a turn when a finish reason came
\* with it, which is one turn for all the reasons that were merged.
LEMMA ReadKeeps ==
  ASSUME ReplayTyped, NEW s \in Replayed, Read(s)
  PROVE  /\ ReplayTyped'
         /\ SlotInOrder /\ CreditsInOrder => SlotInOrder' /\ CreditsInOrder'
<1> DEFINE T == TurnsOf(s)
           all == AllTokens(s)
           at1 == finished[s] + 1
           out == slot[s]
           p == Len(out.tokens)
<1>1. /\ T \in Nat \ {0} /\ FinalTokens \in Nat \ {0} /\ all = T - 1 + FinalTokens
      /\ finished[s] \in Nat /\ made[s] \in Nat /\ made[s] <= all
      /\ out \in [tokens : Seq(Nat), reason : BOOLEAN, last : BOOLEAN]
      /\ p \in Nat /\ p <= made[s] /\ Taken(s) \in Nat /\ made[s] = Taken(s) + p
      /\ credit[s] \in [1 .. T -> Seq(Nat)]
  BY TurnsAssumption, TokensAssumption DEF ReplayTyped, AllTokens, Taken
<1>2. /\ slot' = [slot EXCEPT ![s] = Empty]
      /\ credit' = IF at1 <= T THEN [credit EXCEPT ![s][at1] = @ \o out.tokens] ELSE credit
      /\ finished' = IF out.reason /\ at1 <= T THEN [finished EXCEPT ![s] = @ + 1] ELSE finished
      /\ UNCHANGED <<made, alive, warmed, stageOf, timedOut, seen, drained>>
  BY DEF Read, driverVars
<1>3. Empty \in [tokens : Seq(Nat), reason : BOOLEAN, last : BOOLEAN] /\ Len(Empty.tokens) = 0
      /\ ~Empty.reason /\ ~Empty.last
  BY DEF Empty
<1>4. /\ slot'[s] = Empty /\ DOMAIN slot' = Replayed
      /\ \A r \in Replayed \ {s} : slot'[r] = slot[r]
  BY <1>2 DEF ReplayTyped
<1>5. /\ DOMAIN credit' = Replayed
      /\ \A r \in Replayed \ {s} : credit'[r] = credit[r]
      /\ credit'[s] = IF at1 <= T THEN [credit[s] EXCEPT ![at1] = @ \o out.tokens] ELSE credit[s]
  BY <1>2 DEF ReplayTyped
<1>6. /\ finished' \in [Replayed -> Nat]
      /\ \A r \in Replayed \ {s} : finished'[r] = finished[r]
      /\ finished'[s] = IF out.reason /\ at1 <= T THEN finished[s] + 1 ELSE finished[s]
  BY <1>2 DEF ReplayTyped
<1>7. task' \in [Replayed -> {"running", "done", "cancelled", "failed"}]
  BY DEF Read, ReplayTyped
<1>8. /\ Taken(s)' = made[s]
      /\ \A r \in Replayed \ {s} : Taken(r)' = Taken(r)
  BY <1>1, <1>2, <1>3, <1>4 DEF Taken
<1>9. credit'[s] \in [1 .. T -> Seq(Nat)]
  <2>1. CASE at1 <= T
    <3>1. credit[s][at1] \o out.tokens \in Seq(Nat)
      BY <1>1, <2>1
    <3> QED BY <1>1, <1>5, <2>1, <3>1
  <2>2. CASE ~ (at1 <= T)
    BY <1>1, <1>5, <2>2
  <2> QED BY <2>1, <2>2
<1>10. ReplayTyped'
  <2>1. \A r \in Replayed :
          /\ slot'[r] \in [tokens : Seq(Nat), reason : BOOLEAN, last : BOOLEAN]
          /\ credit'[r] \in [1 .. TurnsOf(r) -> Seq(Nat)]
          /\ made'[r] <= AllTokens(r) /\ Len(slot'[r].tokens) <= made'[r]
    <3> TAKE r \in Replayed
    <3>1. CASE r = s
      BY <1>1, <1>2, <1>3, <1>4, <1>9, <3>1
    <3>2. CASE r # s
      BY <1>2, <1>4, <1>5, <3>2 DEF ReplayTyped
    <3> QED BY <3>1, <3>2
  <2> QED BY <1>2, <1>4, <1>5, <1>6, <1>7, <2>1 DEF ReplayTyped, AllTokens
<1>11. ASSUME SlotInOrder PROVE SlotInOrder'
  <2>1. \A r \in Replayed \ {s} : slot'[r] = slot[r] /\ made'[r] = made[r] /\ alive'[r] = alive[r]
                                  /\ Taken(r)' = Taken(r)
    BY <1>2, <1>4, <1>8
  <2>2. Len(slot'[s].tokens) = 0 /\ ~slot'[s].reason /\ ~slot'[s].last
    BY <1>3, <1>4
  <2> QED BY <1>11, <2>1, <2>2 DEF SlotInOrder, TurnOfToken, AllTokens
<1>13. at1 = finished[s] + 1
  OBVIOUS
<1> HIDE DEF at1
<1>12. ASSUME SlotInOrder, CreditsInOrder PROVE CreditsInOrder'
  <2> DEFINE c == Taken(s)
             m == made[s]
  <2>1. finished[s] <= Reasons(s, c)
    BY <1>12 DEF CreditsInOrder
  <2>2. out.reason => c < m /\ (m < T \/ m = all)
    BY <1>1, <1>12 DEF SlotInOrder
  <2>3. c \in Nat /\ m \in Nat /\ c <= m /\ m <= all /\ p = m - c
    BY <1>1
  <2>4. /\ Reasons(s, c) \in Nat /\ Reasons(s, m) \in Nat
        /\ Reasons(s, c) <= Reasons(s, m) /\ Reasons(s, m) <= T
        /\ out.reason => Reasons(s, c) < Reasons(s, m)
    BY <2>2, <2>3, ReasonsGrow
  <2>9. \A n \in 1 .. p : out.tokens[n] = TurnOfToken(s, c + n)
    BY <1>12 DEF SlotInOrder
  <2>10. finished[s] = Reasons(s, c) =>
           \A t \in 1 .. T : credit[s][t] = [n \in 1 .. TokensOf(s, t, c) |-> t]
    BY <1>12 DEF CreditsInOrder
  <2>11. \/ ~out.reason /\ finished'[s] = finished[s]
         \/ at1 > T /\ finished'[s] = finished[s]
         \/ out.reason /\ finished'[s] = finished[s] + 1
    <3>1. at1 \in Nat
      BY <1>1, <1>13
    <3> HIDE DEF out, T
    <3>2. CASE at1 <= T /\ out.reason
      BY <1>6, <3>2
    <3>3. CASE ~out.reason
      BY <1>6, <3>3
    <3>4. CASE ~ (at1 <= T)
      BY <1>1, <1>6, <3>1, <3>4
    <3> QED BY <3>2, <3>3, <3>4
  <2> HIDE DEF c, m, out, p
  <2>5. finished'[s] <= Reasons(s, m)
    BY <1>1, <2>1, <2>4, <2>11
  <2>6. ASSUME finished'[s] = Reasons(s, m), NEW t \in 1 .. T
        PROVE  credit'[s][t] = [n \in 1 .. TokensOf(s, t, m) |-> t]
    <3>1. /\ finished[s] = Reasons(s, c)
          /\ \/ Reasons(s, m) = Reasons(s, c)
             \/ Reasons(s, m) = Reasons(s, c) + 1 /\ (m < T \/ m = all)
      BY <1>1, <2>1, <2>2, <2>4, <2>6, <2>11
    <3>2. credit[s][t] = [n \in 1 .. TokensOf(s, t, c) |-> t]
      BY <2>10, <3>1
    <3>3. /\ TokensOf(s, t, c) \in Nat
          /\ t # at1 => TokensOf(s, t, m) = TokensOf(s, t, c)
          /\ t = at1 => /\ TokensOf(s, t, m) = TokensOf(s, t, c) + p
                        /\ \A n \in c + 1 .. m : TurnOfToken(s, n) = t
      BY <1>13, <2>3, <3>1, OneTurnGrows
    <3>4. CASE t # at1
      <4>1. credit'[s][t] = credit[s][t]
        BY <1>1, <1>5, <3>4
      <4> QED BY <3>2, <3>3, <3>4, <4>1
    <3>5. CASE t = at1
      <4>1. credit'[s][t] = credit[s][t] \o out.tokens
        <5>1. at1 \in 1 .. T /\ at1 <= T
          BY <3>5
        <5>2. credit'[s] = [credit[s] EXCEPT ![at1] = @ \o out.tokens]
          BY <1>5, <5>1
        <5> HIDE DEF T
        <5> QED BY <1>1, <3>5, <5>1, <5>2
      <4>2. \A n \in 1 .. p : out.tokens[n] = t
        <5> TAKE n \in 1 .. p
        <5>1. c + n \in c + 1 .. m
          BY <1>1, <2>3
        <5> QED BY <2>9, <3>3, <3>5, <5>1
      <4>3. t \in Nat /\ out.tokens \in Seq(Nat)
        BY <1>1
      <4>4. [n \in 1 .. TokensOf(s, t, c) |-> t] \o out.tokens =
              [n \in 1 .. TokensOf(s, t, c) + p |-> t]
        BY <3>3, <4>2, <4>3, SameTokensAppended DEF p, out
      <4> QED BY <3>2, <3>3, <3>5, <4>1, <4>4
    <3> QED BY <3>4, <3>5
  <2>7. /\ finished'[s] <= Reasons(s, Taken(s)')
        /\ finished'[s] = Reasons(s, Taken(s)') =>
             \A t \in 1 .. T : credit'[s][t] = [n \in 1 .. TokensOf(s, t, Taken(s)') |-> t]
    BY <1>8, <2>5, <2>6 DEF m
  <2>8. ASSUME NEW r \in Replayed \ {s}
        PROVE  /\ finished'[r] <= Reasons(r, Taken(r)')
               /\ finished'[r] = Reasons(r, Taken(r)') =>
                    \A t \in 1 .. TurnsOf(r) :
                      credit'[r][t] = [n \in 1 .. TokensOf(r, t, Taken(r)') |-> t]
    BY <1>5, <1>6, <1>8, <1>12 DEF CreditsInOrder
  <2> QED BY <2>7, <2>8 DEF CreditsInOrder, Reasons, TokensOf, AllTokens
<1> QED BY <1>10, <1>11, <1>12

\* Every step keeps the types.
LEMMA ReplayTypes ==
  ASSUME ReplayTyped, [ReplayNext]_replayVars
  PROVE  ReplayTyped'
<1> USE DEF engineVars, clientVars, driverVars
<1>1. ASSUME NEW s \in Replayed, Token(s) PROVE ReplayTyped'
  BY <1>1, TokenKeeps
<1>2. ASSUME NEW s \in Replayed, Read(s) PROVE ReplayTyped'
  BY <1>2, ReadKeeps
<1>3. ASSUME NEW s \in Replayed, EndOfStream(s) PROVE ReplayTyped'
  BY <1>3 DEF EndOfStream, Merged, ReplayTyped
<1>4. ASSUME NEW s \in Replayed, ReleaseWarm(s) PROVE ReplayTyped'
  BY <1>4 DEF ReleaseWarm, ReplayTyped
<1>5. ASSUME NEW s \in Replayed, Send(s) PROVE ReplayTyped'
  BY <1>5 DEF Send, ReplayTyped
<1>6. ASSUME NEW s \in Replayed, CloseStream(s) PROVE ReplayTyped'
  BY <1>6 DEF CloseStream, ReplayTyped
<1>7. ASSUME NEW s \in Replayed, CancelTask(s) PROVE ReplayTyped'
  BY <1>7 DEF CancelTask, Cancelled, ReplayTyped
<1>8. ASSUME NEW s \in Replayed, Demote(s) PROVE ReplayTyped'
  BY <1>8 DEF Demote, ReplayTyped
<1>9. ASSUME NEW s \in Replayed, SessionFails(s) PROVE ReplayTyped'
  BY <1>9 DEF SessionFails, ReplayTyped
<1>10. CASE SessionsDone
  BY <1>10 DEF SessionsDone, Drive, ReplayTyped
<1>11. CASE SessionFailed
  BY <1>11 DEF SessionFailed, Drive, ReplayTyped
<1>12. CASE Snapshot
  BY <1>12 DEF Snapshot, Drive, ReplayTyped
<1>13. CASE DrainEnds
  BY <1>13 DEF DrainEnds, Drive, ReplayTyped
<1>14. CASE FailureSettles
  BY <1>14 DEF FailureSettles, Drive, ReplayTyped
<1>15. CASE Judge
  BY <1>15 DEF Judge, Drive, ReplayTyped
<1>16. CASE Timeout
  BY <1>16 DEF Timeout, Drive, ReplayTyped
<1>17. CASE Observe
  BY <1>17 DEF Observe, ReplayTyped
<1>18. CASE UNCHANGED replayVars
  BY <1>18 DEF replayVars, ReplayTyped
<1> QED BY <1>1, <1>2, <1>3, <1>4, <1>5, <1>6, <1>7, <1>8, <1>9, <1>10,
           <1>11, <1>12, <1>13, <1>14, <1>15, <1>16, <1>17, <1>18
        DEF ReplayNext, Engine, Client, Driver, ReplayOver

\* The order of the slot and of the credits: no step but a token and a read
\* touches them, and the end of the stream.
LEMMA ReplaySlots ==
  ASSUME ReplayTyped, SlotInOrder, CreditsInOrder, [ReplayNext]_replayVars
  PROVE  (SlotInOrder /\ CreditsInOrder)'
<1> USE DEF engineVars, clientVars, driverVars
<1>1. ASSUME NEW s \in Replayed, Token(s) PROVE (SlotInOrder /\ CreditsInOrder)'
  BY <1>1, TokenKeeps
<1>2. ASSUME NEW s \in Replayed, Read(s) PROVE (SlotInOrder /\ CreditsInOrder)'
  BY <1>2, ReadKeeps
<1>3. ASSUME NEW s \in Replayed, EndOfStream(s) PROVE (SlotInOrder /\ CreditsInOrder)'
  BY <1>3 DEF EndOfStream, Merged, ReplayTyped, SlotInOrder, CreditsInOrder, Taken
<1>4. ASSUME NEW s \in Replayed, ReleaseWarm(s) PROVE (SlotInOrder /\ CreditsInOrder)'
  BY <1>4 DEF ReleaseWarm, ReplayTyped, SlotInOrder, CreditsInOrder, Taken
<1>5. ASSUME NEW s \in Replayed, Send(s) PROVE (SlotInOrder /\ CreditsInOrder)'
  BY <1>5 DEF Send, ReplayTyped, SlotInOrder, CreditsInOrder, Taken
<1>6. ASSUME NEW s \in Replayed, CloseStream(s) PROVE (SlotInOrder /\ CreditsInOrder)'
  BY <1>6 DEF CloseStream, ReplayTyped, SlotInOrder, CreditsInOrder, Taken
<1>7. ASSUME NEW s \in Replayed, CancelTask(s) PROVE (SlotInOrder /\ CreditsInOrder)'
  BY <1>7 DEF CancelTask, Cancelled, ReplayTyped, SlotInOrder, CreditsInOrder, Taken
<1>8. ASSUME NEW s \in Replayed, Demote(s) PROVE (SlotInOrder /\ CreditsInOrder)'
  BY <1>8 DEF Demote, ReplayTyped, SlotInOrder, CreditsInOrder, Taken
<1>9. ASSUME NEW s \in Replayed, SessionFails(s) PROVE (SlotInOrder /\ CreditsInOrder)'
  BY <1>9 DEF SessionFails, ReplayTyped, SlotInOrder, CreditsInOrder, Taken
<1>10. CASE SessionsDone
  BY <1>10 DEF SessionsDone, Drive, ReplayTyped, SlotInOrder, CreditsInOrder, Taken
<1>11. CASE SessionFailed
  BY <1>11 DEF SessionFailed, Drive, ReplayTyped, SlotInOrder, CreditsInOrder, Taken
<1>12. CASE Snapshot
  BY <1>12 DEF Snapshot, Drive, ReplayTyped, SlotInOrder, CreditsInOrder, Taken
<1>13. CASE DrainEnds
  BY <1>13 DEF DrainEnds, Drive, ReplayTyped, SlotInOrder, CreditsInOrder, Taken
<1>14. CASE FailureSettles
  BY <1>14 DEF FailureSettles, Drive, ReplayTyped, SlotInOrder, CreditsInOrder, Taken
<1>15. CASE Judge
  BY <1>15 DEF Judge, Drive, ReplayTyped, SlotInOrder, CreditsInOrder, Taken
<1>16. CASE Timeout
  BY <1>16 DEF Timeout, Drive, ReplayTyped, SlotInOrder, CreditsInOrder, Taken
<1>17. CASE Observe
  BY <1>17 DEF Observe, ReplayTyped, SlotInOrder, CreditsInOrder, Taken
<1>18. CASE UNCHANGED replayVars
  BY <1>18 DEF replayVars, ReplayTyped, SlotInOrder, CreditsInOrder, Taken
<1> QED BY <1>1, <1>2, <1>3, <1>4, <1>5, <1>6, <1>7, <1>8, <1>9, <1>10,
           <1>11, <1>12, <1>13, <1>14, <1>15, <1>16, <1>17, <1>18
        DEF ReplayNext, Engine, Client, Driver, ReplayOver

\* And the order of the tasks.
LEMMA ReplayTasks ==
  ASSUME ReplayTyped, SlotInOrder, TasksInOrder, [ReplayNext]_replayVars
  PROVE  TasksInOrder'
<1> USE DEF engineVars, clientVars, driverVars
<1>1. ASSUME NEW s \in Replayed, Token(s) PROVE TasksInOrder'
  BY <1>1 DEF Token, ReplayTyped, SlotInOrder, TasksInOrder, Settled, AnyWarm
<1>2. ASSUME NEW s \in Replayed, Read(s) PROVE TasksInOrder'
  BY <1>2 DEF Read, ReplayTyped, SlotInOrder, TasksInOrder, Settled, AnyWarm
<1>3. ASSUME NEW s \in Replayed, EndOfStream(s) PROVE TasksInOrder'
  BY <1>3 DEF EndOfStream, Merged, ReplayTyped, SlotInOrder, TasksInOrder, Settled, AnyWarm
<1>4. ASSUME NEW s \in Replayed, ReleaseWarm(s) PROVE TasksInOrder'
  BY <1>4 DEF ReleaseWarm, ReplayTyped, SlotInOrder, TasksInOrder, Settled, AnyWarm
<1>5. ASSUME NEW s \in Replayed, Send(s) PROVE TasksInOrder'
  BY <1>5 DEF Send, ReplayTyped, SlotInOrder, TasksInOrder, Settled, AnyWarm
<1>6. ASSUME NEW s \in Replayed, CloseStream(s) PROVE TasksInOrder'
  BY <1>6 DEF CloseStream, ReplayTyped, SlotInOrder, TasksInOrder, Settled, AnyWarm
<1>7. ASSUME NEW s \in Replayed, CancelTask(s) PROVE TasksInOrder'
  BY <1>7 DEF CancelTask, Cancelled, ReplayTyped, SlotInOrder, TasksInOrder, Settled, AnyWarm
<1>8. ASSUME NEW s \in Replayed, Demote(s) PROVE TasksInOrder'
  BY <1>8 DEF Demote, ReplayTyped, SlotInOrder, TasksInOrder, Settled, AnyWarm
<1>9. ASSUME NEW s \in Replayed, SessionFails(s) PROVE TasksInOrder'
  BY <1>9 DEF SessionFails, ReplayTyped, SlotInOrder, TasksInOrder, Settled, AnyWarm
<1>10. CASE SessionsDone
  BY <1>10 DEF SessionsDone, Drive, ReplayTyped, SlotInOrder, TasksInOrder, Settled, AnyWarm
<1>11. CASE SessionFailed
  BY <1>11 DEF SessionFailed, Drive, ReplayTyped, SlotInOrder, TasksInOrder, Settled, AnyWarm
<1>12. CASE Snapshot
  BY <1>12 DEF Snapshot, Drive, ReplayTyped, SlotInOrder, TasksInOrder, Settled, AnyWarm
<1>13. CASE DrainEnds
  BY <1>13 DEF DrainEnds, Drive, ReplayTyped, SlotInOrder, TasksInOrder, Settled, AnyWarm
<1>14. CASE FailureSettles
  BY <1>14 DEF FailureSettles, Drive, ReplayTyped, SlotInOrder, TasksInOrder, Settled, AnyWarm
<1>15. CASE Judge
  BY <1>15 DEF Judge, Drive, ReplayTyped, SlotInOrder, TasksInOrder, Settled, AnyWarm
<1>16. CASE Timeout
  BY <1>16 DEF Timeout, Drive, ReplayTyped, SlotInOrder, TasksInOrder, Settled, AnyWarm
<1>17. CASE Observe
  BY <1>17 DEF Observe, ReplayTyped, SlotInOrder, TasksInOrder, Settled, AnyWarm
<1>18. CASE UNCHANGED replayVars
  BY <1>18 DEF replayVars, ReplayTyped, SlotInOrder, TasksInOrder, Settled, AnyWarm
<1> QED BY <1>1, <1>2, <1>3, <1>4, <1>5, <1>6, <1>7, <1>8, <1>9, <1>10,
           <1>11, <1>12, <1>13, <1>14, <1>15, <1>16, <1>17, <1>18
        DEF ReplayNext, Engine, Client, Driver, ReplayOver

LEMMA ReplayInits == ReplayInit => ReplayInvariant
<1> SUFFICES ASSUME ReplayInit PROVE ReplayInvariant
  OBVIOUS
<1>1. /\ Empty \in [tokens : Seq(Nat), reason : BOOLEAN, last : BOOLEAN]
      /\ Len(Empty.tokens) = 0 /\ ~Empty.reason /\ ~Empty.last
  BY DEF Empty
<1>2. ASSUME NEW s \in Replayed
      PROVE  /\ TurnsOf(s) \in Nat \ {0} /\ AllTokens(s) \in Nat
             /\ slot[s] = Empty /\ made[s] = 0 /\ finished[s] = 0 /\ Taken(s) = 0
             /\ credit[s] = [t \in 1 .. TurnsOf(s) |-> <<>>]
             /\ alive[s] /\ ~warmed[s] /\ task[s] = "running"
  BY <1>1, TurnsAssumption, TokensAssumption DEF ReplayInit, Taken, AllTokens
<1>3. ReplayTyped
  <2>1. /\ alive \in [Replayed -> BOOLEAN] /\ warmed \in [Replayed -> BOOLEAN]
        /\ task \in [Replayed -> {"running", "done", "cancelled", "failed"}]
        /\ made \in [Replayed -> Nat] /\ finished \in [Replayed -> Nat]
        /\ DOMAIN slot = Replayed /\ DOMAIN credit = Replayed
    BY DEF ReplayInit
  <2>2. \A s \in Replayed :
          /\ slot[s] \in [tokens : Seq(Nat), reason : BOOLEAN, last : BOOLEAN]
          /\ credit[s] \in [1 .. TurnsOf(s) -> Seq(Nat)]
          /\ made[s] <= AllTokens(s) /\ Len(slot[s].tokens) <= made[s]
    <3> TAKE s \in Replayed
    <3>1. [t \in 1 .. TurnsOf(s) |-> <<>>] \in [1 .. TurnsOf(s) -> Seq(Nat)]
      OBVIOUS
    <3>2. credit[s] \in [1 .. TurnsOf(s) -> Seq(Nat)]
      BY <1>2, <3>1, Zenon
    <3>3. slot[s] = Empty /\ made[s] = 0 /\ AllTokens(s) \in Nat
      BY <1>2
    <3> QED BY <1>1, <3>2, <3>3
  <2> QED BY <2>1, <2>2 DEF ReplayInit, ReplayTyped
<1>4. SlotInOrder
  <2>1. \A s \in Replayed : /\ Len(slot[s].tokens) = 0 /\ ~slot[s].reason /\ ~slot[s].last
    BY <1>1, <1>2, Zenon
  <2> QED BY <2>1 DEF SlotInOrder
<1>5. CreditsInOrder
  <2> SUFFICES ASSUME NEW s \in Replayed
               PROVE  /\ finished[s] <= Reasons(s, Taken(s))
                      /\ \A t \in 1 .. TurnsOf(s) :
                           credit[s][t] = [n \in 1 .. TokensOf(s, t, Taken(s)) |-> t]
    BY DEF CreditsInOrder
  <2>1. Reasons(s, 0) = 0 /\ \A t \in 1 .. TurnsOf(s) : TokensOf(s, t, 0) = 0
    BY TurnsAssumption DEF Reasons, TokensOf
  <2>2. ASSUME NEW t \in 1 .. TurnsOf(s)
        PROVE  credit[s][t] = [n \in 1 .. TokensOf(s, t, Taken(s)) |-> t]
    <3>1. [n \in 1 .. 0 |-> t] = <<>>
      OBVIOUS
    <3>2. credit[s][t] = <<>>
      <4>1. credit[s] = [u \in 1 .. TurnsOf(s) |-> <<>>]
        BY <1>2, Zenon
      <4> QED BY <4>1, Zenon
    <3>3. TokensOf(s, t, Taken(s)) = 0
      BY <1>2, <2>1, Zenon
    <3> QED BY <3>1, <3>2, <3>3, Zenon
  <2>3. finished[s] <= Reasons(s, Taken(s))
    <3>1. finished[s] = 0 /\ Taken(s) = 0
      BY <1>2
    <3> QED BY <2>1, <3>1
  <2> QED BY <2>2, <2>3
<1>6. TasksInOrder
  BY <1>2 DEF TasksInOrder, ReplayInit
<1> QED BY <1>3, <1>4, <1>5, <1>6 DEF ReplayInvariant

\* In every run of run_qwen_bailian_replay.py the one output that waits for a
\* session holds the tokens not yet read, in order, no turn counts as finished
\* that is not, and a session none of whose finish reasons got lost in a merged
\* output has each turn credited with its own tokens.
THEOREM ReplayRunInvariant == ReplaySpec => []ReplayInvariant
<1>1. ASSUME ReplayInvariant, [ReplayNext]_replayVars PROVE ReplayInvariant'
  BY <1>1, ReplayTypes, ReplaySlots, ReplayTasks DEF ReplayInvariant
<1> QED BY <1>1, ReplayInits, PTL DEF ReplaySpec

\* A session that run_qwen_bailian_replay.py counts as completed has measured
\* every turn by its own tokens, however the collector merged its outputs: who
\* has a finish reason for each turn has lost none of them.
THEOREM ReplayCounts == ReplaySpec => []CompletedTurnsExact
<1>1. ASSUME ReplayInvariant PROVE CompletedTurnsExact
  <2> SUFFICES ASSUME NEW s \in Replayed, finished[s] = TurnsOf(s),
                      NEW t \in 1 .. TurnsOf(s)
               PROVE  credit[s][t] = Expected(s, t)
    BY DEF CompletedTurnsExact
  <2>1. /\ TurnsOf(s) \in Nat \ {0} /\ FinalTokens \in Nat \ {0}
        /\ Taken(s) \in Nat /\ Taken(s) <= AllTokens(s)
    BY <1>1, TurnsAssumption, TokensAssumption DEF ReplayInvariant, ReplayTyped, Taken, AllTokens
  <2>2. finished[s] <= Reasons(s, Taken(s))
    BY <1>1 DEF ReplayInvariant, CreditsInOrder
  <2>3. Taken(s) = AllTokens(s) /\ finished[s] = Reasons(s, Taken(s))
    BY <2>1, <2>2 DEF Reasons, AllTokens
  <2>4. credit[s][t] = [n \in 1 .. TokensOf(s, t, AllTokens(s)) |-> t]
    <3>1. \A u \in 1 .. TurnsOf(s) : credit[s][u] = [n \in 1 .. TokensOf(s, u, Taken(s)) |-> u]
      BY <1>1, <2>3 DEF ReplayInvariant, CreditsInOrder
    <3> QED BY <2>3, <3>1
  <2>5. TokensOf(s, t, AllTokens(s)) = IF t = TurnsOf(s) THEN FinalTokens ELSE 1
    BY <2>1 DEF TokensOf, AllTokens
  <2> QED BY <2>4, <2>5 DEF Expected
<1> QED BY <1>1, ReplayRunInvariant, PTL

\* A replay that passes has completed every session, has seen WARM blocks and
\* has left none, and every request was gone when the engine was shut down.
THEOREM ReplayPasses == ReplaySpec => []PassedRunIsClean
<1>1. ReplayInvariant => PassedRunIsClean
  BY DEF ReplayInvariant, TasksInOrder, PassedRunIsClean
<1> QED BY <1>1, ReplayRunInvariant, PTL
-----------------------------------------------------------------------------
(* The evaluations that are killed and invoked again.                      *)

EvalSpec == EvalInit /\ [][EvalNext]_evalVars

EvalTyped ==
  /\ script \in {"math500", "qasper"}
  /\ lines \in Seq(Index \cup {Bad}) /\ tail \in {NoTail, Torn, Split} \cup Index
  /\ csv \in Seq(Index) /\ todo \in Seq(Index)
  /\ phase \in {"off", "running", "saving"}
  /\ outcome \in {"none", "ok", "error", "killed"}
  /\ phase # "off" => ~Undecodable

\* What is still to be done is not in the file, nor twice in the list.
TodoIsNew ==
  /\ \A m, n \in 1 .. Len(todo) : todo[m] = todo[n] => m = n
  /\ \A n \in 1 .. Len(todo) : todo[n] \notin Readable

\* A file that can be read whole is the beginning of the data set in its
\* order, and the invocation goes on where it ends.  (A file that cannot be
\* read whole cannot be read again.)
MathInOrder ==
  script = "math500" =>
    /\ ~Unparsable => \A row \in 1 .. Len(AllLines) : AllLines[row] = row - 1
    /\ phase = "running" /\ ~Unparsable =>
         /\ Len(AllLines) + Len(todo) = Examples
         /\ \A n \in 1 .. Len(todo) : todo[n] = Len(AllLines) + n - 1
    /\ phase = "saving" => ~Unparsable /\ Len(AllLines) = Examples
    /\ outcome = "ok" => /\ phase = "off" /\ ~Unparsable /\ Len(AllLines) = Examples
                         /\ csv = AllLines

\* What a running invocation does not find in the file it has still to do, but
\* for two examples: the one that joined an unterminated line and the one on
\* that line.  While the line stands nothing is lost.
QasperCovers ==
  script = "qasper" =>
    /\ phase = "running" /\ tail # NoTail => Index \ Readable \subseteq Range(todo)
    /\ phase = "running" => \E a, b \in Int : Index \ Readable \subseteq Range(todo) \cup {a, b}
    /\ outcome = "ok" => phase = "off" /\ \E a, b \in Int : Index \ Readable \subseteq {a, b}

\* The row of a record is in the CSV before the record is in the file.
QasperMeasured ==
  script = "qasper" => phase # "saving" /\ Readable \subseteq Range(csv)

EvalInvariant ==
  EvalTyped /\ RecordedOnce /\ TodoIsNew /\ MathInOrder /\ QasperCovers /\ QasperMeasured

\* What a reader sees of a file: its lines and what stands behind the last
\* newline.
Rows(ls, tl) == ls \o CASE tl = NoTail -> <<>> [] tl \in {Torn, Split} -> <<Bad>> [] OTHER -> <<tl>>

LEMMA RowsOf ==
  ASSUME NEW ls \in Seq(Index \cup {Bad}), NEW tl \in {NoTail, Torn, Split} \cup Index
  PROVE  /\ Rows(ls, tl) \in Seq(Index \cup {Bad}) /\ Len(ls) \in Nat
         /\ Len(Rows(ls, tl)) = Len(ls) + IF tl = NoTail THEN 0 ELSE 1
         /\ \A p \in 1 .. Len(ls) : Rows(ls, tl)[p] = ls[p]
         /\ tl # NoTail => Rows(ls, tl)[Len(ls) + 1] = IF tl \in {Torn, Split} THEN Bad ELSE tl
<1> DEFINE rest == CASE tl = NoTail -> <<>> [] tl \in {Torn, Split} -> <<Bad>> [] OTHER -> <<tl>>
           row == IF tl \in {Torn, Split} THEN Bad ELSE tl
<1>1. NoTail \notin {Torn, Split} /\ NoTail \notin Index /\ Torn \notin Index /\ Split \notin Index
  BY DEF NoTail, Torn, Split, Index
<1>2. Rows(ls, tl) = ls \o rest /\ Len(ls) \in Nat
  BY DEF Rows
<1>3. /\ tl = NoTail => rest = <<>>
      /\ tl # NoTail => rest = <<row>> /\ row \in Index \cup {Bad}
  BY <1>1
<1> HIDE DEF rest, row
<1>4. CASE tl = NoTail
  <2>1. Rows(ls, tl) = ls
    BY <1>2, <1>3, <1>4
  <2>2. Len(ls) + (IF tl = NoTail THEN 0 ELSE 1) = Len(ls)
    BY <1>2, <1>4
  <2> QED BY <1>2, <1>4, <2>1, <2>2, Zenon
<1>5. CASE tl # NoTail
  <2>1. Rows(ls, tl) = ls \o <<row>> /\ row \in Index \cup {Bad}
    BY <1>2, <1>3, <1>5
  <2>2. <<row>> \in Seq(Index \cup {Bad}) /\ Len(<<row>>) = 1 /\ <<row>>[1] = row
    BY <2>1
  <2>3. /\ Rows(ls, tl) \in Seq(Index \cup {Bad}) /\ Len(Rows(ls, tl)) = Len(ls) + 1
        /\ \A p \in 1 .. Len(ls) : Rows(ls, tl)[p] = ls[p]
    BY <2>1, <2>2
  <2>4. Rows(ls, tl)[Len(ls) + 1] = row
    BY <1>2, <2>1, <2>2
  <2> QED BY <1>2, <1>5, <2>3, <2>4 DEF row
<1> QED BY <1>4, <1>5

LEMMA AllRows ==
  /\ EvalTyped =>
       /\ AllLines \in Seq(Index \cup {Bad}) /\ Len(lines) \in Nat
       /\ Len(AllLines) = Len(lines) + IF tail = NoTail THEN 0 ELSE 1
       /\ \A p \in 1 .. Len(lines) : AllLines[p] = lines[p]
       /\ tail # NoTail => AllLines[Len(lines) + 1] = IF tail \in {Torn, Split} THEN Bad ELSE tail
  /\ lines' \in Seq(Index \cup {Bad}) /\ tail' \in {NoTail, Torn, Split} \cup Index =>
       /\ AllLines' \in Seq(Index \cup {Bad}) /\ Len(lines') \in Nat
       /\ Len(AllLines') = Len(lines') + IF tail' = NoTail THEN 0 ELSE 1
       /\ \A p \in 1 .. Len(lines') : AllLines'[p] = lines'[p]
       /\ tail' # NoTail => AllLines'[Len(lines') + 1] = IF tail' \in {Torn, Split} THEN Bad ELSE tail'
<1>1. AllLines = Rows(lines, tail) /\ AllLines' = Rows(lines', tail')
  BY DEF AllLines, Rows
<1>2. EvalTyped => lines \in Seq(Index \cup {Bad}) /\ tail \in {NoTail, Torn, Split} \cup Index
  BY DEF EvalTyped
<1> QED BY <1>1, <1>2, RowsOf

LEMMA WrittenRows ==
  ASSUME NEW records \in Seq(Index)
  PROVE  /\ Written(records) \in Seq(Index \cup {Bad}) /\ Len(Written(records)) = Len(records)
         /\ \A q \in 1 .. Len(records) :
              Written(records)[q] = IF q = 1 /\ tail # NoTail THEN Bad ELSE records[q]
<1>1. CASE tail = NoTail \/ records = <<>>
  BY <1>1 DEF Written
<1>2. CASE ~ (tail = NoTail \/ records = <<>>)
  <2>1. Written(records) = <<Bad>> \o Tail(records)
    BY <1>2 DEF Written
  <2>2. /\ Tail(records) \in Seq(Index) /\ Len(Tail(records)) = Len(records) - 1
        /\ Len(records) \in Nat \ {0}
        /\ \A q \in 1 .. Len(records) - 1 : Tail(records)[q] = records[q + 1]
    BY <1>2
  <2>3. /\ <<Bad>> \o Tail(records) \in Seq(Index \cup {Bad})
        /\ Len(<<Bad>> \o Tail(records)) = Len(records)
        /\ (<<Bad>> \o Tail(records))[1] = Bad
        /\ \A q \in 2 .. Len(records) : (<<Bad>> \o Tail(records))[q] = Tail(records)[q - 1]
    BY <2>2
  <2>4. \A q \in 2 .. Len(records) : (<<Bad>> \o Tail(records))[q] = records[q]
    <3> TAKE q \in 2 .. Len(records)
    <3>1. q - 1 \in 1 .. Len(records) - 1 /\ (q - 1) + 1 = q
      BY <2>2
    <3> QED BY <2>2, <2>3, <3>1
  <2> QED BY <1>2, <2>1, <2>2, <2>3, <2>4
<1> QED BY <1>1, <1>2

\* After an append, cut or not, a reader sees the complete lines of before and
\* behind them some of the records, each itself or a line that does not parse:
\* the first one if it joined an unterminated line.
Extended(records, n) ==
  /\ n \in 1 .. Len(records)
  /\ Len(AllLines') = Len(lines) + n
  /\ \A p \in 1 .. Len(lines) : AllLines'[p] = lines[p]
  /\ \A q \in 1 .. n : AllLines'[Len(lines) + q] \in {records[q], Bad}
  /\ tail # NoTail => AllLines'[Len(lines) + 1] = Bad

LEMMA AppendExtends ==
  ASSUME EvalTyped, NEW records \in Seq(Index), records # <<>>, AppendRecords(records)
  PROVE  /\ lines' \in Seq(Index \cup {Bad}) /\ tail' = NoTail
         /\ Extended(records, Len(records))
         /\ \A q \in 1 .. Len(records) :
              q > 1 \/ tail = NoTail => AllLines'[Len(lines) + q] = records[q]
<1> DEFINE W == Written(records)
<1>1. /\ W \in Seq(Index \cup {Bad}) /\ Len(W) = Len(records)
      /\ \A q \in 1 .. Len(records) : W[q] = IF q = 1 /\ tail # NoTail THEN Bad ELSE records[q]
  BY WrittenRows
<1>2. lines' = lines \o W /\ tail' = NoTail
  BY DEF AppendRecords
<1>3. lines \in Seq(Index \cup {Bad}) /\ Len(records) \in Nat \ {0}
  BY DEF EvalTyped
<1> HIDE DEF W
<1>4. /\ lines' \in Seq(Index \cup {Bad}) /\ Len(lines') = Len(lines) + Len(records)
      /\ \A p \in 1 .. Len(lines) : lines'[p] = lines[p]
      /\ \A q \in 1 .. Len(records) : lines'[Len(lines) + q] = W[q]
      /\ Len(lines) \in Nat
  <2>1. /\ W \in Seq(Index \cup {Bad}) /\ lines \in Seq(Index \cup {Bad}) /\ Len(W) = Len(records)
        /\ lines' = lines \o W /\ Len(lines) \in Nat /\ Len(W) \in Nat
    BY <1>1, <1>2, <1>3
  <2>2. lines \o W \in Seq(Index \cup {Bad}) /\ Len(lines \o W) = Len(lines) + Len(W)
    BY <2>1, ConcatProperties, Zenon
  <2>3. \A p \in 1 .. Len(lines) : (lines \o W)[p] = lines[p]
    BY <2>1
  <2>4. \A q \in 1 .. Len(W) : (lines \o W)[Len(lines) + q] = W[q]
    BY <2>1
  <2> QED BY <2>1, <2>2, <2>3, <2>4, Zenon
<1>5. /\ Len(AllLines') = Len(lines')
      /\ \A p \in 1 .. Len(lines') : AllLines'[p] = lines'[p]
  BY <1>2, <1>4, AllRows
<1>6. \A p \in 1 .. Len(lines) : AllLines'[p] = lines[p]
  BY <1>3, <1>4, <1>5
<1>7. \A q \in 1 .. Len(records) : AllLines'[Len(lines) + q] = W[q]
  BY <1>3, <1>4, <1>5
<1> QED BY <1>1, <1>2, <1>3, <1>4, <1>5, <1>6, <1>7 DEF Extended

LEMMA CutExtends ==
  ASSUME EvalTyped, NEW records \in Seq(Index), CutAppendRecords(records)
  PROVE  /\ lines' \in Seq(Index \cup {Bad}) /\ tail' \in {NoTail, Torn, Split} \cup Index
         /\ AllLines' = AllLines \/ \E n \in 1 .. Len(records) : Extended(records, n)
<1> DEFINE W == Written(records)
<1>1. /\ W \in Seq(Index \cup {Bad}) /\ Len(W) = Len(records) /\ Len(records) \in Nat
      /\ \A q \in 1 .. Len(records) : W[q] = IF q = 1 /\ tail # NoTail THEN Bad ELSE records[q]
  BY WrittenRows
<1>2. PICK whole \in 0 .. Len(records) :
        /\ lines' = lines \o SubSeq(W, 1, whole)
        /\ \/ tail' = IF whole = 0 THEN tail ELSE NoTail
           \/ /\ whole < Len(records)
              /\ tail' \in {Torn, Split} \cup IF whole = 0 /\ tail # NoTail THEN {} ELSE {records[whole + 1]}
  BY DEF CutAppendRecords
<1>3. lines \in Seq(Index \cup {Bad}) /\ tail \in {NoTail, Torn, Split} \cup Index /\ Len(lines) \in Nat
  BY DEF EvalTyped
<1> HIDE DEF W
<1>4. /\ SubSeq(W, 1, whole) \in Seq(Index \cup {Bad}) /\ Len(SubSeq(W, 1, whole)) = whole
      /\ \A q \in 1 .. whole : SubSeq(W, 1, whole)[q] = W[q]
  BY <1>1
<1>5. /\ lines' \in Seq(Index \cup {Bad}) /\ Len(lines') = Len(lines) + whole
      /\ \A p \in 1 .. Len(lines) : lines'[p] = lines[p]
      /\ \A q \in 1 .. whole : lines'[Len(lines) + q] = W[q]
  BY <1>2, <1>3, <1>4
<1>6. whole < Len(records) => records[whole + 1] \in Index /\ whole + 1 \in 1 .. Len(records)
  BY <1>1
<1>7. tail' \in {NoTail, Torn, Split} \cup Index
  BY <1>2, <1>3, <1>6
<1>8. /\ Len(AllLines') = Len(lines) + whole + IF tail' = NoTail THEN 0 ELSE 1
      /\ \A p \in 1 .. Len(lines') : AllLines'[p] = lines'[p]
      /\ tail' # NoTail => AllLines'[Len(lines) + whole + 1] = IF tail' \in {Torn, Split} THEN Bad ELSE tail'
  BY <1>3, <1>5, <1>7, AllRows
<1>9. \A p \in 1 .. Len(lines) : AllLines'[p] = lines[p]
  BY <1>3, <1>5, <1>8
<1>10. \A q \in 1 .. whole : AllLines'[Len(lines) + q] = W[q]
  BY <1>3, <1>5, <1>8
<1>11. CASE whole = 0 /\ tail' = tail
  <2>1. lines' = lines
    <3>1. SubSeq(W, 1, 0) = <<>>
      BY <1>1
    <3> QED BY <1>2, <1>3, <1>11, <3>1
  <2> QED BY <1>5, <1>7, <1>11, <2>1 DEF AllLines
<1>12. CASE whole > 0 /\ tail' = NoTail
  <2>1. whole \in 1 .. Len(records) /\ Len(AllLines') = Len(lines) + whole
    BY <1>1, <1>3, <1>8, <1>12
  <2>2. \A q \in 1 .. whole : AllLines'[Len(lines) + q] \in {records[q], Bad}
    BY <1>1, <1>10
  <2>3. tail # NoTail => AllLines'[Len(lines) + 1] = Bad
    BY <1>1, <1>10, <2>1
  <2>4. Extended(records, whole)
    BY <1>9, <2>1, <2>2, <2>3 DEF Extended
  <2> QED BY <1>5, <1>7, <2>1, <2>4
<1>13. CASE /\ whole < Len(records)
            /\ tail' \in {Torn, Split} \cup IF whole = 0 /\ tail # NoTail THEN {} ELSE {records[whole + 1]}
  <2>1. tail' # NoTail
    BY <1>6, <1>13 DEF NoTail, Torn, Split, Index
  <2>2. whole + 1 \in 1 .. Len(records) /\ Len(AllLines') = Len(lines) + (whole + 1)
    BY <1>1, <1>3, <1>8, <1>13, <2>1
  <2>3. AllLines'[Len(lines) + (whole + 1)] \in {records[whole + 1], Bad}
    <3>1. Len(lines) + (whole + 1) = Len(lines) + whole + 1
      BY <1>3
    <3>2. records[whole + 1] \notin {Torn, Split}
      BY <1>6, <1>13 DEF Torn, Split, Index
    <3> QED BY <1>8, <1>13, <2>1, <3>1, <3>2
  <2>4. whole = 0 /\ tail # NoTail => AllLines'[Len(lines) + (whole + 1)] = Bad
    BY <1>3, <1>8, <1>13, <2>1
  <2>5. \A q \in 1 .. whole + 1 : AllLines'[Len(lines) + q] \in {records[q], Bad}
    <3> TAKE q \in 1 .. whole + 1
    <3>1. CASE q = whole + 1
      BY <2>3, <3>1
    <3>2. CASE q \in 1 .. whole
      BY <1>1, <1>10, <3>2
    <3> QED BY <3>1, <3>2
  <2>6. tail # NoTail => AllLines'[Len(lines) + 1] = Bad
    <3>1. CASE whole = 0
      BY <2>4, <3>1
    <3>2. CASE whole > 0
      BY <1>1, <1>10, <3>2
    <3> QED BY <3>1, <3>2
  <2>7. Extended(records, whole + 1)
    BY <1>9, <2>2, <2>5, <2>6 DEF Extended
  <2> QED BY <1>5, <1>7, <2>2, <2>7
<1> QED BY <1>2, <1>11, <1>12, <1>13

\* New records keep the file free of repetitions, and a file that can be read
\* whole has got all of them.
LEMMA RowsGrow ==
  ASSUME EvalTyped, RecordedOnce, NEW records \in Seq(Index), NEW n \in 1 .. Len(records),
         Extended(records, n),
         lines' \in Seq(Index \cup {Bad}), tail' \in {NoTail, Torn, Split} \cup Index,
         \A p, q \in 1 .. Len(records) : records[p] = records[q] => p = q,
         \A q \in 1 .. Len(records) : records[q] \notin Readable
  PROVE  /\ RecordedOnce'
         /\ \A i \in Readable' : i \in Readable \/ \E q \in 1 .. Len(records) : records[q] = i
         /\ ~Unparsable' =>
              /\ AllLines = lines /\ ~Unparsable
              /\ Len(AllLines') = Len(AllLines) + n
              /\ \A p \in 1 .. Len(AllLines) : AllLines'[p] = AllLines[p]
              /\ \A q \in 1 .. n : AllLines'[Len(AllLines) + q] = records[q]
<1> DEFINE L == Len(lines)
<1>1. /\ L \in Nat /\ Len(records) \in Nat /\ n \in Nat /\ n <= Len(records)
      /\ DOMAIN AllLines = 1 .. Len(AllLines) /\ L <= Len(AllLines)
      /\ DOMAIN AllLines' = 1 .. L + n /\ Len(AllLines') = L + n
      /\ \A p \in 1 .. L : AllLines[p] = lines[p] /\ AllLines'[p] = lines[p]
      /\ \A q \in 1 .. n : AllLines'[L + q] \in {records[q], Bad}
      /\ tail # NoTail => AllLines'[L + 1] = Bad
  BY AllRows DEF Extended
<1>2. \A q \in 1 .. Len(records) : records[q] \in Index /\ records[q] # Bad
  <2>1. \A i \in Index : i # Bad
    BY ExamplesAssumption DEF Index, Bad
  <2> QED BY <2>1
<1> HIDE DEF L
<1>3. \A p \in 1 .. L + n : \/ p \in 1 .. L
                            \/ \E q \in 1 .. n : p = L + q
  <2> TAKE p \in 1 .. L + n
  <2>1. p \in 1 .. L \/ (p - L \in 1 .. n /\ p = L + (p - L))
    BY <1>1
  <2> QED BY <2>1
<1>4. \A p \in 1 .. L : p \in DOMAIN AllLines /\ AllLines'[p] = AllLines[p]
  BY <1>1
<1>5. ASSUME NEW i \in Readable' PROVE i \in Readable \/ \E q \in 1 .. Len(records) : records[q] = i
  <2>1. PICK k \in 1 .. L + n : AllLines'[k] = i
    BY <1>1 DEF Readable
  <2>2. i \in Index /\ i # Bad
    BY DEF Readable, Index, Bad
  <2>3. CASE k \in 1 .. L
    BY <1>4, <2>1, <2>2, <2>3 DEF Readable
  <2>4. CASE \E q \in 1 .. n : k = L + q
    <3>1. PICK q \in 1 .. n : k = L + q
      BY <2>4
    <3>2. AllLines'[k] \in {records[q], Bad} /\ q \in 1 .. Len(records)
      BY <1>1, <3>1
    <3> QED BY <2>1, <2>2, <3>2
  <2> QED BY <1>3, <2>3, <2>4
<1>6. ASSUME NEW k \in 1 .. L, AllLines'[k] \in Index PROVE AllLines'[k] \in Readable
  BY <1>4, <1>6 DEF Readable
<1>7. RecordedOnce'
  <2> SUFFICES ASSUME NEW i \in 1 .. L + n, NEW j \in 1 .. L + n,
                      AllLines'[i] = AllLines'[j], AllLines'[i] # Bad
               PROVE  i = j
    BY <1>1 DEF RecordedOnce
  <2>1. CASE i \in 1 .. L /\ j \in 1 .. L
    BY <1>4, <2>1 DEF RecordedOnce
  <2>2. ASSUME NEW k \in 1 .. L, NEW q \in 1 .. n, AllLines'[k] = AllLines'[L + q],
               AllLines'[k] # Bad
        PROVE  FALSE
    <3>1. AllLines'[k] = records[q] /\ q \in 1 .. Len(records)
      BY <1>1, <2>2
    <3> QED BY <1>2, <1>6, <3>1
  <2>3. ASSUME NEW p \in 1 .. n, NEW q \in 1 .. n, i = L + p, j = L + q PROVE i = j
    <3>1. records[p] = records[q] /\ p \in 1 .. Len(records) /\ q \in 1 .. Len(records)
      BY <1>1, <2>3
    <3> QED BY <2>3, <3>1
  <2> QED BY <1>3, <2>1, <2>2, <2>3
<1>8. ASSUME ~Unparsable'
      PROVE  /\ AllLines = lines /\ ~Unparsable
             /\ Len(AllLines') = Len(AllLines) + n
             /\ \A p \in 1 .. Len(AllLines) : AllLines'[p] = AllLines[p]
             /\ \A q \in 1 .. n : AllLines'[Len(AllLines) + q] = records[q]
  <2>1. \A k \in 1 .. L + n : AllLines'[k] # Bad
    BY <1>1, <1>8 DEF Unparsable
  <2>2. tail = NoTail
    <3>1. L + 1 \in 1 .. L + n
      BY <1>1
    <3> QED BY <1>1, <2>1, <3>1
  <2>3. AllLines = lines
    <3>1. lines \in Seq(Index \cup {Bad})
      BY DEF EvalTyped
    <3>2. AllLines = lines \o <<>>
      BY <2>2 DEF AllLines, NoTail, Torn, Split
    <3> QED BY <3>1, <3>2
  <2>4. Len(AllLines) = L
    BY <2>3 DEF L
  <2>5. \A q \in 1 .. n : AllLines'[L + q] = records[q]
    <3> TAKE q \in 1 .. n
    <3>1. L + q \in 1 .. L + n
      BY <1>1
    <3> QED BY <1>1, <2>1, <3>1
  <2>6. ~Unparsable
    <3>1. \A p \in 1 .. L : p \in 1 .. L + n
      BY <1>1
    <3> QED BY <1>1, <1>4, <2>1, <2>4, <3>1 DEF Unparsable
  <2> QED BY <1>1, <1>4, <2>3, <2>4, <2>5, <2>6
<1> QED BY <1>5, <1>7, <1>8

\* What still is to be done at the start of an invocation: each example that
\* the file lacks, once; the rest of the data set if it has the beginning.
LEMMA PendingExamples ==
  ASSUME NEW done \in SUBSET Index
  PROVE  /\ pending_examples(done) \in Seq(Index)
         /\ Range(pending_examples(done)) = Index \ done
         /\ IsInjective(pending_examples(done))
         /\ \A k \in 0 .. Examples : done = 0 .. k - 1 =>
              /\ Len(pending_examples(done)) = Examples - k
              /\ \A n \in 1 .. Examples - k : pending_examples(done)[n] = k + n - 1
<1>1. /\ Examples \in Nat \ {0} /\ selected_examples \in Seq(Index)
      /\ Len(selected_examples) = Examples
      /\ \A n \in 1 .. Examples : selected_examples[n] = n - 1
  BY ExamplesAssumption DEF selected_examples, Index
<1>2. DOMAIN selected_examples = 1 .. Examples
  BY DEF selected_examples
<1>3. Range(selected_examples) = Index
  <2>1. \A i \in Index : i + 1 \in 1 .. Examples /\ selected_examples[i + 1] = i
    BY <1>1 DEF Index
  <2>2. \A n \in 1 .. Examples : selected_examples[n] \in Index
    BY <1>1 DEF Index
  <2> QED BY <1>2, <2>1, <2>2 DEF Range
<1>4. IsInjective(selected_examples)
  BY <1>1, <1>2 DEF IsInjective
<1>5. /\ pending_examples(done) \in Seq(Index)
      /\ Range(pending_examples(done)) = Index \ done
      /\ IsInjective(pending_examples(done))
  BY <1>1, <1>3, <1>4, OnlyProperties DEF pending_examples
<1>6. ASSUME NEW k \in 0 .. Examples, done = 0 .. k - 1
      PROVE  /\ Len(pending_examples(done)) = Examples - k
             /\ \A n \in 1 .. Examples - k : pending_examples(done)[n] = k + n - 1
  <2> DEFINE S == Index \ done
             kept == {i \in DOMAIN selected_examples : selected_examples[i] \in S}
             rank(i) == Cardinality({j \in kept : j <= i})
             Nth(n) == CHOOSE i \in kept : rank(i) = n
  <2>1. kept = k + 1 .. Examples
    BY <1>1, <1>2, <1>6 DEF Index
  <2>2. pending_examples(done) = [n \in 1 .. Cardinality(kept) |-> selected_examples[Nth(n)]]
    BY DEF pending_examples, Only
  <2>3. \A a, b \in Int : Cardinality(a .. b) = IF a > b THEN 0 ELSE b - a + 1
    BY FS_Interval
  <2>4. Cardinality(kept) = Examples - k
    <3>1. Cardinality(k + 1 .. Examples) = IF k + 1 > Examples THEN 0 ELSE Examples - (k + 1) + 1
      BY <1>1, <2>3
    <3> HIDE DEF kept
    <3>2. Cardinality(k + 1 .. Examples) = Examples - k
      BY <1>1, <3>1
    <3> QED BY <2>1, <3>2, Zenon
  <2>5. ASSUME NEW i \in kept PROVE rank(i) = i - k
    <3>1. {j \in kept : j <= i} = k + 1 .. i
      BY <1>1, <2>1
    <3> HIDE DEF kept
    <3>2. Cardinality(k + 1 .. i) = i - k
      BY <1>1, <2>1, <2>3
    <3> QED BY <3>1, <3>2
  <2> HIDE DEF kept, rank
  <2>6. ASSUME NEW n \in 1 .. Examples - k PROVE Nth(n) = k + n
    <3>1. k + n \in kept /\ rank(k + n) = n
      <4>1. k + n \in kept
        BY <1>1, <2>1
      <4>2. (k + n) - k = n
        BY <1>1
      <4> QED BY <2>5, <4>1, <4>2
    <3>2. Nth(n) \in kept /\ rank(Nth(n)) = n
      BY <3>1
    <3> HIDE DEF Nth
    <3>3. Nth(n) - k = n /\ Nth(n) \in Int
      BY <1>1, <2>1, <2>5, <3>2
    <3> QED BY <3>3
  <2> HIDE DEF Nth
  <2>7. \A n \in 1 .. Examples - k : pending_examples(done)[n] = k + n - 1
    BY <1>1, <2>2, <2>4, <2>6
  <2>8. Len(pending_examples(done)) = Examples - k
    BY <1>1, <2>2, <2>4
  <2> QED BY <2>7, <2>8
<1> QED BY <1>5, <1>6

\* A file that can be read whole has the first indices.
LEMMA MathReadable ==
  ASSUME EvalTyped, MathInOrder, script = "math500", ~Unparsable
  PROVE  /\ Len(AllLines) \in 0 .. Examples /\ Readable = 0 .. Len(AllLines) - 1
         /\ AllLines \in Seq(Index)
<1>1. /\ AllLines \in Seq(Index \cup {Bad}) /\ Len(AllLines) \in Nat
      /\ DOMAIN AllLines = 1 .. Len(AllLines) /\ Examples \in Nat \ {0}
  BY AllRows, ExamplesAssumption
<1>2. \A row \in 1 .. Len(AllLines) : AllLines[row] = row - 1 /\ AllLines[row] \in Index
  <2> TAKE row \in 1 .. Len(AllLines)
  <2>1. AllLines[row] = row - 1
    BY DEF MathInOrder
  <2>2. AllLines[row] # Bad
    BY <1>1 DEF Unparsable
  <2>3. AllLines[row] \in Index \cup {Bad}
    BY <1>1
  <2> QED BY <2>1, <2>2, <2>3
<1>3. Len(AllLines) <= Examples
  <2>1. CASE Len(AllLines) = 0
    BY <1>1, <2>1
  <2>2. CASE Len(AllLines) > 0
    <3>1. Len(AllLines) - 1 \in Index
      BY <1>1, <1>2, <2>2
    <3> QED BY <1>1, <3>1 DEF Index
  <2> QED BY <1>1, <2>1, <2>2
<1>4. Readable = 0 .. Len(AllLines) - 1
  <2>1. ASSUME NEW i \in Readable PROVE i \in 0 .. Len(AllLines) - 1
    <3>1. PICK k \in 1 .. Len(AllLines) : AllLines[k] = i
      BY <1>1, <2>1 DEF Readable
    <3> QED BY <1>1, <1>2, <3>1
  <2>2. ASSUME NEW i \in 0 .. Len(AllLines) - 1 PROVE i \in Readable
    <3>1. i + 1 \in 1 .. Len(AllLines) /\ (i + 1) - 1 = i
      BY <1>1, <2>2
    <3>2. AllLines[i + 1] = i /\ i \in Index
      BY <1>2, <3>1
    <3> QED BY <1>1, <3>1, <3>2 DEF Readable
  <2> QED BY <2>1, <2>2
<1>5. AllLines \in Seq(Index)
  <2> DEFINE rows == AllLines
             k == Len(AllLines)
  <2>1. rows \in Seq(Index \cup {Bad}) /\ k = Len(rows) /\ k \in Nat
        /\ \A row \in 1 .. k : rows[row] \in Index
    BY <1>1, <1>2
  <2> HIDE DEF rows, k
  <2>2. rows \in Seq(Index)
    BY <2>1
  <2> QED BY <2>2 DEF rows
<1> QED BY <1>1, <1>3, <1>4, <1>5

LEMMA RowsUnchanged ==
  ASSUME UNCHANGED <<lines, tail>>
  PROVE  /\ AllLines' = AllLines /\ Readable' = Readable /\ Unparsable' = Unparsable
         /\ RecordedOnce' = RecordedOnce
<1>1. AllLines' = AllLines
  BY DEF AllLines
<1> QED BY <1>1 DEF Readable, Unparsable, RecordedOnce

\* The start of an invocation.
LEMMA StartsInOrder ==
  ASSUME EvalInvariant, Invoke
  PROVE  EvalInvariant'
<1> USE DEF EvalInvariant
<1>1. /\ UNCHANGED <<script, lines, tail, csv>>
      /\ AllLines' = AllLines /\ Readable' = Readable /\ Unparsable' = Unparsable
      /\ RecordedOnce'
  <2>1. UNCHANGED <<script, lines, tail, csv>>
    BY DEF Invoke, MathStart, QasperStart
  <2> QED BY <2>1, RowsUnchanged
<1>2. Readable \in SUBSET Index /\ Examples \in Nat
  BY ExamplesAssumption DEF Readable
<1>3. /\ pending_examples(Readable) \in Seq(Index)
      /\ Range(pending_examples(Readable)) = Index \ Readable
      /\ IsInjective(pending_examples(Readable))
  BY <1>2, PendingExamples
<1>4. ASSUME todo' = pending_examples(Readable)
      PROVE  todo' \in Seq(Index) /\ TodoIsNew' /\ Range(todo') = Index \ Readable
  <2>1. todo' \in Seq(Index) /\ DOMAIN todo' = 1 .. Len(todo')
    BY <1>3, <1>4
  <2>2. \A m, n \in 1 .. Len(todo') : todo'[m] = todo'[n] => m = n
    BY <1>3, <1>4, <2>1 DEF IsInjective
  <2>3. \A n \in 1 .. Len(todo') : todo'[n] \notin Readable
    BY <1>3, <1>4, <2>1 DEF Range
  <2> QED BY <1>1, <1>3, <1>4, <2>1, <2>2, <2>3 DEF TodoIsNew
<1>5. CASE QasperStart /\ Undecodable
  <2>1. /\ script = "qasper" /\ phase = "off" /\ outcome' = "error" /\ UNCHANGED <<phase, todo>>
    BY <1>5 DEF QasperStart
  <2>2. EvalTyped' /\ TodoIsNew'
    BY <1>1, <2>1 DEF EvalTyped, TodoIsNew
  <2>3. MathInOrder' /\ QasperMeasured' /\ QasperCovers'
    BY <1>1, <2>1 DEF MathInOrder, QasperMeasured, QasperCovers
  <2> QED BY <1>1, <2>2, <2>3
<1>8. CASE QasperStart /\ ~Undecodable
  <2>1. /\ script = "qasper" /\ todo' = pending_examples(Readable)
        /\ phase' = "running" /\ outcome' = "none" /\ ~Undecodable'
    BY <1>1, <1>8 DEF QasperStart, Undecodable
  <2>2. EvalTyped'
    BY <1>1, <1>4, <2>1 DEF EvalTyped
  <2>3. MathInOrder' /\ QasperMeasured'
    BY <1>1, <2>1 DEF MathInOrder, QasperMeasured
  <2>4. QasperCovers'
    BY <1>1, <1>4, <2>1 DEF QasperCovers
  <2> QED BY <1>1, <1>4, <2>1, <2>2, <2>3, <2>4
<1>6. CASE MathStart /\ Unparsable
  <2>1. /\ script = "math500" /\ phase = "off" /\ outcome' = "error" /\ UNCHANGED <<phase, todo>>
    BY <1>6 DEF MathStart
  <2>2. EvalTyped' /\ TodoIsNew'
    BY <1>1, <2>1 DEF EvalTyped, TodoIsNew
  <2>3. MathInOrder' /\ QasperMeasured' /\ QasperCovers'
    BY <1>1, <1>6, <2>1 DEF MathInOrder, QasperMeasured, QasperCovers
  <2> QED BY <1>1, <2>2, <2>3
<1>7. CASE MathStart /\ ~Unparsable
  <2>1. /\ script = "math500" /\ todo' = pending_examples(Readable)
        /\ phase' = IF todo' = <<>> THEN "saving" ELSE "running"
        /\ outcome' = "none"
    BY <1>7 DEF MathStart
  <2>2. EvalTyped'
    <3>1. tail # Split
      <4>1. Len(lines) + 1 \in DOMAIN AllLines /\ AllLines[Len(lines) + 1] = Bad => Unparsable
        BY DEF Unparsable
      <4> QED BY <1>7, <4>1, AllRows DEF NoTail, Split
    <3> QED BY <1>1, <1>4, <2>1, <3>1 DEF EvalTyped, Undecodable
  <2>3. /\ Len(AllLines) \in 0 .. Examples
        /\ Len(todo') = Examples - Len(AllLines)
        /\ \A n \in 1 .. Examples - Len(AllLines) : todo'[n] = Len(AllLines) + n - 1
    BY <1>2, <1>7, <2>1, MathReadable, PendingExamples
  <2>4. MathInOrder'
    <3>1. phase' = "saving" => Len(AllLines) = Examples
      BY <1>2, <2>1, <2>3
    <3>2. \A row \in 1 .. Len(AllLines) : AllLines[row] = row - 1
      BY <1>7, <2>1 DEF MathInOrder
    <3>3. /\ Len(AllLines) + Len(todo') = Examples
          /\ \A n \in 1 .. Len(todo') : todo'[n] = Len(AllLines) + n - 1
      BY <1>2, <2>3
    <3> QED BY <1>1, <1>7, <2>1, <3>1, <3>2, <3>3 DEF MathInOrder
  <2>5. QasperMeasured' /\ QasperCovers'
    BY <1>1, <2>1 DEF QasperMeasured, QasperCovers
  <2> QED BY <1>1, <1>4, <2>1, <2>2, <2>4, <2>5
<1> QED BY <1>5, <1>6, <1>7, <1>8 DEF Invoke

\* The steps that write no record.
LEMMA OtherStepsInOrder ==
  ASSUME EvalInvariant,
         \/ MathReread \/ MathSave \/ QasperTooLong \/ QasperFinish \/ GenerateFails
         \/ CrashMathSave \/ CrashIdle \/ UNCHANGED evalVars
  PROVE  EvalInvariant'
<1> USE DEF EvalInvariant
<1>1. UNCHANGED <<script, lines, tail>>
  BY DEF MathReread, MathSave, QasperTooLong, QasperFinish, GenerateFails, CrashMathSave,
         CrashIdle, Killed, evalVars
<1>2. /\ AllLines' = AllLines /\ Readable' = Readable /\ Unparsable' = Unparsable
      /\ RecordedOnce'
  BY <1>1, RowsUnchanged
<1>3. /\ <<>> \in Seq(Index) /\ Len(<<>>) = 0 /\ Range(<<>>) = {}
  BY DEF Range
<1>4. phase = "saving" => script = "math500" /\ AllLines \in Seq(Index) /\ Len(AllLines) = Examples
                          /\ ~Unparsable
  BY MathReadable DEF MathInOrder, QasperMeasured, EvalTyped
<1>5. CASE todo' = todo /\ UNCHANGED <<csv, phase, outcome>>
  BY <1>1, <1>2, <1>5
     DEF EvalTyped, Undecodable, TodoIsNew, MathInOrder, QasperCovers, QasperMeasured
<1>6. CASE MathReread
  <2>1. script = "math500" /\ todo = <<>> /\ UNCHANGED <<csv, todo>> /\ phase = "running"
        /\ outcome # "ok"
    BY <1>6 DEF MathReread, MathInOrder
  <2>2. \/ Unparsable /\ phase' = "off" /\ outcome' = "error"
        \/ ~Unparsable /\ phase' = "saving" /\ outcome' = outcome
    BY <1>6 DEF MathReread
  <2>3. ~Unparsable => Len(AllLines) = Examples
    <3>1. Len(AllLines) \in Nat
      BY AllRows
    <3> QED BY <1>3, <2>1, <3>1 DEF MathInOrder
  <2>4. MathInOrder'
    BY <1>1, <1>2, <2>1, <2>2, <2>3 DEF MathInOrder
  <2> QED BY <1>1, <1>2, <2>1, <2>2, <2>4
          DEF EvalTyped, Undecodable, TodoIsNew, QasperCovers, QasperMeasured
<1>7. CASE MathSave
  <2>1. /\ script = "math500" /\ csv' = AllLines /\ phase' = "off" /\ outcome' = "ok"
        /\ todo' = todo /\ phase = "saving"
    BY <1>7 DEF MathSave
  <2>2. MathInOrder'
    BY <1>1, <1>2, <1>4, <2>1 DEF MathInOrder
  <2> QED BY <1>1, <1>2, <1>4, <2>1, <2>2 DEF EvalTyped, TodoIsNew, QasperCovers, QasperMeasured
<1>8. CASE QasperFinish
  <2>1. /\ script = "qasper" /\ phase = "running" /\ todo = <<>>
        /\ phase' = "off" /\ outcome' = "ok" /\ UNCHANGED <<csv, todo>>
    BY <1>8 DEF QasperFinish, EvalTyped
  <2>2. \E a, b \in Int : Index \ Readable \subseteq {a, b}
    BY <1>3, <2>1 DEF QasperCovers
  <2> QED BY <1>1, <1>2, <2>1, <2>2
          DEF EvalTyped, TodoIsNew, MathInOrder, QasperCovers, QasperMeasured
<1>9. CASE QasperTooLong \/ GenerateFails \/ CrashMathSave \/ CrashIdle
  <2>1. phase' = "off" /\ todo' = <<>> /\ outcome' \in {"error", "killed"}
    BY <1>9 DEF QasperTooLong, GenerateFails, CrashMathSave, CrashIdle, Killed
  <2>2. csv' \in Seq(Index) /\ (script = "qasper" => csv' = csv)
    <3>1. CASE CrashMathSave
      <4>1. PICK n \in 0 .. Len(AllLines) : csv' = SubSeq(AllLines, 1, n)
        BY <3>1 DEF CrashMathSave
      <4>2. AllLines \in Seq(Index) /\ script = "math500"
        BY <1>4, <3>1 DEF CrashMathSave
      <4> QED BY <4>1, <4>2
    <3>2. CASE QasperTooLong \/ GenerateFails \/ CrashIdle
      BY <3>2 DEF QasperTooLong, GenerateFails, CrashIdle, EvalTyped
    <3> QED BY <1>9, <3>1, <3>2
  <2>3. EvalTyped' /\ TodoIsNew'
    BY <1>1, <1>3, <2>1, <2>2 DEF EvalTyped, TodoIsNew
  <2>4. MathInOrder'
    BY <1>1, <1>2, <2>1 DEF MathInOrder
  <2>5. QasperCovers' /\ QasperMeasured'
    BY <1>1, <1>2, <2>1, <2>2 DEF QasperCovers, QasperMeasured
  <2> QED BY <1>2, <2>3, <2>4, <2>5
<1>10. CASE UNCHANGED evalVars
  BY <1>5, <1>10 DEF evalVars
<1> QED BY <1>6, <1>7, <1>8, <1>9, <1>10

\* The next batch of MATH-500, the next example of Qasper-E.
LEMMA BatchOf ==
  ASSUME EvalTyped, todo # <<>>
  PROVE  /\ Batch \in Seq(Index) /\ Batch # <<>>
         /\ Len(todo) \in Nat \ {0} /\ Len(Batch) \in 1 .. Len(todo)
         /\ \A q \in 1 .. Len(Batch) : Batch[q] = todo[q]
         /\ SubSeq(todo, Len(Batch) + 1, Len(todo)) \in Seq(Index)
         /\ Len(SubSeq(todo, Len(Batch) + 1, Len(todo))) = Len(todo) - Len(Batch)
         /\ \A n \in 1 .. Len(todo) - Len(Batch) :
              SubSeq(todo, Len(Batch) + 1, Len(todo))[n] = todo[Len(Batch) + n]
<1> DEFINE b == IF Len(todo) < BatchSize THEN Len(todo) ELSE BatchSize
<1>1. todo \in Seq(Index) /\ Len(todo) \in Nat \ {0}
  BY DEF EvalTyped
<1>2. b \in 1 .. Len(todo)
  BY <1>1, BatchAssumption
<1>3. Batch = SubSeq(todo, 1, b)
  BY DEF Batch
<1> HIDE DEF b
<1>4. Batch \in Seq(Index) /\ Len(Batch) = b /\ \A q \in 1 .. b : Batch[q] = todo[q]
  BY <1>1, <1>2, <1>3
<1>5. /\ SubSeq(todo, b + 1, Len(todo)) \in Seq(Index)
      /\ Len(SubSeq(todo, b + 1, Len(todo))) = Len(todo) - b
      /\ \A n \in 1 .. Len(todo) - b : SubSeq(todo, b + 1, Len(todo))[n] = todo[b + n]
  BY <1>1, <1>2
<1>6. Batch # <<>>
  BY <1>2, <1>4
<1> QED BY <1>1, <1>2, <1>4, <1>5, <1>6

\* What is taken from the front of the list of new examples is new, and so is
\* the rest once it is in the file.
LEMMA FrontIsNew ==
  ASSUME EvalTyped, TodoIsNew, NEW records \in Seq(Index), Len(records) \in 1 .. Len(todo),
         \A q \in 1 .. Len(records) : records[q] = todo[q]
  PROVE  /\ \A p, q \in 1 .. Len(records) : records[p] = records[q] => p = q
         /\ \A q \in 1 .. Len(records) : records[q] \notin Readable
         /\ \A n \in 1 .. Len(todo) - Len(records) :
              /\ todo[Len(records) + n] \notin Readable
              /\ \A q \in 1 .. Len(records) : records[q] # todo[Len(records) + n]
         /\ \A m, n \in 1 .. Len(todo) - Len(records) :
              todo[Len(records) + m] = todo[Len(records) + n] => m = n
<1> DEFINE b == Len(records)
           t == Len(todo)
<1>1. b \in Nat /\ t \in Nat /\ b <= t
  BY DEF EvalTyped
<1>2. /\ \A m, n \in 1 .. t : todo[m] = todo[n] => m = n
      /\ \A n \in 1 .. t : todo[n] \notin Readable
  BY DEF TodoIsNew
<1>3. \A q \in 1 .. b : records[q] = todo[q]
  OBVIOUS
<1> HIDE DEF b, t
<1>4. \A q \in 1 .. b : q \in 1 .. t
  BY <1>1
<1>5. \A n \in 1 .. t - b : b + n \in 1 .. t /\ b + n \notin 1 .. b
  BY <1>1
<1>6. \A p, q \in 1 .. b : records[p] = records[q] => p = q
  BY <1>2, <1>3, <1>4
<1>7. \A q \in 1 .. b : records[q] \notin Readable
  BY <1>2, <1>3, <1>4
<1>8. \A n \in 1 .. t - b : \A q \in 1 .. b : records[q] # todo[b + n]
  BY <1>2, <1>3, <1>4, <1>5
<1>9. \A n \in 1 .. t - b : todo[b + n] \notin Readable
  BY <1>2, <1>5
<1>10. \A m, n \in 1 .. t - b : todo[b + m] = todo[b + n] => m = n
  <2> TAKE m, n \in 1 .. t - b
  <2>1. todo[b + m] = todo[b + n] => b + m = b + n
    BY <1>2, <1>5
  <2> QED BY <1>1, <2>1
<1> QED BY <1>6, <1>7, <1>8, <1>9, <1>10 DEF b, t

\* A batch is appended whole, or cut by a kill.
LEMMA BatchInOrder ==
  ASSUME EvalInvariant, MathBatch \/ CrashMathBatch
  PROVE  EvalInvariant'
<1> USE DEF EvalInvariant
<1> DEFINE b == Len(Batch)
           t == Len(todo)
           L == Len(AllLines)
<1>1. script = "math500" /\ script' = script /\ csv' = csv /\ phase = "running" /\ todo # <<>>
      /\ outcome # "ok"
  BY DEF MathBatch, CrashMathBatch, Killed, MathInOrder
<1>2. /\ Batch \in Seq(Index) /\ Batch # <<>> /\ t \in Nat \ {0} /\ b \in 1 .. t
      /\ \A q \in 1 .. b : Batch[q] = todo[q]
  BY <1>1, BatchOf
<1>3. /\ \A p, q \in 1 .. b : Batch[p] = Batch[q] => p = q
      /\ \A q \in 1 .. b : Batch[q] \notin Readable
      /\ \A n \in 1 .. t - b : /\ todo[b + n] \notin Readable
                               /\ \A q \in 1 .. b : Batch[q] # todo[b + n]
      /\ \A m, n \in 1 .. t - b : todo[b + m] = todo[b + n] => m = n
  BY <1>2, FrontIsNew
<1>4. L \in Nat
  BY AllRows
\* Some of the batch is in the file: the order goes on.
<1>5. ASSUME NEW n \in 1 .. b, Extended(Batch, n),
             lines' \in Seq(Index \cup {Bad}), tail' \in {NoTail, Torn, Split} \cup Index
      PROVE  /\ RecordedOnce'
             /\ \A i \in Readable' : i \in Readable \/ \E q \in 1 .. b : Batch[q] = i
             /\ ~Unparsable' => /\ Len(AllLines') = L + n
                                /\ ~Unparsable
                                /\ \A row \in 1 .. L + n : AllLines'[row] = row - 1
  <2> HIDE DEF EvalInvariant
  <2>1. /\ RecordedOnce'
        /\ \A i \in Readable' : i \in Readable \/ \E q \in 1 .. b : Batch[q] = i
        /\ ~Unparsable' =>
              /\ AllLines = lines /\ ~Unparsable
              /\ Len(AllLines') = L + n
              /\ \A p \in 1 .. L : AllLines'[p] = AllLines[p]
              /\ \A q \in 1 .. n : AllLines'[L + q] = Batch[q]
    BY <1>2, <1>3, <1>5, RowsGrow DEF EvalInvariant
  <2>2. ASSUME ~Unparsable' PROVE \A row \in 1 .. L + n : AllLines'[row] = row - 1
    <3> TAKE row \in 1 .. L + n
    <3>1. CASE row \in 1 .. L
      BY <1>1, <2>1, <2>2, <3>1 DEF MathInOrder, EvalInvariant
    <3>2. CASE row \notin 1 .. L
      <4>1. row - L \in 1 .. n /\ row = L + (row - L) /\ row - L \in 1 .. b
        BY <1>2, <1>4, <3>2
      <4>2. AllLines'[row] = todo[row - L]
        BY <1>2, <2>1, <2>2, <4>1
      <4>3. row - L \in 1 .. t
        BY <1>2, <4>1
      <4>4. todo[row - L] = L + (row - L) - 1
        BY <1>1, <2>1, <2>2, <4>3 DEF MathInOrder, EvalInvariant
      <4> QED BY <1>4, <4>2, <4>4
    <3> QED BY <3>1, <3>2
  <2> QED BY <2>1, <2>2
<1> HIDE DEF b, t, L
<1>6. QasperCovers' /\ QasperMeasured'
  BY <1>1 DEF QasperCovers, QasperMeasured
<1>7. CASE MathBatch
  <2>1. /\ AppendRecords(Batch) /\ todo' = SubSeq(todo, b + 1, t)
        /\ phase' = phase /\ outcome' = outcome
    BY <1>7 DEF MathBatch, b, t
  <2>2. /\ lines' \in Seq(Index \cup {Bad}) /\ tail' = NoTail /\ Extended(Batch, b)
    BY <1>2, <2>1, AppendExtends DEF b
  <2>3. /\ todo' \in Seq(Index) /\ Len(todo') = t - b
        /\ \A n \in 1 .. t - b : todo'[n] = todo[b + n]
    BY <1>1, <2>1, BatchOf DEF b, t
  <2>4. /\ RecordedOnce'
        /\ \A i \in Readable' : i \in Readable \/ \E q \in 1 .. b : Batch[q] = i
        /\ ~Unparsable' => /\ Len(AllLines') = L + b
                           /\ ~Unparsable
                           /\ \A row \in 1 .. L + b : AllLines'[row] = row - 1
    BY <1>2, <1>5, <2>2
  <2>5. EvalTyped'
    BY <1>1, <2>1, <2>2, <2>3 DEF EvalTyped, Undecodable, NoTail, Split
  <2>6. TodoIsNew'
    <3>1. \A n \in 1 .. Len(todo') : todo'[n] \notin Readable'
      BY <1>3, <2>3, <2>4
    <3>2. \A m, n \in 1 .. Len(todo') : todo'[m] = todo'[n] => m = n
      BY <1>3, <2>3
    <3> QED BY <3>1, <3>2 DEF TodoIsNew
  <2>7. MathInOrder'
    <3>1. ASSUME ~Unparsable'
          PROVE  /\ Len(AllLines') + Len(todo') = Examples
                 /\ \A n \in 1 .. Len(todo') : todo'[n] = Len(AllLines') + n - 1
      <4>1. L + t = Examples /\ \A n \in 1 .. t : todo[n] = L + n - 1
        BY <1>1, <2>4, <3>1 DEF MathInOrder, L, t
      <4>2. \A n \in 1 .. t - b : b + n \in 1 .. t /\ L + (b + n) - 1 = (L + b) + n - 1
        BY <1>2, <1>4
      <4>3. (L + b) + (t - b) = Examples
        BY <1>2, <1>4, <4>1
      <4> QED BY <2>3, <2>4, <3>1, <4>1, <4>2, <4>3
    <3>2. ~Unparsable' => \A row \in 1 .. Len(AllLines') : AllLines'[row] = row - 1
      BY <2>4
    <3>3. phase' = "running" /\ outcome' # "ok"
      BY <1>1, <2>1
    <3> QED BY <3>1, <3>2, <3>3 DEF MathInOrder
  <2> QED BY <1>6, <2>4, <2>5, <2>6, <2>7
<1>8. CASE CrashMathBatch
  <2>1. /\ CutAppendRecords(Batch) /\ todo' = <<>> /\ phase' = "off" /\ outcome' = "killed"
    BY <1>8 DEF CrashMathBatch, Killed
  <2>2. /\ lines' \in Seq(Index \cup {Bad}) /\ tail' \in {NoTail, Torn, Split} \cup Index
        /\ AllLines' = AllLines \/ \E n \in 1 .. b : Extended(Batch, n)
    BY <1>2, <2>1, CutExtends DEF b
  <2>3. EvalTyped' /\ TodoIsNew'
    BY <1>1, <2>1, <2>2 DEF EvalTyped, TodoIsNew
  <2>4. RecordedOnce' /\ (~Unparsable' => \A row \in 1 .. Len(AllLines') : AllLines'[row] = row - 1)
    <3>1. CASE AllLines' = AllLines
      BY <1>1, <3>1 DEF RecordedOnce, MathInOrder, Unparsable
    <3>2. CASE \E n \in 1 .. b : Extended(Batch, n)
      BY <1>5, <2>2, <3>2
    <3> QED BY <2>2, <3>1, <3>2
  <2>5. MathInOrder'
    BY <2>1, <2>4 DEF MathInOrder
  <2> QED BY <1>6, <2>3, <2>4, <2>5
<1> QED BY <1>7, <1>8

\* An example of Qasper-E: its row, then its record, whole or cut by a kill.
LEMMA ExampleInOrder ==
  ASSUME EvalInvariant, QasperExample \/ CrashQasperWrite
  PROVE  EvalInvariant'
<1> USE DEF EvalInvariant
<1> DEFINE h == Head(todo)
           r == <<h>>
           t == Len(todo)
<1>1. /\ script = "qasper" /\ script' = script /\ phase = "running" /\ todo # <<>>
      /\ csv' = csv \o r /\ outcome # "ok"
  BY DEF QasperExample, CrashQasperWrite, Killed, QasperCovers
<1>2. /\ todo \in Seq(Index) /\ t \in Nat \ {0} /\ h = todo[1] /\ h \in Index
      /\ Tail(todo) \in Seq(Index) /\ Len(Tail(todo)) = t - 1
      /\ \A n \in 1 .. t - 1 : Tail(todo)[n] = todo[1 + n]
  BY <1>1 DEF EvalTyped
<1>3. r \in Seq(Index) /\ Len(r) = 1 /\ r[1] = h /\ r # <<>>
  BY <1>2
<1> HIDE DEF h, r, t
<1>4. /\ Len(r) \in 1 .. t /\ \A q \in 1 .. Len(r) : r[q] = todo[q]
  BY <1>2, <1>3
<1>5. /\ \A p, q \in 1 .. Len(r) : r[p] = r[q] => p = q
      /\ \A q \in 1 .. Len(r) : r[q] \notin Readable
      /\ \A n \in 1 .. t - Len(r) : /\ todo[Len(r) + n] \notin Readable
                                    /\ \A q \in 1 .. Len(r) : r[q] # todo[Len(r) + n]
      /\ \A m, n \in 1 .. t - Len(r) : todo[Len(r) + m] = todo[Len(r) + n] => m = n
  BY <1>3, <1>4, FrontIsNew DEF t
<1>6. /\ csv' \in Seq(Index) /\ Range(csv) \cup {h} \subseteq Range(csv')
  <2>1. csv \in Seq(Index) /\ Len(csv) \in Nat /\ DOMAIN csv = 1 .. Len(csv)
    BY DEF EvalTyped
  <2>2. /\ csv' \in Seq(Index) /\ Len(csv') = Len(csv) + 1
        /\ \A k \in 1 .. Len(csv) : csv'[k] = csv[k]
        /\ csv'[Len(csv) + 1] = h
    <3>1. csv \o r \in Seq(Index) /\ Len(csv \o r) = Len(csv) + Len(r)
      BY <1>3, <2>1, ConcatProperties, Zenon
    <3>2. \A k \in 1 .. Len(csv) : (csv \o r)[k] = csv[k]
      BY <1>3, <2>1
    <3>3. (csv \o r)[Len(csv) + 1] = h
      BY <1>3, <2>1
    <3> QED BY <1>1, <1>3, <3>1, <3>2, <3>3, Zenon
  <2>3. DOMAIN csv' = 1 .. Len(csv) + 1
    BY <2>2
  <2>4. \A k \in 1 .. Len(csv) : k \in 1 .. Len(csv) + 1
    BY <2>1
  <2>5. Len(csv) + 1 \in 1 .. Len(csv) + 1
    BY <2>1
  <2>6. \A k \in DOMAIN csv : csv[k] \in Range(csv')
    BY <2>1, <2>2, <2>3, <2>4 DEF Range
  <2>7. h \in Range(csv')
    BY <2>2, <2>3, <2>5 DEF Range
  <2> QED BY <2>2, <2>6, <2>7 DEF Range
\* What the record of the example brings.
<1>7. ASSUME Extended(r, 1),
             lines' \in Seq(Index \cup {Bad}), tail' \in {NoTail, Torn, Split} \cup Index
      PROVE  RecordedOnce' /\ Readable' \subseteq Readable \cup {h}
  <2>1. 1 \in 1 .. Len(r)
    BY <1>3
  <2>2. /\ RecordedOnce'
        /\ \A i \in Readable' : i \in Readable \/ \E q \in 1 .. Len(r) : r[q] = i
    BY <1>3, <1>5, <1>7, <2>1, RowsGrow
  <2>3. \A q \in 1 .. Len(r) : r[q] = h
    BY <1>3
  <2> QED BY <2>2, <2>3
<1>8. MathInOrder'
  BY <1>1 DEF MathInOrder
<1>9. ASSUME Readable' \subseteq Readable \cup {h}, phase' # "saving"
      PROVE  QasperMeasured'
  BY <1>1, <1>6, <1>9 DEF QasperMeasured
<1>10. CASE QasperExample
  <2>1. AppendRecords(r) /\ todo' = Tail(todo) /\ phase' = phase /\ outcome' = outcome
    BY <1>10 DEF QasperExample, h, r
  <2>2. /\ lines' \in Seq(Index \cup {Bad}) /\ tail' = NoTail /\ Extended(r, 1)
        /\ tail = NoTail => AllLines'[Len(lines) + 1] = h
    <3>1. /\ lines' \in Seq(Index \cup {Bad}) /\ tail' = NoTail /\ Extended(r, Len(r))
          /\ \A q \in 1 .. Len(r) : q > 1 \/ tail = NoTail => AllLines'[Len(lines) + q] = r[q]
      BY <1>3, <2>1, AppendExtends
    <3> QED BY <1>3, <3>1
  <2>3. RecordedOnce' /\ Readable' \subseteq Readable \cup {h}
    BY <1>7, <2>2
  <2>4. EvalTyped'
    BY <1>1, <1>2, <1>6, <2>1, <2>2 DEF EvalTyped, Undecodable, NoTail, Split
  <2>5. TodoIsNew'
    <3>1. \A n \in 1 .. t - 1 : Tail(todo)[n] \notin Readable \cup {h}
      BY <1>2, <1>3, <1>5
    <3>2. \A m, n \in 1 .. t - 1 : Tail(todo)[m] = Tail(todo)[n] => m = n
      BY <1>2, <1>3, <1>5
    <3> QED BY <1>2, <2>1, <2>3, <3>1, <3>2 DEF TodoIsNew
  <2>6. Range(todo) \subseteq {h} \cup Range(todo')
    <3> SUFFICES ASSUME NEW n \in 1 .. t PROVE todo[n] = h \/ todo[n] \in Range(todo')
      BY <1>2 DEF Range, t
    <3>1. CASE n = 1
      BY <1>2, <3>1
    <3>2. CASE n # 1
      <4>1. n - 1 \in 1 .. t - 1 /\ 1 + (n - 1) = n
        BY <1>2, <3>2
      <4>2. n - 1 \in DOMAIN Tail(todo) /\ Tail(todo)[n - 1] = todo[n]
        BY <1>2, <4>1
      <4> QED BY <2>1, <4>2 DEF Range
    <3> QED BY <3>1, <3>2
  \* Only what stands on an unterminated line can be lost.
  <2>7. /\ \A i \in Readable : i \in Readable' \/ (tail # NoTail /\ i = tail)
        /\ tail = NoTail => h \in Readable'
    <3>1. /\ DOMAIN AllLines = 1 .. Len(AllLines) /\ DOMAIN AllLines' = 1 .. Len(AllLines')
          /\ Len(lines) \in Nat
          /\ Len(AllLines) = Len(lines) + IF tail = NoTail THEN 0 ELSE 1
          /\ \A p \in 1 .. Len(lines) : AllLines[p] = lines[p]
          /\ tail # NoTail => AllLines[Len(lines) + 1] = IF tail \in {Torn, Split} THEN Bad ELSE tail
      BY <2>2, AllRows
    <3>2. /\ Len(AllLines') = Len(lines) + 1
          /\ \A p \in 1 .. Len(lines) : AllLines'[p] = lines[p]
      BY <2>2 DEF Extended
    <3>3. ASSUME NEW i \in Readable PROVE i \in Readable' \/ (tail # NoTail /\ i = tail)
      <4>1. PICK k \in 1 .. Len(AllLines) : AllLines[k] = i
        BY <3>1 DEF Readable
      <4>2. i \in Index /\ i # Bad
        BY DEF Readable, Index, Bad
      <4>3. CASE k \in 1 .. Len(lines)
        <5>1. k \in DOMAIN AllLines' /\ AllLines'[k] = i
          BY <3>1, <3>2, <4>1, <4>3
        <5> QED BY <4>2, <5>1 DEF Readable
      <4>4. CASE k \notin 1 .. Len(lines)
        <5>1. tail # NoTail /\ k = Len(lines) + 1
          BY <3>1, <4>1, <4>4
        <5> QED BY <3>1, <4>1, <4>2, <5>1
      <4> QED BY <4>3, <4>4
    <3>4. tail = NoTail => h \in Readable'
      <4>1. Len(lines) + 1 \in DOMAIN AllLines'
        BY <3>1, <3>2
      <4> QED BY <1>2, <2>2, <4>1 DEF Readable
    <3> QED BY <3>3, <3>4
  <2>8. \E a, b \in Int : Index \ Readable' \subseteq Range(todo') \cup {a, b}
    <3>1. \A i \in Index : i \in Int
      BY DEF Index
    <3>2. CASE tail = NoTail
      <4>1. PICK a, b \in Int : Index \ Readable \subseteq Range(todo) \cup {a, b}
        BY <1>1 DEF QasperCovers
      <4>2. Index \ Readable' \subseteq Range(todo') \cup {a, b}
        BY <2>6, <2>7, <3>2, <4>1
      <4> QED BY <4>2
    <3>3. CASE tail # NoTail
      <4>1. Index \ Readable \subseteq Range(todo)
        BY <1>1, <3>3 DEF QasperCovers
      <4>2. Index \ Readable' \subseteq Range(todo') \cup {h, tail}
        BY <2>6, <2>7, <4>1
      <4>3. h \in Int /\ tail \in Int
        BY <1>2, <3>1 DEF EvalTyped, NoTail, Torn, Split
      <4> QED BY <4>2, <4>3
    <3> QED BY <3>2, <3>3
  <2>9. QasperCovers'
    BY <1>1, <2>1, <2>2, <2>8 DEF QasperCovers
  <2>10. QasperMeasured'
    BY <1>1, <1>9, <2>1, <2>3
  <2> QED BY <1>8, <2>3, <2>4, <2>5, <2>9, <2>10
<1>11. CASE CrashQasperWrite
  <2>1. CutAppendRecords(r) /\ todo' = <<>> /\ phase' = "off" /\ outcome' = "killed"
    BY <1>11 DEF CrashQasperWrite, Killed, h, r
  <2>2. /\ lines' \in Seq(Index \cup {Bad}) /\ tail' \in {NoTail, Torn, Split} \cup Index
        /\ AllLines' = AllLines \/ \E n \in 1 .. Len(r) : Extended(r, n)
    BY <1>3, <2>1, CutExtends
  <2>3. RecordedOnce' /\ Readable' \subseteq Readable \cup {h}
    <3>1. CASE AllLines' = AllLines
      BY <3>1 DEF RecordedOnce, Readable
    <3>2. CASE \E n \in 1 .. Len(r) : Extended(r, n)
      <4>1. Extended(r, 1)
        BY <1>3, <3>2
      <4> QED BY <1>7, <2>2, <4>1
    <3> QED BY <2>2, <3>1, <3>2
  <2>4. EvalTyped' /\ TodoIsNew'
    BY <1>1, <1>6, <2>1, <2>2 DEF EvalTyped, TodoIsNew
  <2>5. QasperCovers' /\ QasperMeasured'
    BY <1>9, <2>1, <2>3 DEF QasperCovers
  <2> QED BY <1>8, <2>3, <2>4, <2>5
<1> QED BY <1>10, <1>11

LEMMA EvalInits == EvalInit => EvalInvariant
<1> SUFFICES ASSUME EvalInit PROVE EvalInvariant
  OBVIOUS
<1>1. lines = <<>> /\ tail = NoTail /\ csv = <<>> /\ todo = <<>> /\ phase = "off" /\ outcome = "none"
      /\ script \in {"math500", "qasper"}
  BY DEF EvalInit
<1>2. AllLines = <<>>
  <2>1. AllLines = lines \o <<>>
    BY <1>1 DEF AllLines, NoTail, Torn, Split
  <2> QED BY <1>1, <2>1
<1>3. Readable = {}
  BY <1>2 DEF Readable
<1>4. EvalTyped /\ TodoIsNew
  BY <1>1 DEF EvalTyped, TodoIsNew
<1>5. RecordedOnce /\ MathInOrder
  BY <1>1, <1>2 DEF RecordedOnce, MathInOrder
<1> QED BY <1>1, <1>3, <1>4, <1>5 DEF EvalInvariant, QasperCovers, QasperMeasured

LEMMA EvalSteps == EvalInvariant /\ [EvalNext]_evalVars => EvalInvariant'
<1>1. [EvalNext]_evalVars =>
        \/ Invoke
        \/ MathBatch \/ CrashMathBatch \/ QasperExample \/ CrashQasperWrite
        \/ MathReread \/ MathSave \/ QasperTooLong \/ QasperFinish \/ GenerateFails
        \/ CrashMathSave \/ CrashIdle \/ UNCHANGED evalVars
  BY DEF EvalNext, Work, Faults
<1> QED BY <1>1, StartsInOrder, OtherStepsInOrder, BatchInOrder, ExampleInOrder, Zenon

\* What is still to be done is new; a MATH-500 file that can be read whole is a
\* beginning of the data set, whose rest the invocation works off in batches; a
\* Qasper-E invocation has still to do what the file lacks, but for what one
\* unterminated line cost, and no record precedes its CSV row
\* (run_math500_baseline.py, run_qasper_e_full_baseline.py).
THEOREM EvalRunInvariant == EvalSpec => []EvalInvariant
BY EvalInits, EvalSteps, PTL DEF EvalSpec

\* However often the scripts are killed and invoked again, no example is
\* recorded twice in a form that a reader accepts, and a Qasper-E record that
\* can be read has its row in the CSV.
THEOREM EvalRecordsSound == EvalSpec => []RecordsSound
<1>1. EvalInvariant => RecordsSound
  BY DEF EvalInvariant, QasperMeasured, RecordsSound, Range
<1> QED BY <1>1, EvalRunInvariant, PTL

\* An invocation of MATH-500 that ends normally has every example in the JSONL
\* file and in the CSV, a file that the notebook accepts is in the order of the
\* data set, and one of Qasper-E that ends normally misses at most two examples.
THEOREM EvalReportsComplete == EvalSpec => []ReportsComplete
<1>1. EvalInvariant => MathReportComplete
  <2> SUFFICES ASSUME EvalInvariant PROVE MathReportComplete
    OBVIOUS
  <2>1. EvalTyped /\ MathInOrder /\ Examples \in Nat \ {0}
    BY ExamplesAssumption DEF EvalInvariant
  <2>2. ASSUME script = "math500", outcome = "ok"
        PROVE  Readable = Index /\ Len(csv) = Examples /\ ToSet(csv) = Index
    <3>1. ~Unparsable /\ Len(AllLines) = Examples /\ csv = AllLines
      BY <2>1, <2>2 DEF MathInOrder
    <3>2. Readable = Index
      BY <2>1, <2>2, <3>1, MathReadable DEF Index
    <3>3. \A row \in 1 .. Examples : AllLines[row] = row - 1
      BY <2>1, <2>2, <3>1 DEF MathInOrder
    <3>4. DOMAIN csv = 1 .. Examples
      BY <2>1, <3>1 DEF EvalTyped
    <3>5. ToSet(csv) = Index
      <4>1. \A i \in Index : i + 1 \in 1 .. Examples /\ csv[i + 1] = i
        BY <2>1, <3>1, <3>3 DEF Index
      <4>2. \A row \in 1 .. Examples : csv[row] \in Index
        BY <2>1, <3>1, <3>3 DEF Index
      <4> QED BY <3>4, <4>1, <4>2 DEF ToSet
    <3> QED BY <3>1, <3>2, <3>5
  <2>3. ASSUME script = "math500", NotebookAccepts
        PROVE  \A row \in DOMAIN AllLines : AllLines[row] = ProblemId(row)
    <3>1. DOMAIN AllLines = 1 .. Len(AllLines)
      BY <2>1, AllRows
    <3> QED BY <2>1, <2>3, <3>1 DEF MathInOrder, NotebookAccepts, ProblemId
  <2> QED BY <2>2, <2>3 DEF MathReportComplete
<1>2. EvalInvariant => (script = "qasper" /\ outcome = "ok" => Cardinality(Index \ Readable) <= 2)
  <2> SUFFICES ASSUME EvalInvariant, script = "qasper", outcome = "ok"
               PROVE  Cardinality(Index \ Readable) <= 2
    OBVIOUS
  <2>1. PICK a, b \in Int : Index \ Readable \subseteq {a, b}
    BY DEF EvalInvariant, QasperCovers
  <2>2. IsFiniteSet({a}) /\ Cardinality({a}) = 1
    BY FS_Singleton
  <2>3. /\ IsFiniteSet({a} \cup {b})
        /\ Cardinality({a} \cup {b}) = IF b \in {a} THEN Cardinality({a}) ELSE Cardinality({a}) + 1
    BY <2>2, FS_AddElement
  <2>4. {a} \cup {b} = {a, b}
    OBVIOUS
  <2>5. IsFiniteSet({a, b}) /\ Cardinality({a, b}) <= 2
    BY <2>2, <2>3, <2>4
  <2>6. Cardinality(Index \ Readable) <= Cardinality({a, b})
    BY <2>1, <2>5, FS_Subset
  <2>7. Cardinality({a, b}) \in Nat /\ Cardinality(Index \ Readable) \in Nat
    BY <2>1, <2>5, FS_Subset, FS_CardinalityType
  <2> QED BY <2>5, <2>6, <2>7
<1>3. EvalInvariant => ReportsComplete
  BY <1>1, <1>2 DEF ReportsComplete
<1> QED BY <1>3, EvalRunInvariant, PTL

\* No invocation repairs a file it refuses to read: one of MATH-500 with a cut
\* line, one of either script that was cut inside a character.  From then on no
\* record is written, nor anything else.
RefusedFile == Undecodable \/ (script = "math500" /\ phase = "off" /\ Unparsable)

THEOREM RefusedFileStays ==
  EvalSpec => [][RefusedFile => RefusedFile' /\ UNCHANGED <<lines, tail, csv, todo>>]_evalVars
<1>1. EvalInvariant /\ RefusedFile /\ [EvalNext]_evalVars =>
        RefusedFile' /\ UNCHANGED <<lines, tail, csv, todo>>
  <2> SUFFICES ASSUME EvalInvariant, RefusedFile, [EvalNext]_evalVars
               PROVE  RefusedFile' /\ UNCHANGED <<lines, tail, csv, todo>>
    OBVIOUS
  <2>1. phase = "off"
    BY DEF EvalInvariant, EvalTyped, RefusedFile
  <2>2. Undecodable => Unparsable
    <3> SUFFICES ASSUME Undecodable PROVE Unparsable
      OBVIOUS
    <3>1. /\ AllLines[Len(lines) + 1] = Bad /\ Len(AllLines) = Len(lines) + 1
          /\ Len(lines) \in Nat /\ DOMAIN AllLines = 1 .. Len(AllLines)
      BY AllRows DEF EvalInvariant, Undecodable, NoTail, Split
    <3> QED BY <3>1 DEF Unparsable
  <2>3. UNCHANGED <<script, lines, tail, csv, phase, todo>>
    <3>1. CASE UNCHANGED evalVars
      BY <3>1 DEF evalVars
    <3>2. CASE MathStart
      BY <2>2, <3>2 DEF MathStart, RefusedFile
    <3>3. CASE QasperStart
      BY <3>3 DEF QasperStart, RefusedFile
    <3>4. CASE Work \/ Faults
      BY <2>1, <3>4
         DEF Work, Faults, MathBatch, MathReread, MathSave, QasperExample, QasperTooLong,
             QasperFinish, GenerateFails, CrashMathBatch, CrashMathSave, CrashQasperWrite,
             CrashIdle
    <3> QED BY <3>1, <3>2, <3>3, <3>4 DEF EvalNext, Invoke
  <2>4. Unparsable' = Unparsable /\ Undecodable' = Undecodable
    BY <2>3, RowsUnchanged DEF Undecodable
  <2> QED BY <2>3, <2>4 DEF RefusedFile
<1> QED BY <1>1, EvalRunInvariant, PTL DEF EvalSpec
=============================================================================
