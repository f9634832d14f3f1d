----------------------------- MODULE ResumeQuality -----------------------------
(***************************************************************************)
(* One run of run_hkv_gsm8k_resume_quality.py: every evaluated session     *)
(* does turn 1; ballast requests push the idle sessions to WARM; the       *)
(* ballast goes; the sessions then resume for turn 2 strictly one by one,  *)
(* in plan order, each inspected for WARM history before it.  Sessions,    *)
(* their input streams and the ballast are asyncio tasks that may die at   *)
(* any await, and every wait of the driver has a timeout.                  *)
(*                                                                         *)
(* The engine is reduced to what the client sees of it: a request has a    *)
(* turn of it running or none, and idle history may be demoted.            *)
(***************************************************************************)
EXTENDS Integers, FiniteSets

CONSTANT Evaluated            \* number of evaluated sessions, in plan order

ASSUME EvaluatedAssumption == Evaluated \in Nat \ {0}

Plans == 1 .. Evaluated

VARIABLES
  mixed,                      \* kv_mode is "mixed", not "all-hot"
  serving,                    \* the engine: "turn1", "idle", "turn2", "gone"
  history, unread,            \* WARM history; the turn whose end is unread, 0
  sent2,                      \* inputs() has yielded the second prompt
  turn1_done, resume_event, turn2_start_event, turn2_done,
  completed_turns, ended,     \* ended: "no", "done", "failed", "cancelled"
  active, overlap,            \* SequentialResumeTracker
  ballast, occupied,          \* the ballast task; it owns blocks
  step, at,                   \* the driver's place in run(); its session
  confirmed, errors, retain_event, passed

sessionVars == <<serving, history, unread, sent2, turn1_done, resume_event,
                 turn2_start_event, turn2_done, completed_turns, ended,
                 active, overlap>>
ballastVars == <<ballast, occupied>>
runVars == <<step, at, confirmed, errors, retain_event, passed>>
qualityVars == <<mixed, sessionVars, ballastVars, runVars>>

None == [s \in Plans |-> FALSE]

QualityInit ==
  /\ mixed \in BOOLEAN
  /\ serving = [s \in Plans |-> "turn1"] /\ history = None
  /\ unread = [s \in Plans |-> 0] /\ sent2 = None
  /\ turn1_done = None /\ resume_event = None
  /\ turn2_start_event = None /\ turn2_done = None
  /\ completed_turns = [s \in Plans |-> 0] /\ ended = [s \in Plans |-> "no"]
  /\ active = {} /\ overlap = FALSE
  /\ ballast = "none" /\ occupied = FALSE
  /\ step = "turn1" /\ at = 1 /\ confirmed = None
  /\ errors = FALSE /\ retain_event = FALSE /\ passed = FALSE

-----------------------------------------------------------------------------
(* The engine.                                                             *)

TurnEnds(s) ==
  /\ serving[s] \in {"turn1", "turn2"}
  /\ unread' = [unread EXCEPT ![s] = IF serving[s] = "turn1" THEN 1 ELSE 2]
  /\ serving' = [serving EXCEPT ![s] =
                   IF serving[s] = "turn1" /\ sent2[s] THEN "turn2" ELSE "idle"]
  /\ UNCHANGED <<mixed, history, sent2, turn1_done, resume_event,
                 turn2_start_event, turn2_done, completed_turns, ended,
                 active, overlap, ballastVars, runVars>>

\* Under the pressure of the ballast an idle history moves to WARM.
HistoryDemoted(s) ==
  /\ mixed /\ occupied /\ serving[s] = "idle" /\ ~history[s] /\ ~sent2[s]
  /\ history' = [history EXCEPT ![s] = TRUE]
  /\ UNCHANGED <<mixed, serving, unread, sent2, turn1_done, resume_event,
                 turn2_start_event, turn2_done, completed_turns, ended,
                 active, overlap, ballastVars, runVars>>

BallastEnds ==
  /\ ballast = "running" /\ ballast' = "ended"
  /\ UNCHANGED <<mixed, sessionVars, occupied, runVars>>

BallastFreed ==
  /\ ballast = "ended" /\ occupied /\ occupied' = FALSE
  /\ UNCHANGED <<mixed, sessionVars, ballast, runVars>>

-----------------------------------------------------------------------------
(* run_evaluated_session.                                                  *)

\* inputs(): resumed, it tells the tracker and yields the second prompt.  It
\* is a task of its own: after resume_event.set() it may run once more even
\* when the session has been told to cancel.
SendTurn2(s) ==
  /\ ended[s] = "no" /\ resume_event[s] /\ ~sent2[s]
  /\ overlap' = (overlap \/ active # {})
  /\ active' = active \cup {s}
  /\ turn2_start_event' = [turn2_start_event EXCEPT ![s] = TRUE]
  /\ sent2' = [sent2 EXCEPT ![s] = TRUE]
  /\ serving' = [serving EXCEPT ![s] = IF @ = "idle" THEN "turn2" ELSE @]
  /\ UNCHANGED <<mixed, history, unread, turn1_done, resume_event, turn2_done,
                 completed_turns, ended, ballastVars, runVars>>

ReadEnd(s) ==
  /\ ended[s] = "no" /\ unread[s] # 0 /\ step # "failing"
  /\ unread' = [unread EXCEPT ![s] = 0]
  /\ IF turn2_start_event[s]
     THEN /\ completed_turns' = [completed_turns EXCEPT ![s] = 2]
          /\ active' = active \ {s}
          /\ turn2_done' = [turn2_done EXCEPT ![s] = TRUE]
          /\ UNCHANGED turn1_done
     ELSE /\ completed_turns' = [completed_turns EXCEPT ![s] = 1]
          /\ turn1_done' = [turn1_done EXCEPT ![s] = TRUE]
          /\ UNCHANGED <<active, turn2_done>>
  /\ UNCHANGED <<mixed, serving, history, sent2, resume_event,
                 turn2_start_event, ended, overlap, ballastVars, runVars>>

\* The task ends with its request: the finally clause releases every waiter.
EndSession(s, how) ==
  /\ ended[s] = "no"
  /\ ended' = [ended EXCEPT ![s] = how]
  /\ serving' = [serving EXCEPT ![s] = "gone"]
  /\ history' = [history EXCEPT ![s] = FALSE]
  /\ turn1_done' = [turn1_done EXCEPT ![s] = TRUE]
  /\ turn2_start_event' = [turn2_start_event EXCEPT ![s] = TRUE]
  /\ turn2_done' = [turn2_done EXCEPT ![s] = TRUE]
  /\ active' = active \ {s}
  /\ UNCHANGED <<mixed, unread, sent2, resume_event, completed_turns, overlap,
                 ballastVars, runVars>>

\* The stream is open until retain_event; the engine may end it before, with
\* an error or without one.
StreamEnds(s) == retain_event /\ unread[s] = 0 /\ sent2[s]
                   /\ serving[s] = "idle" /\ EndSession(s, "done")
Dies(s) == step # "failing" /\ (EndSession(s, "failed") \/ EndSession(s, "done"))

\* Mutant: only the sessions that were resumed are cancelled.
CancelsResumedOnly(s) ==
  step = "failing" /\ sent2[s] /\ EndSession(s, "cancelled")

CancelSession(s) == step = "failing" /\ EndSession(s, "cancelled")

-----------------------------------------------------------------------------
(* run: the driver.                                                        *)

Go(from, to) == step = from /\ step' = to

\* The except clause: every event is set, every task is told to cancel.
Fail ==
  /\ step' = "failing" /\ errors' = TRUE
  /\ retain_event' = TRUE
  /\ resume_event' = [s \in Plans |-> TRUE]
  /\ turn2_start_event' = [s \in Plans |-> TRUE]
  /\ turn2_done' = [s \in Plans |-> TRUE]
  /\ UNCHANGED <<mixed, serving, history, unread, sent2, turn1_done,
                 completed_turns, ended, active, overlap, ballastVars,
                 at, confirmed, passed>>

\* wait_for_turn1, then the ballast starts.
Turn1Over ==
  /\ Go("turn1", IF mixed THEN "barrier" ELSE "releasing")
  /\ \A s \in Plans : turn1_done[s]
  /\ ballast' = "running" /\ occupied' = TRUE
  /\ UNCHANGED <<mixed, sessionVars, at, confirmed, errors, retain_event, passed>>

\* wait_mixed_demotion_barrier inspects one session after the other and
\* starts over when one of them is not WARM.
Inspected ==
  /\ step = "barrier"
  /\ IF ~history[at] THEN at' = 1 /\ UNCHANGED step
     ELSE IF at < Evaluated THEN at' = at + 1 /\ UNCHANGED step
     ELSE at' = 1 /\ step' = "releasing"
  /\ UNCHANGED <<mixed, sessionVars, ballastVars, confirmed, errors,
                 retain_event, passed>>

BallastDied ==
  step = "barrier" /\ ~history[at] /\ ballast = "ended" /\ Fail

\* abort_ballast.
AbortBallast ==
  /\ step = "releasing" /\ ballast = "running"
  /\ ballast' = "ended"
  /\ UNCHANGED <<mixed, sessionVars, occupied, runVars>>

\* wait_ballast_released gives up without an error when its time is over, so
\* that it asks for no more than the end of the ballast tasks.
BallastReleased ==
  /\ Go("releasing", "inspecting") /\ ballast = "ended"
  /\ UNCHANGED <<mixed, sessionVars, ballastVars, at, confirmed, errors,
                 retain_event, passed>>

\* resume_turn2_sequentially: the inspection of the session is recorded and
\* the session resumed if its task is alive.
Resume ==
  /\ step = "inspecting" /\ ended[at] = "no"
  /\ confirmed' = [confirmed EXCEPT ![at] = history[at]]
  /\ errors' = (errors \/ (mixed /\ ~history[at]))
  /\ resume_event' = [resume_event EXCEPT ![at] = TRUE]
  /\ step' = "starting"
  /\ UNCHANGED <<mixed, serving, history, unread, sent2, turn1_done,
                 turn2_start_event, turn2_done, completed_turns, ended,
                 active, overlap, ballastVars, at, retain_event, passed>>

NotAlive == step = "inspecting" /\ ended[at] # "no" /\ Fail

Started ==
  /\ Go("starting", "finishing") /\ turn2_start_event[at] /\ ended[at] # "failed"
  /\ UNCHANGED <<mixed, sessionVars, ballastVars, at, confirmed, errors,
                 retain_event, passed>>

NextSession ==
  /\ IF at < Evaluated THEN step' = "inspecting" /\ at' = at + 1
     ELSE step' = "retaining" /\ UNCHANGED at
  /\ UNCHANGED <<mixed, sessionVars, ballastVars, confirmed, errors,
                 retain_event, passed>>

\* Mutant: turn2_done is taken for a completed turn 2.
TrustsTheEvent ==
  step = "finishing" /\ turn2_done[at] /\ ended[at] # "failed" /\ NextSession

Turn2Over ==
  /\ step = "finishing" /\ turn2_done[at] /\ ended[at] # "failed"
  /\ completed_turns[at] = 2
  /\ NextSession

Turn2Missing ==
  /\ \/ step \in {"starting", "finishing"} /\ ended[at] = "failed"
     \/ step = "finishing" /\ turn2_done[at] /\ completed_turns[at] < 2
  /\ Fail

Retain ==
  /\ Go("retaining", "gathering")
  /\ errors' = (errors \/ overlap) /\ retain_event' = TRUE
  /\ UNCHANGED <<mixed, sessionVars, ballastVars, at, confirmed, passed>>

Gathered ==
  /\ Go("gathering", "draining") /\ \A s \in Plans : ended[s] = "done"
  /\ UNCHANGED <<mixed, sessionVars, ballastVars, at, confirmed, errors,
                 retain_event, passed>>

GatherFails == step = "gathering" /\ (\E s \in Plans : ended[s] = "failed") /\ Fail

TimesOut ==
  /\ step \in {"turn1", "barrier", "starting", "finishing", "gathering"}
  /\ Fail

\* drain_warm_residency.
Drained ==
  /\ Go("draining", "stopping")
  /\ errors' = (errors \/ \E s \in Plans : history[s])
  /\ UNCHANGED <<mixed, sessionVars, ballastVars, at, confirmed, retain_event,
                 passed>>

CancelBallast ==
  /\ step = "failing" /\ ballast = "running" /\ ballast' = "ended"
  /\ UNCHANGED <<mixed, sessionVars, occupied, runVars>>

GatheredAfterError ==
  /\ Go("failing", "stopping")
  /\ ballast # "running" /\ \A s \in Plans : ended[s] # "no"
  /\ UNCHANGED <<mixed, sessionVars, ballastVars, at, confirmed, errors,
                 retain_event, passed>>

\* engine.shutdown(), then the result file and the verdict.
Shutdown ==
  /\ Go("stopping", "over") /\ passed' = ~errors
  /\ UNCHANGED <<mixed, sessionVars, ballastVars, at, confirmed, errors,
                 retain_event>>

QualityOver == step = "over" /\ UNCHANGED qualityVars

Conduct == Turn1Over \/ Inspected \/ BallastDied \/ AbortBallast
             \/ BallastReleased \/ Resume \/ NotAlive \/ Started \/ Turn2Over
             \/ Turn2Missing \/ Retain \/ Gathered \/ GatherFails \/ Drained
             \/ CancelBallast \/ GatheredAfterError \/ Shutdown

QualityNext ==
  \/ \E s \in Plans : \/ TurnEnds(s) \/ HistoryDemoted(s) \/ SendTurn2(s)
                      \/ ReadEnd(s) \/ StreamEnds(s) \/ Dies(s)
                      \/ CancelSession(s)
  \/ BallastEnds \/ BallastFreed \/ Conduct \/ TimesOut \/ QualityOver

\* The event loop runs every task that can run, and each deadline comes.  The
\* engine owes nothing: it may stay silent for ever.
QualityFairness ==
  /\ WF_qualityVars(Conduct) /\ WF_qualityVars(TimesOut)
  /\ \A s \in Plans : WF_qualityVars(CancelSession(s))

-----------------------------------------------------------------------------
(* Properties.                                                             *)

\* While the run has not failed, at most one evaluated session has its turn 2
\* in the engine ("Resume turn 2 one evaluated session at a time"): the
\* measured mixed reads of a session are its own.
OneResumeAtATime ==
  step # "failing" =>
    Cardinality({s \in Plans : sent2[s] /\ serving[s] \in {"turn1", "turn2"}}) <= 1

\* Until a run fails its sessions resume one at a time.  One that passes has,
\* for every session, a completed turn 2 and in mixed mode the confirmed WARM
\* history before it; its tracker saw no overlap and no task or request
\* outlives the engine.
PassedRunIsComplete ==
  /\ OneResumeAtATime
  /\ passed =>
       /\ \A s \in Plans : /\ completed_turns[s] = 2 /\ ended[s] = "done"
                           /\ mixed => confirmed[s]
                           /\ serving[s] = "gone"
       /\ ~overlap /\ ballast = "ended"
=============================================================================
