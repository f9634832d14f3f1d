---------------------------- MODULE DemotionPolicy ----------------------------
(***************************************************************************)
(* When the scheduler demotes idle sessions (vllm/v1/core/sched/           *)
(* scheduler.py, the policy with watermarks): it starts at one HOT         *)
(* utilization and plans until the projected one reaches a lower one; the  *)
(* WARM pool may refuse a plan, after which it waits a growing number of   *)
(* steps and then tries one single session, the probe.  Steps are planned  *)
(* ahead of the answers, so answers come back to a policy that has moved.  *)
(* A session holds complete HOT blocks, which a demotion moves, and one    *)
(* partial block, which it never does; what the blocks are is left out.    *)
(***************************************************************************)
EXTENDS Subsequences, SequencesExt, FiniteSetsExt

CONSTANTS Session, NoId,
          HotBlocks,    \* usable blocks of the HOT pool
          WarmSlots,    \* slots of the WARM pool
          Start, Stop,  \* the two watermarks, in percent of the HOT pool
          MaxCooldown,  \* _KV_DEMOTION_CAPACITY_MAX_COOLDOWN_STEPS
          MaxFailures,  \* bound: from there on the cooldown stays the same
          Depth,        \* steps scheduled ahead: 2 with asynchronous scheduling
          MayBeStale    \* may the worker refuse a plan it finds stale

ASSUME WatermarkAssumption ==
  /\ {HotBlocks, WarmSlots, Start, Stop} \subseteq Nat
  /\ Stop < Start /\ Start <= 100
ASSUME BackoffAssumption == {MaxCooldown, MaxFailures, Depth} \subseteq Nat \ {0}
ASSUME IdAssumption ==
  Session \subseteq Nat /\ IsFiniteSet(Session) /\ NoId \notin Nat

VARIABLES
  phase, tier,    \* of each session: BUSY, IDLE or CLOSED; HOT or WARM
  full,           \* its complete HOT blocks
  order,          \* the sessions by last activity, the oldest first
  wish,           \* what came for it while its transition was pending
  pend,           \* id of its pending transition, or NoId
  others,         \* are requests without a session waiting or running
  flight,         \* steps planned and not yet processed, oldest first
  toFree,         \* finished_req_ids
  warm,           \* slots each session owns, at the worker
  failures, cooldown, probeRequired, probe

sessionVars == <<phase, tier, full, order, wish>>
backoff == <<failures, cooldown, probeRequired, probe>>
vars == <<sessionVars, pend, others, flight, toFree, warm, backoff>>

Live(s) == phase[s] # "CLOSED"
Sum(S, f) == MapThenSumSet(LAMBDA s : f[s], S)
Used == Sum(Session, full) + Cardinality({s \in Session : Live(s)})
WarmFree == WarmSlots - Sum(Session, warm)
Pending == {s \in Session : pend[s] # NoId}
Latest(s) == Append(Only(order, Session \ {s}), s)

Init ==
  /\ phase = [s \in Session |-> "CLOSED"]
  /\ tier = [s \in Session |-> "HOT"]
  /\ full = [s \in Session |-> 0]
  /\ order = SetToSeq(Session)
  /\ wish = [s \in Session |-> "NOTHING"]
  /\ pend = [s \in Session |-> NoId]
  /\ others = FALSE /\ flight = <<>> /\ toFree = {}
  /\ warm = [s \in Session |-> 0]
  /\ failures = 0 /\ cooldown = 0
  /\ probeRequired = FALSE /\ probe = NoId
-----------------------------------------------------------------------------
(* What the clients and the model do to a session.                         *)

(* A new request; the closed ones the worker does not know of are reused.  *)
Open(s) ==
  /\ ~Live(s) /\ Used < HotBlocks
  /\ s \notin toFree /\ warm[s] = 0
  /\ \A i \in DOMAIN flight : s \notin flight[i].freed
  /\ phase' = [phase EXCEPT ![s] = "BUSY"]
  /\ tier' = [tier EXCEPT ![s] = "HOT"]
  /\ order' = Latest(s)
  /\ UNCHANGED <<full, wish, pend, others, flight, toFree, warm, backoff>>

Grow(s) ==
  /\ phase[s] = "BUSY" /\ Used < HotBlocks
  /\ full' = [full EXCEPT ![s] = @ + 1]
  /\ UNCHANGED <<phase, tier, order, wish, pend, others, flight, toFree,
                 warm, backoff>>

EndTurn(s) ==
  /\ phase[s] = "BUSY"
  /\ phase' = [phase EXCEPT ![s] = "IDLE"]
  /\ UNCHANGED <<tier, full, order, wish, pend, others, flight, toFree,
                 warm, backoff>>

(* _update_request_as_session: a turn makes the session HOT and active; a  *)
(* turn that finds a transition pending is queued behind it.               *)
NextTurn(s) ==
  /\ phase[s] = "IDLE"
  /\ \/ /\ pend[s] = NoId
        /\ phase' = [phase EXCEPT ![s] = "BUSY"]
        /\ tier' = [tier EXCEPT ![s] = "HOT"]
        /\ order' = Latest(s)
        /\ UNCHANGED wish
     \/ /\ pend[s] # NoId /\ wish[s] = "NOTHING"
        /\ wish' = [wish EXCEPT ![s] = "TURN"]
        /\ UNCHANGED <<phase, tier, order>>
  /\ UNCHANGED <<full, pend, others, flight, toFree, warm, backoff>>

(* finish_requests: deferred behind a pending transition.                  *)
Finish(s) ==
  /\ Live(s)
  /\ \/ /\ pend[s] = NoId
        /\ phase' = [phase EXCEPT ![s] = "CLOSED"]
        /\ full' = [full EXCEPT ![s] = 0]
        /\ toFree' = toFree \cup {s}
        /\ UNCHANGED wish
     \/ /\ pend[s] # NoId /\ wish[s] # "FINISH"
        /\ wish' = [wish EXCEPT ![s] = "FINISH"]
        /\ UNCHANGED <<phase, full, toFree>>
  /\ UNCHANGED <<tier, order, pend, others, flight, warm, backoff>>
(* Requests that are no sessions come and go; their blocks are not counted.*)
Others ==
  /\ others' = ~others
  /\ UNCHANGED <<sessionVars, pend, flight, toFree, warm, backoff>>
-----------------------------------------------------------------------------
(* One call of schedule.                                                   *)

HasRequests == others \/ toFree # {} \/ \E s \in Session : phase[s] = "BUSY"

(* Idle HOT sessions with something to move, least recently active first.  *)
Candidates ==
  Only(order, {s \in Session : /\ phase[s] = "IDLE" /\ tier[s] = "HOT"
                               /\ pend[s] = NoId /\ full[s] > 0})

\* Mutant: what earlier steps move is not counted.
ProjectedOfStep(planned) == Used - Sum(planned, full)

Projected(planned) == Used - Sum(Pending \cup planned, full)

(* The watermarks in blocks: used / HotBlocks >= Start% exactly when used  *)
(* is at least StartBlocks, and > Stop% exactly when it is over StopBlocks.*)
StartBlocks == (Start * HotBlocks + 99) \div 100
StopBlocks == (Stop * HotBlocks) \div 100

Pressure == Used >= StartBlocks /\ Projected({}) > StopBlocks

(* How many candidates one step plans: one as a probe, else until the      *)
(* projected use is down to the lower watermark.                           *)
OverStop(n) == Projected(Range(SubSeq(Candidates, 1, n))) > StopBlocks
PlanSize ==
  IF probeRequired THEN IF Candidates = <<>> THEN 0 ELSE 1
  ELSE CHOOSE n \in 0 .. Len(Candidates) :
         /\ \A k \in 0 .. n - 1 : OverStop(k)
         /\ n = Len(Candidates) \/ ~OverStop(n)

Planned ==
  IF cooldown > 0 \/ probe # NoId \/ ~Pressure THEN <<>>
  ELSE SubSeq(Candidates, 1, PlanSize)

(* Ids for a plan.  They count up in the code; only those still in use     *)
(* matter, so a few are enough and are used again.                         *)
Id == 1 .. Cardinality(Session) + 1
FreshIds(plan) ==
  LET free == Id \ ({pend[s] : s \in Session} \cup {probe})
  IN  CHOOSE ids \in [Range(plan) -> free] :
        \A s, t \in Range(plan) : ids[s] = ids[t] => s = t

Schedule ==
  /\ HasRequests /\ Len(flight) < Depth
  /\ LET plan == Planned IN
       /\ pend' = [s \in Session |-> IF s \in Range(plan) THEN FreshIds(plan)[s]
                                     ELSE pend[s]]
       /\ flight' = Append(flight, [moves |-> plan, freed |-> toFree,
                                    answers |-> <<>>, run |-> FALSE])
       /\ \/ /\ probeRequired
             /\ \E s \in Session : plan = <<s>> /\ probe' = pend'[s]
             /\ probeRequired' = FALSE
          \/ /\ plan = <<>> \/ ~probeRequired
             /\ UNCHANGED <<probe, probeRequired>>
  /\ cooldown' = IF cooldown > 0 THEN cooldown - 1 ELSE 0
  /\ toFree' = {}
  /\ UNCHANGED <<sessionVars, others, warm, failures>>
-----------------------------------------------------------------------------
(* The worker runs the oldest step it has not run: the moves in order, as  *)
(* long as there are slots for them, and then the requests to release.     *)
Answers(moves, stale) ==
  LET left[n \in 0 .. Len(moves)] ==   \* slots left after the first n moves
        IF n = 0 THEN WarmFree
        ELSE IF moves[n] \in stale \/ full[moves[n]] > left[n - 1] THEN left[n - 1]
        ELSE left[n - 1] - full[moves[n]]
  IN  [n \in DOMAIN moves |-> IF moves[n] \in stale THEN "STALE"
                              ELSE IF full[moves[n]] > left[n - 1] THEN "CAPACITY"
                              ELSE "SUCCESS"]

Answered(step, what) ==
  {step.moves[n] : n \in {m \in DOMAIN step.moves : step.answers[m] = what}}

Execute ==
  \E i \in DOMAIN flight :
    /\ ~flight[i].run /\ \A j \in 1 .. i - 1 : flight[j].run
    /\ \E stale \in IF MayBeStale THEN SUBSET Range(flight[i].moves) ELSE {{}} :
         flight' = [flight EXCEPT ![i] =
                      [moves |-> @.moves, freed |-> @.freed, run |-> TRUE,
                       answers |-> Answers(@.moves, stale)]]
    /\ warm' = [s \in Session |->
                  IF s \in flight[i].freed THEN 0
                  ELSE IF s \in Answered(flight'[i], "SUCCESS") THEN warm[s] + full[s]
                  ELSE warm[s]]
  /\ UNCHANGED <<sessionVars, pend, others, toFree, backoff>>
-----------------------------------------------------------------------------
(* _validate_kv_cache_transition_results on the oldest step.               *)

(* What the answers do to the sessions: the wishes kept behind them.       *)
Settle(step) ==
  LET done == Answered(step, "SUCCESS")
      closed == {s \in Range(step.moves) : wish[s] = "FINISH"}
      resumed == {s \in Range(step.moves) : wish[s] = "TURN"}
  IN  /\ pend' = [s \in Session |-> IF s \in Range(step.moves) THEN NoId ELSE pend[s]]
      /\ wish' = [s \in Session |->
                    IF s \in Range(step.moves) THEN "NOTHING" ELSE wish[s]]
      /\ phase' = [s \in Session |-> IF s \in closed THEN "CLOSED"
                                     ELSE IF s \in resumed THEN "BUSY" ELSE phase[s]]
      /\ full' = [s \in Session |-> IF s \in done \cup closed THEN 0 ELSE full[s]]
      /\ tier' = [s \in Session |-> IF s \in resumed THEN "HOT"
                                    ELSE IF s \in done THEN "WARM" ELSE tier[s]]
      /\ order' = Only(order, Session \ resumed) \o Only(step.moves, resumed)
      /\ toFree' = toFree \cup closed

\* Mutant: the cooldown is one step short.
NoFirstCooldown(n) == IF 2 ^ (n - 1) < MaxCooldown THEN 2 ^ (n - 1) - 1 ELSE MaxCooldown

CooldownAfter(n) == IF 2 ^ (n - 1) < MaxCooldown THEN 2 ^ (n - 1) ELSE MaxCooldown

\* Mutant: a stale probe is not taken back.
StaleProbeForgotten(step) ==
  LET failed == IF failures < MaxFailures THEN failures + 1 ELSE failures
  IN  IF Answered(step, "CAPACITY") # {}
      THEN /\ failures' = failed /\ cooldown' = CooldownAfter(failed)
           /\ probeRequired' = TRUE /\ probe' = NoId
      ELSE IF \E s \in Answered(step, "SUCCESS") : pend[s] = probe
      THEN /\ failures' = 0 /\ cooldown' = 0
           /\ probeRequired' = FALSE /\ probe' = NoId
      ELSE UNCHANGED backoff

\* Mutant: the probe is not cleared on a refusal.
RefusedProbeKept(step) ==
  LET failed == IF failures < MaxFailures THEN failures + 1 ELSE failures
  IN  IF Answered(step, "CAPACITY") # {}
      THEN /\ failures' = failed /\ cooldown' = CooldownAfter(failed)
           /\ probeRequired' = TRUE /\ UNCHANGED probe
      ELSE IF \E s \in Range(step.moves) : pend[s] = probe
      THEN /\ probeRequired' = (Answered(step, "STALE") # {})
           /\ failures' = 0 /\ cooldown' = 0 /\ probe' = NoId
      ELSE UNCHANGED backoff

(* A refusal for lack of slots lengthens the backoff, whatever step it     *)
(* answers; only the answer to the probe itself ends it.                   *)
Backoff(step) ==
  LET probed(S) == \E s \in S : pend[s] = probe
      failed == IF failures < MaxFailures THEN failures + 1 ELSE failures
  IN  IF Answered(step, "CAPACITY") # {}
      THEN /\ failures' = failed /\ cooldown' = CooldownAfter(failed)
           /\ probeRequired' = TRUE /\ probe' = NoId
      ELSE IF probed(Answered(step, "SUCCESS"))
      THEN /\ failures' = 0 /\ cooldown' = 0
           /\ probeRequired' = FALSE /\ probe' = NoId
      ELSE IF probed(Answered(step, "STALE"))
      THEN /\ probeRequired' = TRUE /\ probe' = NoId
           /\ UNCHANGED <<failures, cooldown>>
      ELSE UNCHANGED backoff

Update ==
  /\ flight # <<>> /\ Head(flight).run
  /\ flight' = Tail(flight)
  /\ Settle(Head(flight))
  /\ Backoff(Head(flight))
  /\ UNCHANGED <<others, warm>>
-----------------------------------------------------------------------------
Next ==
  \/ \E s \in Session : Open(s) \/ Grow(s) \/ EndTurn(s) \/ NextTurn(s) \/ Finish(s)
  \/ Others \/ Schedule \/ Execute \/ Update

Spec == Init /\ [][Next]_vars

(* The busy loop keeps calling schedule while there are requests, and the  *)
(* worker and the loop finish every step they began.                       *)
FairSpec == Spec /\ WF_vars(Schedule) /\ WF_vars(Execute) /\ WF_vars(Update)
-----------------------------------------------------------------------------
(* The probe named by the policy is always a transition still pending: a   *)
(* forgotten probe would stop demotion for good (scheduler.py:1354).       *)
ProbeNamesPending == probe # NoId => \E s \in Session : pend[s] = probe

(* No transition is pending beside the probe, although the steps in flight *)
(* when a refusal arrives may still carry some: an answer that comes late  *)
(* can neither clear the probe nor be counted against it.                  *)
ProbeAlone == probe # NoId => Cardinality(Pending) = 1

(* Without the last session it demotes, a step would leave the projected   *)
(* use above the lower watermark, blocks of transitions planned by earlier *)
(* steps included (README.md:18): no step demotes what another one does.   *)
NoSecondRelease ==
  [][LET new == {s \in Session : pend[s] = NoId /\ pend'[s] # NoId} IN
       new # {} => \E last \in new :
       Used - Sum(Pending \cup (new \ {last}), full) > StopBlocks]_vars

(* The backoff ends: as long as use stays above the watermarks, someone    *)
(* can be demoted and steps keep coming, demotions are tried again.        *)
BackoffEnds ==
  <>[](Pressure /\ Candidates # <<>> /\ HasRequests) => []<>(Pending # {})
=============================================================================
