----------------------------- MODULE HKVScheduler -----------------------------
(***************************************************************************)
(* The scheduler (vllm/v1/core/sched/scheduler.py, FCFS policy, V2 model   *)
(* runner, no prefix caching) with the part of the KV cache manager it     *)
(* calls: which requests run, which HOT blocks they hold, which demotions  *)
(* to the WARM tier are pending.  Every call is one action; it takes the   *)
(* output of a step from the head of `batches` and leaves the plan of the  *)
(* next step at its tail.                                                  *)
(***************************************************************************)
EXTENDS KVSession, Subsequences, FiniteSetsExt, Functions

CONSTANTS MaxRunning,   \* max_num_seqs
          MaxTurns,     \* bound: turns a client sends to one session
          EagerClient,  \* may a client send a turn before the last one ends
          EosStops,     \* may the model stop a turn before MaxTokens
          MayReset      \* may reset_prefix_cache(reset_running_requests) come

ASSUME LimitAssumption == {MaxRunning, MaxTurns} \subseteq Nat \ {0}
ASSUME ClientAssumption == {EagerClient, EosStops, MayReset} \subseteq BOOLEAN

VARIABLES
  req,          \* requests, with the block lists of the KV cache manager
  running, waiting, skipped,
  freeBlocks,   \* the free block queue, as a set
  pending,      \* _pending_kv_transitions: a plan per request, or NoPlan
  deferred,     \* _pending_finish_requests
  numIdle,      \* num_waiting_for_streaming_input
  finishedIds,  \* finished_req_ids
  sent,         \* turns each client has sent, MaxTurns + 1 once it closed
  batches,      \* steps scheduled and not yet processed, oldest first
  raised        \* the scheduler has raised: the engine core is dead

queues == <<running, waiting, skipped>>
schedVars == <<req, queues, freeBlocks, pending, deferred, numIdle,
               finishedIds, sent, batches, raised>>

SchedInit ==
  /\ req = [r \in Req |-> Absent]
  /\ running = <<>> /\ waiting = <<>> /\ skipped = <<>>
  /\ freeBlocks = Block
  /\ pending = [r \in Req |-> NoPlan]
  /\ deferred = {} /\ finishedIds = {}
  /\ numIdle = 0
  /\ sent = [r \in Req |-> 0]
  /\ batches = <<>>
  /\ raised = FALSE

Live(r) == req[r].status # "ABSENT"
Idle(r) == req[r].status = "IDLE"
IsPending(r) == pending[r] # NoPlan
Without(s, S) == Only(s, Req \ S)

HasRequests ==
  \/ Len(running) + Len(waiting) + Len(skipped) - numIdle > 0
  \/ finishedIds # {}

(* An exception in a step ends the engine core. *)
Raise ==
  /\ raised' = TRUE
  /\ UNCHANGED <<req, queues, freeBlocks, pending, deferred, numIdle,
                 finishedIds, sent, batches>>
-----------------------------------------------------------------------------
(* Calls from the client side: add_request and finish_requests.            *)

AddRequest(r) ==
  /\ sent[r] = 0
  /\ req' = [req EXCEPT ![r] = Arrived]
  /\ waiting' = Append(waiting, r)
  /\ sent' = [sent EXCEPT ![r] = 1]
  /\ UNCHANGED <<running, skipped, freeBlocks, pending, deferred, numIdle,
                 finishedIds, batches, raised>>

(* Mutants: every finished request counts as idle, or the skipped queue is *)
(* forgotten.                                                              *)
FinishAsIdle(S) ==
  /\ req' = [r \in Req |-> IF r \in S THEN Absent ELSE req[r]]
  /\ running' = Without(running, S)
  /\ waiting' = Without(waiting, S) /\ skipped' = Without(skipped, S)
  /\ freeBlocks' = freeBlocks \cup UNION {HeldBlocks(req[r]) : r \in S}
  /\ numIdle' = numIdle - Cardinality(S)
  /\ finishedIds' = finishedIds \cup S
  /\ UNCHANGED <<pending, deferred, batches, raised>>
FinishUnskipped(S) ==
  /\ req' = [r \in Req |-> IF r \in S THEN Absent ELSE req[r]]
  /\ running' = Without(running, S) /\ waiting' = Without(waiting, S)
  /\ freeBlocks' = freeBlocks \cup UNION {HeldBlocks(req[r]) : r \in S}
  /\ numIdle' = numIdle - Cardinality({r \in S : Idle(r)})
  /\ finishedIds' = finishedIds \cup S
  /\ UNCHANGED <<skipped, pending, deferred, batches, raised>>

(* finish_requests on requests without a pending transition. *)
Finish(S) ==
  LET active == {r \in S : req[r].status = "RUNNING"} IN
  /\ req' = [r \in Req |-> IF r \in S THEN Absent ELSE req[r]]
  /\ running' = Without(running, active)
  /\ waiting' = Without(waiting, S \ active)
  /\ skipped' = Without(skipped, S \ active)
  /\ freeBlocks' = freeBlocks \cup UNION {HeldBlocks(req[r]) : r \in S}
  /\ numIdle' = numIdle - Cardinality({r \in S : Idle(r)})
  /\ finishedIds' = finishedIds \cup S
  /\ UNCHANGED <<pending, deferred, batches, raised>>

(* Mutant: an abort does not wait for a pending transition. *)
AbortAtOnce(r) ==
  Live(r) /\ Finish({r}) /\ sent' = [sent EXCEPT ![r] = MaxTurns + 1]

Abort(r) ==
  /\ Live(r)
  /\ IF IsPending(r)
     THEN /\ deferred' = deferred \cup {r}
          /\ UNCHANGED <<req, queues, freeBlocks, pending, numIdle,
                         finishedIds, batches, raised>>
     ELSE Finish({r})
  /\ sent' = [sent EXCEPT ![r] = MaxTurns + 1]

(* add_request for a session the scheduler has: a turn, or the sentinel    *)
(* that closes it.  Either waits in the session's queue while the session  *)
(* is busy or a transition is pending.                                     *)
MaySend(r) ==
  /\ r \notin Plain /\ Live(r) /\ sent[r] <= MaxTurns
  /\ EagerClient \/ (Idle(r) /\ req[r].updates = <<>>)

Queue(r, update) ==
  /\ req' = [req EXCEPT ![r].updates = Append(@, update)]
  /\ UNCHANGED <<queues, freeBlocks, pending, deferred, numIdle, finishedIds,
                 batches, raised>>

SendTurn(r) ==
  /\ MaySend(r) /\ sent[r] < MaxTurns
  /\ sent' = [sent EXCEPT ![r] = @ + 1]
  /\ IF ~Idle(r) \/ IsPending(r) THEN Queue(r, "turn")
     ELSE /\ req' = [req EXCEPT ![r] = Resume(@)]
          /\ numIdle' = numIdle - 1
          /\ UNCHANGED <<queues, freeBlocks, pending, deferred, finishedIds,
                         batches, raised>>

CloseSession(r) ==
  /\ MaySend(r)
  /\ sent' = [sent EXCEPT ![r] = MaxTurns + 1]
  /\ IF ~Idle(r) \/ IsPending(r) THEN Queue(r, "close") ELSE Finish({r})

(* reset_prefix_cache(reset_running_requests=True): running requests are   *)
(* preempted here, outside schedule().                                     *)
ResetPrefixCache ==
  /\ MayReset /\ running # <<>>
  /\ \A r \in Range(running) : ~IsPending(r)
  /\ req' = [r \in Req |-> IF r \in Range(running)
                           THEN ForcePreempted(req[r]) ELSE req[r]]
  /\ freeBlocks' = freeBlocks \cup
                     UNION {HeldBlocks(req[r]) : r \in Range(running)}
  /\ waiting' = running \o waiting
  /\ running' = <<>>
  /\ UNCHANGED <<skipped, pending, deferred, numIdle, finishedIds, sent,
                 batches, raised>>
-----------------------------------------------------------------------------
(* schedule().  When demotion starts is a policy of time or of pressure    *)
(* that this module leaves open: any of the sessions both policies may     *)
(* pick, in any order.                                                     *)
Demotable ==
  {r \in Req \ Plain : /\ Idle(r) /\ ~IsPending(r)
                       /\ req[r].kv = "HOT"
                       /\ DemotionPlan(req[r]) # NoPlan}
Orders(S) == UNION {Injection(1 .. n, S) : n \in 0 .. Cardinality(S)}

Need(r) == BlocksNeeded(req[r])
TotalNeed(S) == MapThenSumSet(Need, S)

(* The running loop preempts from the tail until the rest fits: p is the   *)
(* fewest tail requests whose blocks make room for what the others need.   *)
Kept(p) == SubSeq(running, 1, Len(running) - p)
Victims(p) == SubSeq(running, Len(running) - p + 1, Len(running))
BlocksIf(p) ==
  freeBlocks \cup UNION {HeldBlocks(req[r]) : r \in Range(Victims(p))}
Wanting(p) == Only(Kept(p), {r \in Req : Schedulable(req[r], MaxTokens[r])})

Suffices(p) == TotalNeed(Range(Wanting(p))) <= Cardinality(BlocksIf(p))
IsNumPreempted(p) == Suffices(p) /\ \A n \in 0 .. p - 1 : ~Suffices(n)

(* The waiting loop, unless a request was preempted: skipped requests      *)
(* first, idle sessions passed over; it takes the first k and stops where  *)
(* the running limit is reached or the next one does not fit.              *)
Candidates == Only(skipped \o waiting, {r \in Req : ~Idle(r)})
First(k) == SubSeq(Candidates, 1, k)
HasRoomFor(k) ==
  /\ Len(running) + k <= MaxRunning
  /\ TotalNeed(Range(Wanting(0))) + TotalNeed(Range(First(k)))
       <= Cardinality(freeBlocks)
IsNumAdmitted(p, k) ==
  IF p > 0 THEN k = 0
  ELSE /\ k = 0 \/ HasRoomFor(k)
       /\ k < Len(Candidates) => ~HasRoomFor(k + 1)

(* _preempt_request while a transition is pending, an admitted request     *)
(* that does not wait, and an admitted request with nothing to compute.    *)
ScheduleRaises(p, k) ==
  \/ \E r \in Range(Victims(p)) : IsPending(r)
  \/ ~IsInjective(First(k))
  \/ \E r \in Range(First(k)) : \/ req[r].status \notin {"WAITING", "PREEMPTED"}
                               \/ NewTokens(req[r]) <= 0

(* The demotions of order are planned, the p victims preempted and the     *)
(* first k candidates admitted; ids gives every block needed, by request   *)
(* and position, a block that is free by now.                              *)
SchedulePlan(order, p, k, ids) ==
  LET chosen   == Wanting(p) \o First(k)
      New(r)   == [j \in 1 .. Need(r) |-> ids[<<r, j>>]]
      Entry(r) == LET fresh == req[r].status # "RUNNING" IN
                  [req |-> r, start |-> req[r].computed,
                   num |-> NewTokens(req[r]), fresh |-> fresh,
                   ids |-> IF fresh THEN req[r].blocks \o New(r) ELSE New(r)]
  IN /\ req' = [r \in Req |->
          IF r \in Range(Victims(p)) THEN Preempted(req[r])
          ELSE IF r \in Range(chosen) THEN Scheduled(req[r], New(r))
          ELSE req[r]]
     /\ running' = Kept(p) \o First(k)
     /\ waiting' = Victims(p) \o Without(waiting, Range(First(k)))
     /\ skipped' = Without(skipped, Range(First(k)))
     /\ freeBlocks' = BlocksIf(p) \ Range(ids)
     /\ pending' = [r \in Req |-> IF r \in Range(order)
                                  THEN DemotionPlan(req[r]) ELSE pending[r]]
     /\ finishedIds' = {}
     /\ batches' = Append(batches,
          [trans     |-> [n \in DOMAIN order |->
                            [req |-> order[n], plan |-> DemotionPlan(req[order[n]])]],
           sched     |-> [n \in DOMAIN chosen |-> Entry(chosen[n])],
           preempted |-> Range(Victims(p)),
           finished  |-> finishedIds,
           results   |-> <<>>, done |-> FALSE])

Schedule ==
  /\ HasRequests
  /\ \E p \in 0 .. Len(running), k \in 0 .. Len(Candidates) :
       /\ IsNumPreempted(p) /\ IsNumAdmitted(p, k)
       /\ IF ScheduleRaises(p, k) THEN Raise
          ELSE LET needed == UNION {{<<r, j>> : j \in 1 .. Need(r)} :
                                      r \in Range(Wanting(p) \o First(k))}
               IN \E order \in Orders(Demotable) :
                  \E ids \in Injection(needed, BlocksIf(p)) :
                    /\ SchedulePlan(order, p, k, ids)
                    /\ UNCHANGED <<deferred, numIdle, sent, raised>>
-----------------------------------------------------------------------------
(* update_from_output(), part one: _validate_kv_cache_transition_results   *)
(* for the transitions of batch b, whose results the worker filled in.     *)
Acked(b) == {b.trans[k].req : k \in DOMAIN b.trans}
Moved(b) == {b.trans[k] : k \in {k \in DOMAIN b.trans : b.results[k] = "SUCCESS"}}
AckAborts(b) == Acked(b) \cap deferred
(* Mutant: what arrived behind the transition stays in the queue. *)
AckPopsNothing(b) == {}
AckPops(b) == {r \in Acked(b) \ deferred : req[r].updates # <<>>}
AckCloses(b) == {r \in AckPops(b) : Head(req[r].updates) = "close"}
(* Mutant: the deferred abort is forgotten. *)
AckFinishesClosed(b) == AckCloses(b)
AckFinishes(b) == AckAborts(b) \cup AckCloses(b)

AfterAck(b, r) ==
  LET q == IF \E t \in Moved(b) : t.req = r
           THEN Committed(req[r], pending[r]) ELSE req[r]
  IN IF r \in AckFinishes(b) THEN Absent
     ELSE IF r \in AckPops(b) THEN Resume([q EXCEPT !.updates = Tail(@)])
     ELSE q

(* Part two: the token sampled for every scheduled request that is left.   *)
(* A stopped session takes its next turn from its queue or becomes idle.   *)
Outputs(b) ==
  Only([k \in DOMAIN b.sched |-> b.sched[k].req],
       {r \in Req : AfterAck(b, r).status # "ABSENT"})
AfterToken(b, r) ==
  IF r \in Range(Outputs(b)) THEN Sampled(AfterAck(b, r)) ELSE AfterAck(b, r)
Stopped(b, eos) ==
  {r \in Range(Outputs(b)) :
     /\ AfterAck(b, r).discard = 0
     /\ r \in eos \/ LengthStop(AfterToken(b, r), MaxTokens[r])}
Continued(b, eos) == {r \in Stopped(b, eos) \ Plain : AfterToken(b, r).updates # <<>>}
Closed(b, eos) == {r \in Continued(b, eos) : Head(AfterToken(b, r).updates) = "close"}
Ended(b, eos) == (Stopped(b, eos) \cap Plain) \cup Closed(b, eos)
Resumed(b, eos) == Continued(b, eos) \ Closed(b, eos)
Parked(b, eos) == Stopped(b, eos) \ (Ended(b, eos) \cup Resumed(b, eos))

UpdateRaises(b, eos) ==
  \/ \E t \in Moved(b) : ~CommitOK(req[t.req], t.plan)
  \/ \E k \in DOMAIN b.trans : pending[b.trans[k].req] # b.trans[k].plan
  \/ \E r \in Ended(b, eos) \cup Resumed(b, eos) : r \notin Acked(b) /\ IsPending(r)
  \/ \E r \in Req : AfterToken(b, r).placeholders < 0

AfterUpdate(b, eos) ==
  LET ended   == Ended(b, eos)
      resumed == Resumed(b, eos)
      parked  == Parked(b, eos)
      freed   == AckFinishes(b) \cup ended
      left    == {r \in Stopped(b, eos) : AfterAck(b, r).status = "RUNNING"}
      lost    == Stopped(b, eos) \ left
      acked   == AckFinishes(b)
  IN /\ req' = [r \in Req |->
          CASE r \in freed   -> Absent
            [] r \in resumed -> Resume([AfterToken(b, r) EXCEPT !.updates = Tail(@)])
            [] r \in parked  -> [AfterToken(b, r) EXCEPT !.status = "IDLE"]
            [] OTHER         -> AfterToken(b, r)]
     /\ running' = Without(running,
          left \cup {r \in acked : req[r].status = "RUNNING"})
     /\ waiting' = Without(Without(waiting, acked) \o Only(Outputs(b), resumed), lost)
     /\ skipped' = Without(skipped, acked) \o Only(Outputs(b), parked)
     /\ freeBlocks' = freeBlocks
          \cup (UNION {Range(t.plan) : t \in Moved(b)})
          \cup (UNION {HeldBlocks(req[r]) : r \in freed})
     /\ pending' = [r \in Req |-> IF r \in Acked(b) THEN NoPlan ELSE pending[r]]
     /\ deferred' = deferred \ Acked(b)
     /\ numIdle' = numIdle + Cardinality(parked)
          - Cardinality({r \in AckFinishes(b) \cup AckPops(b) : Idle(r)})
     /\ finishedIds' = finishedIds \cup freed

UpdateFromOutput ==
  LET b == Head(batches) IN
  \E eos \in SUBSET IF EosStops THEN Range(Outputs(b)) ELSE {} :
    IF UpdateRaises(b, eos) THEN Raise
    ELSE /\ AfterUpdate(b, eos)
         /\ batches' = Tail(batches)
         /\ UNCHANGED <<sent, raised>>
=============================================================================
