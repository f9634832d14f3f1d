---------------------------- MODULE HierarchicalKV ----------------------------
(***************************************************************************)
(* The engine core loop (vllm/v1/engine/core.py) around the scheduler and  *)
(* the worker: client calls are handled between steps and aborts also      *)
(* before an output is processed; with Depth = 2 (asynchronous scheduling) *)
(* a second step is scheduled while the worker still executes the first.   *)
(***************************************************************************)
EXTENDS HKVScheduler, HKVWorker

CONSTANT Depth  \* batch_queue_size, 1 for the synchronous step()

ASSUME DepthAssumption == Depth \in {1, 2} /\ Async = (Depth = 2)

VARIABLE phase  \* "input", or "result" while the core waits for the worker

vars == <<schedVars, workerVars, phase>>

Init == SchedInit /\ WorkerInit /\ phase = "input"

ClientCall ==
  /\ ~raised /\ phase = "input"
  /\ \/ \E r \in Req : AddRequest(r) \/ SendTurn(r) \/ CloseSession(r)
     \/ ResetPrefixCache
  /\ UNCHANGED <<workerVars, phase>>

AbortCall ==
  /\ ~raised
  /\ \E r \in Req : Abort(r)
  /\ UNCHANGED <<workerVars, phase>>

(* The first half of a step.  The core goes on to wait for a result unless *)
(* the batch queue has room and there is more to schedule.                 *)
ScheduleStep ==
  /\ ~raised /\ phase = "input"
  /\ Schedule
  /\ phase' = IF Len(batches') < Depth /\ HasRequests' THEN "input" ELSE "result"
  /\ UNCHANGED workerVars

AwaitResult ==
  /\ ~raised /\ phase = "input" /\ ~HasRequests /\ batches # <<>>
  /\ phase' = "result"
  /\ UNCHANGED <<schedVars, workerVars>>

(* The second half of a step: process the oldest output. *)
UpdateStep ==
  /\ ~raised /\ phase = "result" /\ Head(batches).done
  /\ UpdateFromOutput
  /\ phase' = "input"
  /\ UNCHANGED workerVars

(* The worker executes the batches in order: its transitions one by one,   *)
(* and then the forward pass.                                              *)
WorkerStep(k) ==
  LET b == batches[k] IN
  /\ ~raised /\ ~b.done /\ \A j \in 1 .. k - 1 : batches[j].done
  /\ IF Len(b.results) < Len(b.trans)
     THEN LET t == b.trans[Len(b.results) + 1] IN
          /\ Migrate(t)
          /\ batches' = [batches EXCEPT ![k].results = Append(@, Verdict(t))]
     ELSE Forward(b) /\ batches' = [batches EXCEPT ![k].done = TRUE]
  /\ UNCHANGED <<req, queues, freeBlocks, pending, deferred, numIdle,
                 finishedIds, sent, raised, phase>>

ExecuteModel == \E k \in DOMAIN batches : WorkerStep(k)

Next ==
  \/ ClientCall
  \/ AbortCall
  \/ ScheduleStep
  \/ AwaitResult
  \/ ExecuteModel
  \/ UpdateStep

Spec == Init /\ [][Next]_vars

(* The busy loop and the worker go on as long as they have work; clients   *)
(* owe nothing.                                                            *)
FairSpec ==
  /\ Spec
  /\ WF_vars(ScheduleStep \/ AwaitResult \/ UpdateStep)
  /\ WF_vars(ExecuteModel)
-----------------------------------------------------------------------------
TypeOK ==
  /\ req \in [Req -> Record]
  /\ running \in Seq(Req) /\ waiting \in Seq(Req) /\ skipped \in Seq(Req)
  /\ freeBlocks \subseteq Block
  /\ DOMAIN pending = Req /\ \A r \in Req : IsPlan(pending[r])
  /\ deferred \subseteq Req /\ finishedIds \subseteq Req
  /\ numIdle \in Nat
  /\ sent \in [Req -> 0 .. MaxTurns + 1]
  /\ raised \in BOOLEAN
  /\ phase \in {"input", "result"}

(* No sequence of legal client calls makes the scheduler raise: neither of *)
(* its "while a transition is pending" errors, nor a commit that finds its *)
(* blocks changed, nor an invalid status, nor a negative placeholder count.*)
NeverRaises == ~raised

(* Every HOT block is free or belongs to exactly one request, at one place *)
(* in its list: a commit, a finish and a preemption never free or hand out *)
(* a block twice, and none is lost.                                        *)
HotConservation ==
  /\ \A r \in Req : \A i, j \in DOMAIN req[r].blocks :
       i # j /\ req[r].blocks[i] = req[r].blocks[j] => req[r].blocks[i] = NullBlock
  /\ \A r, s \in Req : r # s => HeldBlocks(req[r]) \cap HeldBlocks(req[s]) = {}
  /\ freeBlocks = Block \ UNION {HeldBlocks(req[r]) : r \in Req}

(* A live request is in exactly one queue, the one its status says, once;  *)
(* the count that lets the engine sleep is the number of idle sessions.    *)
QueueMembership ==
  /\ IsInjective(running) /\ IsInjective(skipped \o waiting)
  /\ Range(running) = {r \in Req : req[r].status = "RUNNING"}
  /\ Range(skipped \o waiting) =
       {r \in Req : req[r].status \in {"WAITING", "IDLE", "PREEMPTED"}}
  /\ Range(waiting) \cap {r \in Req : Idle(r)} = {}
  /\ numIdle = Cardinality({r \in Req : Idle(r)})

(* The scheduler never gives up the HOT copy of a block unless the worker  *)
(* holds a WARM copy of all of it.  Once the worker has caught up, the two *)
(* sides agree on where history lives: the logical blocks the scheduler    *)
(* replaced by the null block are the ones the worker reads from WARM      *)
(* slots, and a request that is gone and reported holds no slot.           *)
TierAgreement ==
  /\ \A r \in Req : \A i \in WarmIndices(req[r]) :
       /\ i \in DOMAIN residency[r]
       /\ warm[residency[r][i].slot] = [req |-> r, idx |-> i, upto |-> BlockSize]
  /\ batches = <<>> =>
       \A r \in Req \ finishedIds : DOMAIN residency[r] = WarmIndices(req[r])

(* Every token attention reads, from either tier, is the request's own at  *)
(* that place, however blocks and slots were recycled since it was written *)
(* and whatever batch the warm-slot table was last made for.               *)
AttentionReadsOwnHistory ==
  [][\A k \in DOMAIN batches \cap DOMAIN batches' :
       ~batches[k].done /\ batches'[k].done =>
         ReadsOwnHistory(batches[k])]_vars

(* A plan stays true until it is answered: its session is parked, idle and *)
(* in no step the worker has still to run, with its source blocks where    *)
(* the plan found them, and the worker, whose tables are built by other    *)
(* steps, never finds the plan stale.                                      *)
PlansNeverStale ==
  /\ \A r \in Req : IsPending(r) =>
       /\ Idle(r) /\ CommitOK(req[r], pending[r])
       /\ \A k \in DOMAIN batches : ~IsScheduled(batches[k], r)
       /\ Cardinality({k \in DOMAIN batches : \E t \in Range(batches[k].trans) :
                         t = [req |-> r, plan |-> pending[r]]}) = 1
  /\ \A k \in DOMAIN batches : "STALE" \notin Range(batches[k].results)

(* A turn never loses history the session had computed: a session goes     *)
(* from idle to its next turn with every token before the last one kept.   *)
TurnKeepsHistory ==
  [][\A r \in Req : Idle(r) /\ req'[r].status = "WAITING" =>
       req'[r].prompt >= req[r].tokens - 1 + PromptTokens]_vars

(* Every output the worker still owes a live request is accounted for: it  *)
(* is expected, or it is to be discarded because a reset preempted the     *)
(* request after the step was scheduled.  One too many would swallow a     *)
(* real token; one too few would append a token of the discarded past.     *)
FramesAccounted ==
  Async => \A r \in Req : Live(r) =>
    req[r].placeholders + req[r].discard =
      Cardinality({k \in DOMAIN batches : IsScheduled(batches[k], r)})

(* The sessions as the rest of the engine may think of them. *)
tiered ==
  [r \in Req |->
     [phase |-> CASE ~Live(r)                  -> "gone"
                  [] Idle(r) /\ IsPending(r)  -> "moving"
                  [] Idle(r) /\ ~IsPending(r) -> "parked"
                  [] OTHER                    -> "active",
      warm |-> WarmIndices(req[r]), aim |-> DOMAIN pending[r]]]

Tiered == INSTANCE TieredSession WITH session <- tiered, Index <- Nat \ {0}

(* The engine implements that view: a demotion is one move of a parked     *)
(* session, all or nothing, and it is over before anything else happens to *)
(* the session - no turn, no finish and no preemption in between.          *)
MovesAreAtomic == Tiered!Spec

(* An abort deferred behind a pending transition does happen. *)
DeferredFinishHappens == \A r \in Req : (r \in deferred) ~> ~Live(r)

(* A turn that arrives behind a pending transition is taken up once the    *)
(* transition is answered.                                                 *)
QueuedUpdateConsumed ==
  \A r \in Req : (Idle(r) /\ req[r].updates # <<>>) ~> ~Idle(r)
=============================================================================
