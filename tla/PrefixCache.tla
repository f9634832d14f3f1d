----------------------------- MODULE PrefixCache -----------------------------
(***************************************************************************)
(* Requests that share cached prefixes, and sessions that are demoted      *)
(* while they do: the synchronous scheduler with prefix caching on, which  *)
(* is the engine's default.  Tokens are named here, because a block is     *)
(* found by the tokens of its prefix.  A step of the engine is Plan, then  *)
(* the running requests, then the waiting ones, then Execute and the       *)
(* worker's answers; clients act between two steps.  The queues of waiting *)
(* requests, streamed turns and the choice of the sessions to demote are   *)
(* those of HKVScheduler and DemotionPolicy: here any waiting request and  *)
(* any idle session may be the next.                                       *)
(***************************************************************************)
EXTENDS BlockPool, FiniteSetsExt

CONSTANTS Req,
          Plain,         \* the requests that are not resumable sessions
          Token,
          FirstPrompts,  \* prompts of new requests
          TurnPrompts,   \* tokens a client may add in a later turn
          BlockSize,
          MaxTokens,     \* max_tokens of every turn
          MaxModelLen,
          MaxDemotions,  \* bound: demotions planned
          AlignedTurns   \* may a turn's last token complete a block?

ASSUME PrefixAssumption ==
  /\ IsFiniteSet(Req) /\ Plain \subseteq Req /\ AlignedTurns \in BOOLEAN
  /\ FirstPrompts \cup TurnPrompts \subseteq Seq(Token) \ {<<>>}
  /\ {BlockSize, MaxTokens, MaxModelLen} \subseteq Nat \ {0}
  /\ MaxDemotions \in Nat

VARIABLES
  req,        \* requests: their tokens, and their row in the KV cache manager
  pool,       \* the block pool
  content,    \* what the worker wrote in each block: the tokens of its prefix
  running,    \* the running list
  todo,       \* requests of the current step whose output is still to come
  plans,      \* pending demotions: the logical blocks to move and their ids
  phase,      \* where the current step is
  demotions,  \* bound: demotions planned so far
  raised      \* the exception that ended the engine core, or NoError

cacheVars == <<req, pool, content, running, todo, plans, phase, demotions, raised>>

NoError == "none"
NoPlan == <<>>
Larger(a, b) == IF a >= b THEN a ELSE b
Smaller(a, b) == IF a <= b THEN a ELSE b
CeilDiv(n) == (n + BlockSize - 1) \div BlockSize
Prefix(s, n) == SubSeq(s, 1, Smaller(n, Len(s)))

Absent == [status |-> "ABSENT", tokens |-> <<>>, prompt |-> 0, computed |-> 0,
           kv |-> "HOT", hashes |-> <<>>, blocks |-> <<>>, cached |-> 0]

CacheInit ==
  /\ req = [r \in Req |-> Absent] /\ pool = NewPool
  /\ content = [b \in Block |-> <<>>]
  /\ running = <<>> /\ todo = <<>> /\ plans = [r \in Req |-> NoPlan]
  /\ phase = "between" /\ demotions = 0 /\ raised = NoError
-----------------------------------------------------------------------------
(* Mutant: a block's hash leaves out the blocks before it. *)
HashedAlone(q) ==
  [q EXCEPT !.hashes = [i \in 1 .. Len(q.tokens) \div BlockSize |->
       IF i \in DOMAIN @ THEN @[i]
       ELSE SubSeq(q.tokens, (i - 1) * BlockSize + 1, i * BlockSize)]]

(* update_block_hashes: one hash for each new full block, chained to the   *)
(* hash before it: it stands for the tokens of that one, and all since.    *)
(* The hashes there are stay.                                              *)
Hashed(q) ==
  LET m == Len(q.hashes)
      before == IF m = 0 THEN <<>> ELSE Last(q.hashes)
      chained(i) == before \o SubSeq(q.tokens, m * BlockSize + 1, i * BlockSize)
  IN [q EXCEPT !.hashes = [i \in 1 .. Larger(m, Len(q.tokens) \div BlockSize) |->
                             IF i <= m THEN @[i] ELSE chained(i)]]

Arrived(prompt) ==
  Hashed([Absent EXCEPT !.status = "WAITING", !.tokens = prompt,
                        !.prompt = Len(prompt)])

(* _update_request_as_session: the sampled token that was not computed is  *)
(* dropped; hashes are only added.                                         *)
Resumed(q, turn) ==
  LET kept == Prefix(q.tokens, Larger(q.computed, q.prompt)) \o turn
  IN Hashed([q EXCEPT !.tokens = kept, !.prompt = Len(kept), !.kv = "HOT",
                      !.status = "WAITING"])

(* _preempt_request, once the blocks are back in the pool. *)
Preempted(q) ==
  [q EXCEPT !.status = "PREEMPTED", !.computed = 0, !.blocks = <<>>, !.cached = 0]

(* find_longest_cache_hit: one cached block for each of the first hashes,  *)
(* up to the first that no block has.  The last token is always computed.  *)
MaxHits(q) == Smaller(Len(q.hashes), (Len(q.tokens) - 1) \div BlockSize)
LongestHits(q) ==
  LET n == Max({k \in 0 .. MaxHits(q) :
                      \A i \in 1 .. k : Holding(pool, q.hashes[i]) # {}})
  IN {h \in [1 .. n -> Block] : \A i \in 1 .. n : h[i] \in Holding(pool, q.hashes[i])}

(* get_computed_blocks is asked only for requests with nothing computed. *)
Hits(q) == IF q.computed = 0 THEN LongestHits(q) ELSE {<<>>}
-----------------------------------------------------------------------------
(* Mutant: hits that are candidates for eviction are not counted. *)
NeededForNew(q, hits) == Larger(CeilDiv(Len(q.tokens)) - Len(q.blocks) - Len(hits), 0)

(* get_num_blocks_to_allocate: a hit that is free leaves the queue too. *)
Needed(q, hits) ==
  NeededForNew(q, hits) + Cardinality({i \in DOMAIN hits : pool.ref[hits[i]] = 0})
Fits(q, hits) == Needed(q, hits) <= Free(pool)

(* allocate_slots for all the tokens that q has, and the write of their    *)
(* KV: the hits are touched, the rest comes from the head of the queue,    *)
(* and the blocks that are full now are cached under q's hashes.           *)
Place(r, hits) ==
  LET q == req[r]
      touched == Touched(pool, hits)
      n == CeilDiv(Len(q.tokens)) - Len(q.blocks) - Len(hits)
      blocks == q.blocks \o hits \o NewBlocks(touched, n)
      allocated == Allocated(touched, n)
      start == q.computed + BlockSize * Len(hits)
      full == Len(q.tokens) \div BlockSize
      toCache == {i \in Larger(q.cached, Len(hits)) + 1 .. full : blocks[i] # NullBlock}
      written == {i \in DOMAIN blocks : i * BlockSize > start}
      at(b) == CHOOSE i \in DOMAIN blocks : blocks[i] = b
  IN IF n > Free(touched) THEN
       raised' = "short" /\ UNCHANGED <<req, pool, content, todo>>
     ELSE IF \E i \in toCache : allocated.hash[blocks[i]] # NoHash THEN
       raised' = "rehash" /\ UNCHANGED <<req, pool, content, todo>>
     ELSE
       /\ req' = [req EXCEPT ![r] =
            [q EXCEPT !.status = "RUNNING", !.blocks = blocks,
                      !.computed = Len(q.tokens), !.cached = Larger(@, full)]]
       /\ pool' = [allocated EXCEPT !.hash =
            [b \in Block |-> IF \E i \in toCache : blocks[i] = b
                             THEN q.hashes[at(b)] ELSE @[b]]]
       /\ content' = [b \in Block |->
            IF \E i \in written : blocks[i] = b
            THEN Prefix(q.tokens, at(b) * BlockSize) ELSE content[b]]
       /\ todo' = Append(todo, r)
       /\ UNCHANGED raised

(* Mutant: the head of a request's blocks goes back first. *)
ReleaseHeadFirst(p, q) == Freed(p, q.blocks)

(* free: the blocks of a request go back tail first. *)
Release(p, q) == Freed(p, Reverse(q.blocks))
-----------------------------------------------------------------------------
(* plan_request_kv_state: the complete HOT blocks no other request holds.  *)
DemotionPlan(q) ==
  [i \in {i \in DOMAIN q.blocks :
            /\ i * BlockSize <= q.computed /\ q.blocks[i] # NullBlock
            /\ pool.ref[q.blocks[i]] = 1}
     |-> q.blocks[i]]

Demotable(r) ==
  /\ req[r].status = "IDLE" /\ req[r].kv = "HOT" /\ DemotionPlan(req[r]) # NoPlan

(* schedule() begins: some idle sessions are chosen and planned. *)
Plan ==
  /\ phase = "between" /\ raised = NoError
  /\ \E r \in Req : req[r].status # "ABSENT"
  /\ \E chosen \in SUBSET {r \in Req : Demotable(r)} :
       /\ demotions + Cardinality(chosen) <= MaxDemotions
       /\ plans' = [r \in Req |-> IF r \in chosen THEN DemotionPlan(req[r]) ELSE NoPlan]
       /\ demotions' = demotions + Cardinality(chosen)
  /\ phase' = "running"
  /\ UNCHANGED <<req, pool, content, running, todo, raised>>

(* The running loop: the next request gets its block, or the last one of   *)
(* the list is preempted, and then no waiting request is admitted.         *)
Pending(r) == plans[r] # NoPlan
RunNext ==
  /\ phase \in {"running", "preempting"} /\ raised = NoError
  /\ Len(todo) < Len(running)
  /\ LET r == running[Len(todo) + 1] IN
     /\ Fits(req[r], <<>>) /\ Place(r, <<>>)
     /\ UNCHANGED <<running, plans, phase, demotions>>

PreemptLast ==
  /\ phase \in {"running", "preempting"} /\ raised = NoError
  /\ Len(todo) < Len(running) /\ ~ Fits(req[running[Len(todo) + 1]], <<>>)
  /\ LET r == Last(running) IN
     /\ pool' = Release(pool, req[r])
     /\ req' = [req EXCEPT ![r] = Preempted(@)]
  /\ running' = Front(running) /\ phase' = "preempting"
  /\ UNCHANGED <<content, todo, plans, demotions, raised>>

(* The waiting loop, which ends when a request does not fit.               *)
Waiting == {r \in Req : req[r].status \in {"WAITING", "PREEMPTED"}}
Admit(r) ==
  /\ phase = "running" /\ raised = NoError /\ Len(todo) = Len(running)
  /\ r \in Waiting
  /\ \E hits \in Hits(req[r]) : Fits(req[r], hits) /\ Place(r, hits)
  /\ running' = Append(running, r)
  /\ UNCHANGED <<plans, phase, demotions>>

(* The step goes to the worker. *)
Execute ==
  /\ raised = NoError /\ Len(todo) = Len(running)
  /\ \/ phase = "preempting"
     \/ /\ phase = "running"
        /\ \/ Waiting = {}
           \/ \E r \in Waiting : \E hits \in Hits(req[r]) : ~ Fits(req[r], hits)
  /\ phase' = IF todo = <<>> /\ \A r \in Req : ~ Pending(r)
              THEN "between" ELSE "executed"
  /\ UNCHANGED <<req, pool, content, running, todo, plans, demotions, raised>>
-----------------------------------------------------------------------------
(* commit_request_kv_transition raises unless every planned block is where *)
(* the plan found it and has no other holder.                              *)
CommitOK(q, plan) ==
  \A i \in DOMAIN plan :
    i \in DOMAIN q.blocks /\ q.blocks[i] = plan[i] /\ pool.ref[plan[i]] = 1

(* The worker's answer to a demotion: on success the blocks lose their     *)
(* hashes, go back to the pool and leave null blocks; a move the worker    *)
(* could not make changes nothing.                                         *)
MoveDone(r) ==
  /\ phase = "executed" /\ raised = NoError /\ Pending(r)
  /\ LET q == req[r]
         plan == plans[r]
         moved == [i \in DOMAIN q.blocks |-> IF i \in DOMAIN plan THEN plan[i] ELSE NullBlock]
     IN IF CommitOK(q, plan)
        THEN /\ pool' = Freed(Evicted(pool, {plan[i] : i \in DOMAIN plan}), Reverse(moved))
             /\ req' = [req EXCEPT ![r].kv = "WARM", ![r].blocks =
                          [i \in DOMAIN @ |-> IF i \in DOMAIN plan THEN NullBlock ELSE @[i]]]
             /\ plans' = [plans EXCEPT ![r] = NoPlan]
             /\ UNCHANGED raised
        ELSE raised' = "commit" /\ UNCHANGED <<req, pool, plans>>
  /\ phase' = IF todo = <<>> /\ \A s \in Req \ {r} : ~ Pending(s)
              THEN "between" ELSE phase
  /\ UNCHANGED <<content, running, todo, demotions>>

MoveRefused(r) ==
  /\ phase = "executed" /\ raised = NoError /\ Pending(r)
  /\ plans' = [plans EXCEPT ![r] = NoPlan]
  /\ phase' = IF todo = <<>> /\ \A s \in Req \ {r} : ~ Pending(s)
              THEN "between" ELSE phase
  /\ UNCHANGED <<req, pool, content, running, todo, demotions, raised>>

(* The request is finished: its blocks go back, tail first. *)
Finish(r) ==
  /\ req' = [req EXCEPT ![r] = [Absent EXCEPT !.status = "GONE"]]
  /\ pool' = Release(pool, req[r])
  /\ running' = Only(running, Req \ {r})

(* The token the next request of the step sampled, after the answers to    *)
(* its moves.  It may be a stop token, and the last the limits allow.      *)
Sample(t, stop) ==
  /\ phase = "executed" /\ raised = NoError /\ todo # <<>>
  /\ \A r \in Req : ~ Pending(r)
  /\ LET r == Head(todo)
         q == Hashed([req[r] EXCEPT !.tokens = Append(@, t)])
         limit == Len(q.tokens) - q.prompt >= MaxTokens \/ Len(q.tokens) >= MaxModelLen
     IN /\ limit => stop
        /\ IF ~ stop THEN req' = [req EXCEPT ![r] = q] /\ UNCHANGED <<pool, running>>
           ELSE IF r \in Plain THEN Finish(r)
           ELSE /\ req' = [req EXCEPT ![r] = [q EXCEPT !.status = "IDLE"]]
                /\ running' = Only(running, Req \ {r})
                /\ UNCHANGED pool
  /\ todo' = Tail(todo)
  /\ phase' = IF Len(todo) = 1 THEN "between" ELSE phase
  /\ UNCHANGED <<content, plans, demotions, raised>>
-----------------------------------------------------------------------------
(* What clients do between two steps. *)
Arrive(r, prompt) ==
  /\ phase = "between" /\ raised = NoError /\ req[r].status = "ABSENT"
  /\ req' = [req EXCEPT ![r] = Arrived(prompt)]
  /\ UNCHANGED <<pool, content, running, todo, plans, phase, demotions, raised>>

NextTurn(r, turn) ==
  /\ phase = "between" /\ raised = NoError /\ req[r].status = "IDLE"
  /\ Len(req[r].tokens) + Len(turn) <= MaxModelLen
  /\ AlignedTurns \/ Len(req[r].tokens) % BlockSize # 0
  /\ req' = [req EXCEPT ![r] = Resumed(@, turn)]
  /\ UNCHANGED <<pool, content, running, todo, plans, phase, demotions, raised>>

(* Abort, or the end of a session. *)
Close(r) ==
  /\ phase = "between" /\ raised = NoError
  /\ req[r].status \notin {"ABSENT", "GONE"}
  /\ Finish(r)
  /\ UNCHANGED <<content, todo, plans, phase, demotions, raised>>

ResetPrefixCache ==
  /\ phase = "between" /\ raised = NoError /\ Resettable(pool)
  /\ pool' = Evicted(pool, Block)
  /\ UNCHANGED <<req, content, running, todo, plans, phase, demotions, raised>>

CacheNext ==
  \/ Plan \/ RunNext \/ PreemptLast \/ Execute \/ ResetPrefixCache
  \/ \E r \in Req : Admit(r) \/ MoveDone(r) \/ MoveRefused(r) \/ Close(r)
  \/ \E t \in Token, stop \in BOOLEAN : Sample(t, stop)
  \/ \E r \in Req : \E p \in FirstPrompts : Arrive(r, p)
  \/ \E r \in Req : \E p \in TurnPrompts : NextTurn(r, p)

CacheSpec == CacheInit /\ [][CacheNext]_cacheVars
-----------------------------------------------------------------------------
(* The reference count of a block is the number of requests that list it,  *)
(* whoever hit, preempted, demoted or freed it, and exactly the blocks     *)
(* without a holder are in the free queue, once each.                      *)
PoolConsistent ==
  /\ \A b \in Block :
       /\ pool.ref[b] = Cardinality({r \in Req : b \in ToSet(req[r].blocks)})
       /\ (pool.ref[b] = 0) <=> (b \in ToSet(pool.queue))
  /\ IsInjective(pool.queue)

(* A request reads the KV of its own tokens only: what each of its blocks  *)
(* holds was computed after the same prefix, whichever request wrote it.   *)
HistoryIsOwn ==
  \A r \in Req : \A i \in DOMAIN req[r].blocks :
    LET b == req[r].blocks[i] IN
    b # NullBlock => content[b] = Prefix(req[r].tokens, Smaller(i * BlockSize, req[r].computed))

(* A block that is found by a hash holds the prefix of that hash           *)
(* (kv_cache_utils.py: each hash uniquely fingerprints the prefix ending   *)
(* at its boundary).                                                       *)
HashNamesContent ==
  \A b \in Block : pool.hash[b] # NoHash => content[b] = pool.hash[b]

(* Once the room for a request is checked, its blocks are there, although  *)
(* its hits may be in the queue they come from; and no block is cached     *)
(* twice.                                                                  *)
AllocationNeverFails == raised \notin {"short", "rehash"}

(* A hash after a missing one is missing: the lookup may stop at the first *)
(* block it does not find (find_longest_cache_hit: the following block     *)
(* hashes are not computed yet for sure).                                  *)
ChainsUnbroken ==
  \A b \in Block : Len(pool.hash[b]) > BlockSize =>
    Holding(pool, Prefix(pool.hash[b], Len(pool.hash[b]) - BlockSize)) # {}

(* Blocks that no hash finds are reused before any cached one (free_blocks *)
(* of block_pool.py: blocks without hash always get evicted first), and as *)
(* long as no session was demoted the chains stay whole, because the tail  *)
(* of a request is always freed, hence evicted, first.                     *)
EvictionInOrder ==
  /\ \A i, j \in DOMAIN pool.queue :
       i < j /\ pool.hash[pool.queue[j]] = NoHash => pool.hash[pool.queue[i]] = NoHash
  /\ demotions = 0 => ChainsUnbroken

(* A planned demotion finds its blocks private when it commits, as the     *)
(* plan found them (docs/hierarchical_kv_cache.md: shared prefix blocks    *)
(* remain HOT and are excluded from demotion).                             *)
CommitAccepted == raised # "commit"
=============================================================================
