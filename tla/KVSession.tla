------------------------------ MODULE KVSession ------------------------------
(***************************************************************************)
(* One request as the scheduler sees it: the fields of Request             *)
(* (vllm/v1/request.py) and of its row in the KV cache manager that decide *)
(* what happens to it, and the functions of the code that compute on one   *)
(* request alone.  Tokens are counted, never named; a logical block is its *)
(* 1-based position in the request's block list.                           *)
(***************************************************************************)
EXTENDS Integers, Sequences, FiniteSets

CONSTANTS Req,           \* request ids
          Plain,         \* the ones that are not resumable sessions
          Block,         \* HOT blocks of the pool, the null block excluded
          NullBlock,
          BlockSize,     \* tokens per block
          PromptTokens,  \* tokens a client sends per turn
          MaxTokens,     \* max_tokens of each request's sampling parameters
          Async          \* AsyncScheduler (TRUE) or Scheduler (FALSE)

ASSUME RequestAssumption == Plain \subseteq Req /\ Async \in BOOLEAN
ASSUME BlockAssumption == IsFiniteSet(Block) /\ NullBlock \notin Block
ASSUME SizeAssumption ==
  /\ {BlockSize, PromptTokens} \subseteq Nat \ {0}
  /\ MaxTokens \in [Req -> Nat \ {0}]

(* IDLE is WAITING_FOR_STREAMING_REQ; ABSENT is a request the scheduler    *)
(* does not have, because it has not come yet or has been freed.           *)
Status == {"ABSENT", "WAITING", "RUNNING", "IDLE", "PREEMPTED"}

(* A plan names, for each logical block to demote, its HOT source block.   *)
NoPlan == <<>>
IsPlan(p) ==
  /\ DOMAIN p \subseteq Nat \ {0} /\ IsFiniteSet(DOMAIN p)
  /\ \A i \in DOMAIN p : p[i] \in Block

Record ==
  [status : Status, tokens : Nat, prompt : Nat, computed : Nat,
   placeholders : Nat, discard : Nat, kv : {"HOT", "WARM"},
   blocks : Seq(Block \cup {NullBlock}), updates : Seq({"turn", "close"})]

Larger(a, b) == IF a >= b THEN a ELSE b
Smaller(a, b) == IF a <= b THEN a ELSE b
CeilDiv(n) == (n + BlockSize - 1) \div BlockSize

Absent ==
  [status |-> "ABSENT", tokens |-> 0, prompt |-> 0, computed |-> 0,
   placeholders |-> 0, discard |-> 0, kv |-> "HOT", blocks |-> <<>>,
   updates |-> <<>>]

Arrived ==
  [Absent EXCEPT !.status = "WAITING", !.tokens = PromptTokens,
                 !.prompt = PromptTokens]

HeldBlocks(q) == {q.blocks[i] : i \in DOMAIN q.blocks} \ {NullBlock}
WarmIndices(q) == {i \in DOMAIN q.blocks : q.blocks[i] = NullBlock}

(* Mutant: a new turn drops the computed outputs as well. *)
ResumeFromPrompt(q) ==
  [q EXCEPT !.tokens = q.prompt + PromptTokens, !.prompt = q.prompt + PromptTokens,
            !.computed = Smaller(@, q.prompt), !.kv = "HOT", !.status = "WAITING"]

(* _update_request_as_session: keep the computed outputs as prompt, drop   *)
(* the rest, and append the turn's tokens.                                 *)
Resume(q) ==
  LET kept == Smaller(q.tokens, Larger(q.computed, q.prompt))
  IN [q EXCEPT !.tokens = kept + PromptTokens, !.prompt = kept + PromptTokens,
               !.kv = "HOT", !.status = "WAITING"]

(* Prompts and outputs not yet computed, and the blocks they still need:   *)
(* the null blocks of demoted history count as blocks the request has.     *)
NewTokens(q) ==
  q.tokens - q.computed + IF q.status = "RUNNING" THEN q.placeholders ELSE 0
BlocksNeeded(q) ==
  Larger(CeilDiv(q.computed + NewTokens(q)) - Len(q.blocks), 0)

(* Mutant: no check for outputs in flight. *)
SchedulableAnyway(q, maxTokens) == NewTokens(q) > 0

(* The running loop leaves out a request whose last output is in flight.   *)
Schedulable(q, maxTokens) ==
  /\ ~ (/\ q.placeholders > 0
        /\ q.computed + 2 - q.placeholders >= q.prompt + maxTokens)
  /\ NewTokens(q) > 0

(* A step is scheduled for q with the new blocks ids; a prefill that does  *)
(* not reach the tokens in flight gets no output placeholder.              *)
Scheduled(q, ids) ==
  LET done == q.computed + NewTokens(q) IN
  [q EXCEPT !.status = "RUNNING", !.computed = done,
            !.blocks = @ \o ids,
            !.placeholders =
               @ + IF Async /\ done >= q.tokens + q.placeholders THEN 1 ELSE 0]

(* Mutant: the freed blocks stay in the request's list. *)
PreemptedWithBlocks(q) == [q EXCEPT !.status = "PREEMPTED", !.computed = 0]

Preempted(q) ==
  [q EXCEPT !.status = "PREEMPTED", !.computed = 0, !.blocks = <<>>]

(* Mutant: the outputs in flight are not marked to be discarded. *)
ForcePreemptedUndiscarded(q) == [Preempted(q) EXCEPT !.placeholders = 0]

(* reset_prefix_cache forgets the outputs in flight when it preempts.      *)
ForcePreempted(q) ==
  [Preempted(q) EXCEPT !.discard = q.placeholders, !.placeholders = 0]

(* One sampled token comes back; a frame to discard changes nothing else.  *)
Sampled(q) ==
  IF q.discard > 0 THEN [q EXCEPT !.discard = @ - 1]
  ELSE [q EXCEPT !.tokens = @ + 1,
                 !.placeholders = @ - IF Async THEN 1 ELSE 0]
LengthStop(q, maxTokens) == q.tokens - q.prompt >= maxTokens

(* Mutant: the incomplete tail block is planned too. *)
DemotionPlanWithTail(q) ==
  [i \in {i \in DOMAIN q.blocks :
            (i - 1) * BlockSize < q.computed /\ q.blocks[i] # NullBlock}
     |-> q.blocks[i]]

(* plan_request_kv_state: the complete blocks that are still HOT.          *)
DemotionPlan(q) ==
  [i \in {i \in DOMAIN q.blocks :
            i * BlockSize <= q.computed /\ q.blocks[i] # NullBlock}
     |-> q.blocks[i]]

(* commit_request_kv_transition: it raises unless every planned block is   *)
(* where the plan found it; then the null block takes its place.           *)
CommitOK(q, plan) ==
  \A i \in DOMAIN plan : i \in DOMAIN q.blocks /\ q.blocks[i] = plan[i]

(* Mutant: the last block of the list stays. *)
CommittedButLast(q, plan) ==
  [q EXCEPT !.kv = "WARM",
            !.blocks = [i \in DOMAIN q.blocks |->
               IF i \in DOMAIN plan /\ i + 1 \in DOMAIN q.blocks
               THEN NullBlock ELSE q.blocks[i]]]

Committed(q, plan) ==
  [q EXCEPT !.kv = "WARM",
            !.blocks = [i \in DOMAIN q.blocks |->
               IF i \in DOMAIN plan THEN NullBlock ELSE q.blocks[i]]]
=============================================================================
