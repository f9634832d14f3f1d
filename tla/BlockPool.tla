------------------------------ MODULE BlockPool ------------------------------
(***************************************************************************)
(* The pool of HOT blocks with prefix caching on (BlockPool and            *)
(* FreeKVCacheBlockQueue of vllm/v1/core): its operations, on a record p   *)
(* with the reference count and the hash of every block and the queue of   *)
(* free blocks in eviction order.  A hash is the token prefix it           *)
(* fingerprints, the empty one standing for no hash, and the map from      *)
(* hashes to blocks is read off the blocks: the code changes both          *)
(* together.                                                               *)
(***************************************************************************)
EXTENDS Subsequences, SequencesExt

CONSTANT NumBlocks      \* blocks of the pool, the null block excluded
ASSUME PoolAssumption == NumBlocks \in Nat \ {0}

NullBlock == 0
Block == 1 .. NumBlocks
NoHash == <<>>

NewPool ==
  [ref |-> [b \in Block |-> 0], hash |-> [b \in Block |-> NoHash],
   queue |-> [i \in 1 .. NumBlocks |-> i]]

Free(p) == Len(p.queue)
Holding(p, h) == {b \in Block : h # NoHash /\ p.hash[b] = h}

(* get_new_blocks: the head of the queue, hashes evicted. *)
NewBlocks(p, n) == SubSeq(p.queue, 1, n)

Allocated(p, n) ==
  LET new == ToSet(NewBlocks(p, n)) IN
  [ref |-> [b \in Block |-> p.ref[b] + IF b \in new THEN 1 ELSE 0],
   hash |-> [b \in Block |-> IF b \in new THEN NoHash ELSE p.hash[b]],
   queue |-> SubSeq(p.queue, n + 1, Free(p))]

(* Mutant: a block that is hit stays a candidate for eviction. *)
TouchedInQueue(p, hits) ==
  [p EXCEPT !.ref = [b \in Block |-> @[b] + IF b \in ToSet(hits) THEN 1 ELSE 0]]

(* touch: one more holder for each block; a free one leaves the queue.     *)
Touched(p, hits) ==
  [TouchedInQueue(p, hits) EXCEPT
     !.queue = Only(@, Block \ ToSet(hits))]

(* free_blocks: ids in the order they are to be evicted.  A block is       *)
(* released with its last holder, ahead of the queue if it has no hash and *)
(* behind it otherwise.                                                    *)
Freed(p, ids) ==
  LET own == ToSet(ids) \cap Block
      released == {b \in own : p.ref[b] = 1}
      hashed == {b \in Block : p.hash[b] # NoHash}
  IN [ref |-> [b \in Block |-> p.ref[b] - IF b \in own THEN 1 ELSE 0],
      hash |-> p.hash,
      queue |-> Only(ids, released \ hashed) \o p.queue \o Only(ids, released \cap hashed)]

(* cache_full_blocks: block b gets hash h. *)
Cached(p, b, h) == [p EXCEPT !.hash[b] = h]

(* _maybe_evict_cached_block on each of a set of blocks. *)
Evicted(p, bs) ==
  [p EXCEPT !.hash = [b \in Block |-> IF b \in bs THEN NoHash ELSE @[b]]]

(* reset_prefix_cache: only when every block is free. *)
Resettable(p) == Free(p) = NumBlocks
=============================================================================
