------------------------------ MODULE HKVWorker ------------------------------
(***************************************************************************)
(* The worker: the model runner's block tables and the WARM migration      *)
(* manager (vllm/v1/worker/gpu/model_runner.py, hkv_migration.py), with    *)
(* what the HOT and WARM pools physically hold.  The slot allocator is the *)
(* one WarmSlotAllocator specifies; a migration reserves and commits in    *)
(* one step here.                                                          *)
(***************************************************************************)
EXTENDS KVSession

CONSTANT WarmCapacity

ASSUME WarmAssumption == WarmCapacity \in Nat \ {0}

WarmSlot == 0 .. WarmCapacity - 1

(* What a block or slot holds: the first `upto` tokens of logical block    *)
(* idx of request req.                                                     *)
Unwritten == [req |-> NullBlock, idx |-> 0, upto |-> 0]

VARIABLES table,      \* block table rows, <<>> for a request not known
          residency,  \* warm_residency: per request, index -> slot and source
          slotTable,  \* rows of the warm-slot table, one per request of the
                      \* batch it was made for; <<>> if made before the last
                      \* change of residency
          hot, warm   \* contents of the two pools

workerVars == <<table, residency, slotTable, hot, warm>>

WorkerInit ==
  /\ table = [r \in Req |-> <<>>]
  /\ residency = [r \in Req |-> <<>>]
  /\ slotTable = <<>>
  /\ hot = [b \in Block |-> Unwritten]
  /\ warm = [s \in WarmSlot |-> Unwritten]

SlotsOf(r) == {residency[r][i].slot : i \in DOMAIN residency[r]}
FreeSlots == WarmSlot \ UNION {SlotsOf(r) : r \in Req}

(* migrate() refuses a transition whose request, block or earlier copy is  *)
(* not what it says, and one the free slots cannot hold.                   *)
Stale(t) ==
  \/ table[t.req] = <<>>
  \/ \E i \in DOMAIN t.plan :
       \/ i \notin DOMAIN table[t.req]
       \/ table[t.req][i] # t.plan[i]
       \/ i \in DOMAIN residency[t.req] /\ residency[t.req][i].source # t.plan[i]
NewEntries(t) == DOMAIN t.plan \ DOMAIN residency[t.req]

Verdict(t) ==
  CASE Stale(t) -> "STALE"
    [] ~Stale(t) /\ Cardinality(NewEntries(t)) > Cardinality(FreeSlots) -> "CAPACITY"
    [] OTHER -> "SUCCESS"

(* The n-th new logical block takes the n-th smallest free slot. *)
SlotFor(t, i) ==
  CHOOSE s \in FreeSlots :
    Cardinality({u \in FreeSlots : u < s}) =
      Cardinality({j \in NewEntries(t) : j < i})

Migrate(t) ==
  IF Verdict(t) # "SUCCESS" THEN UNCHANGED workerVars
  ELSE /\ residency' = [residency EXCEPT ![t.req] =
            [i \in DOMAIN @ \cup NewEntries(t) |->
               IF i \in DOMAIN @ THEN @[i]
               ELSE [slot |-> SlotFor(t, i), source |-> t.plan[i]]]]
       /\ warm' = [s \in WarmSlot |->
            IF \E i \in NewEntries(t) : SlotFor(t, i) = s
            THEN hot[t.plan[CHOOSE i \in NewEntries(t) : SlotFor(t, i) = s]]
            ELSE warm[s]]
       /\ slotTable' = IF NewEntries(t) = {} THEN slotTable ELSE <<>>
       /\ UNCHANGED <<table, hot>>

(* The part of a logical block that lies below token n. *)
Below(n, i) == Larger(0, Smaller(BlockSize, n - (i - 1) * BlockSize))

(* finish_requests, add_requests, update_requests: the block tables and    *)
(* the residency the step's attention uses.                                *)
Entry(b, r) == b.sched[CHOOSE k \in DOMAIN b.sched : b.sched[k].req = r]
IsScheduled(b, r) == \E k \in DOMAIN b.sched : b.sched[k].req = r

NewRow(b, r, old) ==
  IF ~IsScheduled(b, r) THEN old
  ELSE IF Entry(b, r).fresh THEN Entry(b, r).ids ELSE old \o Entry(b, r).ids

(* Mutants: WARM slots survive a preemption; the blocks of a running       *)
(* request are not appended to its row.                                    *)
TablesKeepPreempted(b) ==
  /\ residency' = [r \in Req |-> IF r \in b.finished THEN <<>> ELSE residency[r]]
  /\ table' = [r \in Req |->
       NewRow(b, r, IF r \in b.finished \cup b.preempted THEN <<>> ELSE table[r])]

TablesWithoutNewBlocks(b) ==
  /\ residency' = [r \in Req |->
       IF r \in b.finished \cup b.preempted THEN <<>> ELSE residency[r]]
  /\ table' = [r \in Req |->
       IF r \in b.finished \cup b.preempted THEN <<>>
       ELSE IF IsScheduled(b, r) /\ Entry(b, r).fresh THEN Entry(b, r).ids
       ELSE table[r]]

TablesFor(b) ==
  /\ residency' = [r \in Req |->
       IF r \in b.finished \cup b.preempted THEN <<>> ELSE residency[r]]
  /\ table' = [r \in Req |->
       NewRow(b, r, IF r \in b.finished \cup b.preempted THEN <<>> ELSE table[r])]

(* The batch puts decodes before prefills: by number of tokens, those with *)
(* the same number in the order of the schedule.                           *)
Batch(b) ==
  LET Place(k) == Cardinality({j \in DOMAIN b.sched :
                     \/ b.sched[j].num < b.sched[k].num
                     \/ b.sched[j].num = b.sched[k].num /\ j <= k})
  IN [n \in DOMAIN b.sched |->
        b.sched[CHOOSE k \in DOMAIN b.sched : Place(k) = n]]

(* prepare_attn keeps the warm-slot table if it was made for these         *)
(* requests in this order and no residency was added or released since.    *)
Released(b) == \E r \in b.finished \cup b.preempted : residency[r] # <<>>

(* Mutant: the order of the requests is not compared. *)
SameRevision(b) == ~Released(b) /\ slotTable # <<>>

Reusable(b) ==
  ~Released(b) /\ [n \in DOMAIN slotTable |-> slotTable[n].req] =
                   [n \in DOMAIN b.sched |-> Batch(b)[n].req]

SlotRow(r) ==
  [req |-> r, slots |-> [i \in DOMAIN residency'[r] |-> residency'[r][i].slot]]

SlotTableFor(b) ==
  slotTable' = IF b.sched = <<>> THEN IF Released(b) THEN <<>> ELSE slotTable
               ELSE IF Reusable(b) THEN slotTable
               ELSE [n \in DOMAIN b.sched |-> SlotRow(Batch(b)[n].req)]

(* The forward pass writes the tokens of every scheduled request into the  *)
(* HOT blocks its table names; a block that is begun is written from its   *)
(* first token.                                                            *)
WrittenBy(b, e, block) ==
  {i \in DOMAIN table'[e.req] :
     /\ table'[e.req][i] = block
     /\ Below(e.start + e.num, i) > Below(e.start, i)}

Forward(b) ==
  /\ TablesFor(b) /\ SlotTableFor(b)
  /\ hot' = [block \in Block |->
       LET writers == {k \in DOMAIN b.sched : WrittenBy(b, b.sched[k], block) # {}}
       IN IF writers = {} THEN hot[block]
          ELSE LET e == b.sched[CHOOSE k \in writers : TRUE]
                   i == CHOOSE i \in WrittenBy(b, e, block) : TRUE
               IN [req |-> e.req, idx |-> i, upto |-> Below(e.start + e.num, i)]]
  /\ UNCHANGED warm

(* Where attention finds the tokens of logical block i of the n-th request *)
(* of the batch, and that the kernel writes to a block of its own.         *)
WarmSlots(n) == IF n \in DOMAIN slotTable' THEN slotTable'[n].slots ELSE <<>>

HistoryAt(n, r, i, tokens) ==
  LET found == IF i \in DOMAIN WarmSlots(n) THEN warm[WarmSlots(n)[i]]
               ELSE IF table'[r][i] = NullBlock THEN Unwritten
               ELSE hot[table'[r][i]]
  IN found.req = r /\ found.idx = i /\ found.upto >= tokens

ReadsOwnHistory(b) ==
  \A n \in DOMAIN b.sched :
    LET e == Batch(b)[n] IN
    \A i \in 1 .. CeilDiv(e.start + e.num) :
      /\ i \in DOMAIN table'[e.req]
      /\ Below(e.start, i) > 0 => HistoryAt(n, e.req, i, Below(e.start, i))
      /\ Below(e.start + e.num, i) > Below(e.start, i) =>
           table'[e.req][i] # NullBlock /\ i \notin DOMAIN WarmSlots(n)
=============================================================================
