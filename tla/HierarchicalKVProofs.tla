------------------------ MODULE HierarchicalKVProofs ------------------------
(***************************************************************************)
(* What holds of the engine in every configuration: the HOT blocks are     *)
(* conserved and demotions are atomic, because a plan stays true, in one   *)
(* step in flight, until it is answered; and a request is owed an answer   *)
(* by each step that runs it, as long as the length of a turn is what      *)
(* stops it.                                                               *)
(***************************************************************************)
EXTENDS HierarchicalKV, SubsequenceProofs

\* The sizes are positive numbers.
LEMMA Sizes ==
  /\ BlockSize \in Nat /\ BlockSize > 0 /\ PromptTokens \in Nat /\ PromptTokens > 0
  /\ \A r \in Req : MaxTokens[r] \in Nat /\ MaxTokens[r] > 0
BY SizeAssumption

\* The fields of a request, and its block list as a function.
LEMMA RecordFields ==
  ASSUME NEW q \in Record
  PROVE  /\ q.status \in Status /\ q.tokens \in Nat /\ q.prompt \in Nat
         /\ q.computed \in Nat /\ q.placeholders \in Nat /\ q.discard \in Nat
         /\ q.kv \in {"HOT", "WARM"} /\ q.blocks \in Seq(Block \cup {NullBlock})
         /\ q.updates \in Seq({"turn", "close"})
         /\ Len(q.blocks) \in Nat /\ DOMAIN q.blocks = 1 .. Len(q.blocks)
         /\ \A i \in DOMAIN q.blocks : q.blocks[i] \in Block \cup {NullBlock}
BY LenProperties, ElementOfSeq DEF Record

\* What a request is before it comes, and when it has just come.
LEMMA AbsentRecord ==
  /\ Absent \in Record /\ Absent.status = "ABSENT" /\ Absent.blocks = <<>>
  /\ Arrived \in Record /\ Arrived.status = "WAITING" /\ Arrived.blocks = <<>>
  /\ Arrived.tokens = PromptTokens /\ Arrived.computed = 0 /\ Arrived.prompt = PromptTokens
  /\ Arrived.placeholders = 0 /\ Arrived.discard = 0 /\ Arrived.kv = "HOT"
  /\ Arrived.updates = <<>>
BY Sizes, EmptySeq DEF Absent, Arrived, Record, Status

\* A new turn moves no block and forgets nothing that was computed.
LEMMA ResumeRecord ==
  ASSUME NEW q \in Record
  PROVE  /\ Resume(q) \in Record
         /\ Resume(q).status = "WAITING" /\ Resume(q).blocks = q.blocks
         /\ Resume(q).kv = "HOT" /\ Resume(q).computed = q.computed
         /\ Resume(q).placeholders = q.placeholders /\ Resume(q).discard = q.discard
         /\ Resume(q).updates = q.updates
         /\ Resume(q).tokens = PromptTokens + Smaller(q.tokens, Larger(q.computed, q.prompt))
         /\ Resume(q).prompt = Resume(q).tokens
<1> DEFINE kept == Smaller(q.tokens, Larger(q.computed, q.prompt))
<1>1. kept \in Nat
  BY RecordFields DEF Smaller, Larger
<1>2. kept + PromptTokens \in Nat /\ kept + PromptTokens = PromptTokens + kept
  BY <1>1, Sizes
<1>3. Resume(q) = [q EXCEPT !.tokens = kept + PromptTokens, !.prompt = kept + PromptTokens,
                            !.kv = "HOT", !.status = "WAITING"]
  BY DEF Resume
<1> HIDE DEF kept
<1>4. /\ Resume(q) \in Record
      /\ Resume(q).tokens = PromptTokens + kept /\ Resume(q).prompt = Resume(q).tokens
      /\ Resume(q).status = "WAITING" /\ Resume(q).kv = "HOT"
  BY <1>2, <1>3, ZenonT(30) DEF Record, Status
<1>5. /\ Resume(q).blocks = q.blocks /\ Resume(q).computed = q.computed
      /\ Resume(q).placeholders = q.placeholders /\ Resume(q).discard = q.discard
      /\ Resume(q).updates = q.updates
  BY <1>3 DEF Record
<1> QED BY <1>4, <1>5 DEF kept

\* A preempted request has no block.
LEMMA PreemptedRecord ==
  ASSUME NEW q \in Record
  PROVE  /\ Preempted(q) \in Record /\ ForcePreempted(q) \in Record
         /\ Preempted(q).status = "PREEMPTED" /\ ForcePreempted(q).status = "PREEMPTED"
         /\ Preempted(q).blocks = <<>> /\ ForcePreempted(q).blocks = <<>>
BY RecordFields, EmptySeq DEF Preempted, ForcePreempted, Record, Status

\* A number of blocks is a number.
LEMMA CeilDivType ==
  ASSUME NEW n \in Nat
  PROVE  CeilDiv(n) \in Nat
BY Sizes DEF CeilDiv

\* So is the number of blocks a request still needs.
LEMMA BlocksNeededType ==
  ASSUME NEW q \in Record
  PROVE  /\ NewTokens(q) \in Int /\ q.computed + NewTokens(q) \in Nat
         /\ BlocksNeeded(q) \in Nat
<1>1. NewTokens(q) \in Int /\ q.computed + NewTokens(q) \in Nat
  BY RecordFields DEF NewTokens
<1>2. CeilDiv(q.computed + NewTokens(q)) \in Nat
  BY <1>1, CeilDivType
<1> QED BY <1>1, <1>2, RecordFields DEF BlocksNeeded, Larger

\* A scheduled request runs, with its new blocks behind the ones it has.
LEMMA ScheduledRecord ==
  ASSUME NEW q \in Record, NEW ids \in Seq(Block)
  PROVE  /\ Scheduled(q, ids) \in Record
         /\ Scheduled(q, ids).status = "RUNNING"
         /\ Scheduled(q, ids).blocks = q.blocks \o ids
         /\ q.blocks \o ids \in Seq(Block \cup {NullBlock})
         /\ Scheduled(q, ids).computed = q.computed + NewTokens(q)
<1>1. ids \in Seq(Block \cup {NullBlock})
  BY SeqMonotonic
<1>2. q.blocks \o ids \in Seq(Block \cup {NullBlock})
  BY <1>1, RecordFields, ConcatProperties
<1>3. q.computed + NewTokens(q) \in Nat
  BY BlocksNeededType
<1>4. q.placeholders + (IF Async /\ q.computed + NewTokens(q) >= q.tokens + q.placeholders
                        THEN 1 ELSE 0) \in Nat
  BY RecordFields
<1> QED BY <1>2, <1>3, <1>4 DEF Scheduled, Record, Status

\* A token that comes back moves no block.
LEMMA SampledRecord ==
  ASSUME NEW q \in Record, Sampled(q).placeholders >= 0
  PROVE  /\ Sampled(q) \in Record
         /\ Sampled(q).status = q.status /\ Sampled(q).blocks = q.blocks
         /\ Sampled(q).computed = q.computed /\ Sampled(q).prompt = q.prompt
         /\ Sampled(q).updates = q.updates /\ Sampled(q).kv = q.kv
<1>1. CASE q.discard > 0
  <2>1. q.discard - 1 \in Nat
    BY <1>1, RecordFields
  <2> QED BY <1>1, <2>1 DEF Sampled, Record
<1>2. CASE ~(q.discard > 0)
  <2>1. q.placeholders - (IF Async THEN 1 ELSE 0) \in Nat /\ q.tokens + 1 \in Nat
    BY <1>2, RecordFields DEF Sampled, Record
  <2> QED BY <1>2, <2>1 DEF Sampled, Record
<1> QED BY <1>1, <1>2

\* A committed plan replaces the planned blocks and changes nothing else.
LEMMA CommittedRecord ==
  ASSUME NEW q \in Record, NEW plan
  PROVE  /\ Committed(q, plan) \in Record
         /\ Committed(q, plan).status = q.status /\ Committed(q, plan).kv = "WARM"
         /\ Committed(q, plan).updates = q.updates
         /\ Committed(q, plan).tokens = q.tokens /\ Committed(q, plan).computed = q.computed
         /\ Committed(q, plan).prompt = q.prompt
         /\ Committed(q, plan).placeholders = q.placeholders
         /\ Committed(q, plan).discard = q.discard
         /\ DOMAIN Committed(q, plan).blocks = DOMAIN q.blocks
         /\ \A i \in DOMAIN q.blocks :
              Committed(q, plan).blocks[i] =
                IF i \in DOMAIN plan THEN NullBlock ELSE q.blocks[i]
<1> DEFINE blocks == [i \in DOMAIN q.blocks |->
                        IF i \in DOMAIN plan THEN NullBlock ELSE q.blocks[i]]
<1>1. blocks \in Seq(Block \cup {NullBlock})
  BY RecordFields
<1> QED BY <1>1 DEF Committed, Record

(* A plan that is not empty names a block; the blocks it names are HOT, so *)
(* a request can commit the plan it has just made.                         *)
LEMMA DemotionPlanIsPlan ==
  ASSUME NEW q \in Record
  PROVE  /\ IsPlan(DemotionPlan(q))
         /\ DOMAIN DemotionPlan(q) \subseteq DOMAIN q.blocks \ WarmIndices(q)
         /\ CommitOK(q, DemotionPlan(q))
         /\ DemotionPlan(q) # NoPlan => DOMAIN DemotionPlan(q) # {}
<1> DEFINE D == {i \in DOMAIN q.blocks : i * BlockSize <= q.computed /\ q.blocks[i] # NullBlock}
<1>1. DemotionPlan(q) = [i \in D |-> q.blocks[i]] /\ DOMAIN DemotionPlan(q) = D
  BY DEF DemotionPlan
<1>2. IsFiniteSet(D) /\ D \subseteq Nat \ {0}
  <2>1. D \in SUBSET (1 .. Len(q.blocks)) /\ Len(q.blocks) \in Nat
    BY RecordFields
  <2>2. IsFiniteSet(1 .. Len(q.blocks))
    BY <2>1, FS_Interval
  <2> HIDE DEF D
  <2>3. IsFiniteSet(D)
    BY <2>1, <2>2, FS_Subset
  <2> QED BY <2>1, <2>3
<1>3. \A i \in D : q.blocks[i] \in Block
  BY RecordFields
<1>4. D = {} => [i \in D |-> q.blocks[i]] = <<>>
  OBVIOUS
<1> QED BY <1>1, <1>2, <1>3, <1>4 DEF IsPlan, WarmIndices, CommitOK, NoPlan
-----------------------------------------------------------------------------
\* No HOT block is twice in a request's list.
NoDuplicate(q) ==
  \A i, j \in DOMAIN q.blocks :
    i # j /\ q.blocks[i] = q.blocks[j] => q.blocks[i] = NullBlock

(* H gives every request its HOT blocks, F are the free ones.              *)
Partition(H, F) ==
  /\ \A r, s \in Req : r # s => H[r] \cap H[s] = {}
  /\ F = Block \ UNION {H[r] : r \in Req}

\* A request holds blocks of the pool; without a list it holds none.
LEMMA HeldAreBlocks ==
  ASSUME NEW q \in Record
  PROVE  /\ HeldBlocks(q) \subseteq Block
         /\ q.blocks = <<>> => HeldBlocks(q) = {} /\ WarmIndices(q) = {} /\ NoDuplicate(q)
BY RecordFields DEF HeldBlocks, WarmIndices, NoDuplicate

\* What is held, demoted and to be committed depends on the list alone.
LEMMA SameBlocks ==
  ASSUME NEW q, NEW q2, q2.blocks = q.blocks
  PROVE  /\ HeldBlocks(q2) = HeldBlocks(q) /\ WarmIndices(q2) = WarmIndices(q)
         /\ NoDuplicate(q2) = NoDuplicate(q)
         /\ \A plan : CommitOK(q2, plan) = CommitOK(q, plan)
BY DEF HeldBlocks, WarmIndices, NoDuplicate, CommitOK

\* New blocks are held in addition, and demote nothing.
LEMMA ScheduledBlocks ==
  ASSUME NEW q \in Record, NEW ids \in Seq(Block)
  PROVE  /\ HeldBlocks(Scheduled(q, ids)) = HeldBlocks(q) \cup Range(ids)
         /\ WarmIndices(Scheduled(q, ids)) = WarmIndices(q)
         /\ NoDuplicate(q) /\ IsInjective(ids) /\ Range(ids) \cap HeldBlocks(q) = {}
              => NoDuplicate(Scheduled(q, ids))
<1> DEFINE n == Len(q.blocks)
           b == Scheduled(q, ids).blocks
<1>1. /\ q.blocks \in Seq(Block \cup {NullBlock}) /\ ids \in Seq(Block \cup {NullBlock})
      /\ n \in Nat /\ DOMAIN q.blocks = 1 .. n
      /\ Len(ids) \in Nat /\ DOMAIN ids = 1 .. Len(ids)
  BY RecordFields, LenProperties, SeqMonotonic
<1>2. b = q.blocks \o ids
  BY ScheduledRecord
<1>3. /\ DOMAIN b = 1 .. n + Len(ids)
      /\ \A i \in DOMAIN b : b[i] = IF i <= n THEN q.blocks[i] ELSE ids[i - n]
  BY <1>1, <1>2, ConcatProperties, LenProperties
<1>4. \A i \in DOMAIN ids : ids[i] \in Block /\ ids[i] # NullBlock
  BY <1>1, ElementOfSeq, BlockAssumption
<1> HIDE DEF b, n
<1>5. \A i \in 1 .. n : i \in DOMAIN b /\ b[i] = q.blocks[i]
  BY <1>1, <1>3
<1>6. \A i \in DOMAIN ids : n + i \in DOMAIN b /\ b[n + i] = ids[i]
  BY <1>1, <1>3
<1>7. \A i \in DOMAIN b : \/ i \in 1 .. n
                          \/ i - n \in DOMAIN ids /\ b[i] = ids[i - n]
  BY <1>1, <1>3
<1>8. HeldBlocks(Scheduled(q, ids)) = HeldBlocks(q) \cup Range(ids)
  <2>1. {b[i] : i \in DOMAIN b} = {q.blocks[i] : i \in DOMAIN q.blocks} \cup {ids[i] : i \in DOMAIN ids}
    BY <1>1, <1>5, <1>6, <1>7
  <2>2. NullBlock \notin {ids[i] : i \in DOMAIN ids}
    BY <1>4
  <2> QED BY <2>1, <2>2 DEF HeldBlocks, Range, b
<1>9. WarmIndices(Scheduled(q, ids)) = WarmIndices(q)
  BY <1>1, <1>4, <1>5, <1>7 DEF WarmIndices, b
<1>10. ASSUME NoDuplicate(q), IsInjective(ids), Range(ids) \cap HeldBlocks(q) = {}
       PROVE  NoDuplicate(Scheduled(q, ids))
  <2> SUFFICES ASSUME NEW i \in DOMAIN b, NEW j \in DOMAIN b, i # j, b[i] = b[j], b[i] # NullBlock
               PROVE  FALSE
    BY DEF NoDuplicate, b
  <2>1. \A k \in 1 .. n, l \in DOMAIN ids : q.blocks[k] # NullBlock => q.blocks[k] # ids[l]
    BY <1>1, <1>10 DEF HeldBlocks, Range
  <2>2. CASE i \in 1 .. n /\ j \in 1 .. n
    BY <1>1, <1>5, <1>10, <2>2 DEF NoDuplicate
  <2>3. CASE i - n \in DOMAIN ids /\ b[i] = ids[i - n] /\ j - n \in DOMAIN ids /\ b[j] = ids[j - n]
    <3>1. i - n = j - n
      BY <1>10, <2>3 DEF IsInjective
    <3> QED BY <1>1, <1>3, <3>1
  <2>4. CASE i \in 1 .. n /\ j - n \in DOMAIN ids /\ b[j] = ids[j - n]
    BY <1>5, <2>1, <2>4
  <2>5. CASE j \in 1 .. n /\ i - n \in DOMAIN ids /\ b[i] = ids[i - n]
    BY <1>5, <2>1, <2>5
  <2> QED BY <1>7, <2>2, <2>3, <2>4, <2>5
<1> QED BY <1>8, <1>9, <1>10

\* A commit gives up the planned blocks, exactly.
LEMMA CommittedBlocks ==
  ASSUME NEW q \in Record, NEW plan, IsPlan(plan), CommitOK(q, plan)
  PROVE  /\ NoDuplicate(q) => HeldBlocks(Committed(q, plan)) = HeldBlocks(q) \ Range(plan)
         /\ Range(plan) \subseteq HeldBlocks(q)
         /\ WarmIndices(Committed(q, plan)) = WarmIndices(q) \cup DOMAIN plan
         /\ NoDuplicate(q) => NoDuplicate(Committed(q, plan))
<1> DEFINE b == Committed(q, plan).blocks
<1>1. /\ DOMAIN b = DOMAIN q.blocks
      /\ \A i \in DOMAIN b : b[i] = IF i \in DOMAIN plan THEN NullBlock ELSE q.blocks[i]
  BY CommittedRecord
<1>2. \A i \in DOMAIN plan : /\ i \in DOMAIN b /\ q.blocks[i] = plan[i]
                             /\ plan[i] \in Block /\ plan[i] # NullBlock
  BY <1>1, BlockAssumption DEF CommitOK, IsPlan
<1> HIDE DEF b
<1>3. ASSUME NoDuplicate(q)
      PROVE  HeldBlocks(Committed(q, plan)) = HeldBlocks(q) \ Range(plan)
  <2>1. \A i \in DOMAIN b : i \notin DOMAIN plan /\ q.blocks[i] # NullBlock => q.blocks[i] \notin Range(plan)
    BY <1>1, <1>2, <1>3 DEF NoDuplicate, Range
  <2>2. \A i \in DOMAIN b : i \in DOMAIN plan => q.blocks[i] \in Range(plan) /\ b[i] = NullBlock
    BY <1>1, <1>2 DEF Range
  <2>3. HeldBlocks(Committed(q, plan)) = {b[i] : i \in DOMAIN b} \ {NullBlock}
    BY DEF HeldBlocks, b
  <2> QED BY <1>1, <2>1, <2>2, <2>3 DEF HeldBlocks
<1>4. Range(plan) \subseteq HeldBlocks(q)
  BY <1>1, <1>2 DEF Range, HeldBlocks
<1>5. WarmIndices(Committed(q, plan)) = WarmIndices(q) \cup DOMAIN plan
  BY <1>1, <1>2 DEF WarmIndices, b
<1>6. NoDuplicate(q) => NoDuplicate(Committed(q, plan))
  BY <1>1 DEF NoDuplicate, b
<1> QED BY <1>3, <1>4, <1>5, <1>6

(* Blocks that leave requests and become free leave a partition, and so do *)
(* free blocks given to requests.                                          *)
LEMMA ReleasePartition ==
  ASSUME NEW H \in [Req -> SUBSET Block], NEW F, Partition(H, F),
         NEW H2 \in [Req -> SUBSET Block], \A r \in Req : H2[r] \subseteq H[r],
         NEW F2, F2 = F \cup UNION {H[r] \ H2[r] : r \in Req}
  PROVE  Partition(H2, F2)
<1>1. \A r, s \in Req : r # s => H2[r] \cap H2[s] = {}
  BY DEF Partition
<1>2. F2 = Block \ UNION {H2[r] : r \in Req}
  <2>1. ASSUME NEW x \in F2 PROVE x \in Block /\ \A r \in Req : x \notin H2[r]
    BY DEF Partition
  <2>2. ASSUME NEW x \in Block, \A r \in Req : x \notin H2[r] PROVE x \in F2
    BY <2>2 DEF Partition
  <2> QED BY <2>1, <2>2
<1> QED BY <1>1, <1>2 DEF Partition

\* So do free blocks that are given to requests, each to one.
LEMMA GrantPartition ==
  ASSUME NEW H \in [Req -> SUBSET Block], NEW F, Partition(H, F),
         NEW G \in [Req -> SUBSET F],
         \A r, s \in Req : r # s => G[r] \cap G[s] = {},
         NEW H2 \in [Req -> SUBSET Block], \A r \in Req : H2[r] = H[r] \cup G[r],
         NEW F2, F2 = F \ UNION {G[r] : r \in Req}
  PROVE  Partition(H2, F2)
<1>1. \A r, s \in Req : r # s => H2[r] \cap H2[s] = {}
  BY DEF Partition
<1>2. F2 = Block \ UNION {H2[r] : r \in Req}
  <2>1. ASSUME NEW x \in F2 PROVE x \in Block /\ \A r \in Req : x \notin H2[r]
    BY DEF Partition
  <2>2. ASSUME NEW x \in Block, \A r \in Req : x \notin H2[r] PROVE x \in F2
    BY <2>2 DEF Partition
  <2> QED BY <2>1, <2>2
<1> QED BY <1>1, <1>2 DEF Partition
-----------------------------------------------------------------------------

\* Plans and steps as values.
Plan ==
  UNION {[D -> Block] : D \in {D \in SUBSET (Nat \ {0}) : IsFiniteSet(D)}}
Transition == [req : Req, plan : Plan]
SchedEntry ==
  [req : Req, start : Nat, num : Nat, fresh : BOOLEAN,
   ids : Seq(Block \cup {NullBlock})]
BatchRecord ==
  [trans : Seq(Transition), sched : Seq(SchedEntry),
   preempted : SUBSET Req, finished : SUBSET Req,
   results : Seq({"STALE", "CAPACITY", "SUCCESS"}), done : BOOLEAN]

\* TypeOK but for the number of idle sessions, which may be any integer
\* here.
Typed ==
  /\ req \in [Req -> Record]
  /\ running \in Seq(Req) /\ waiting \in Seq(Req) /\ skipped \in Seq(Req)
  /\ freeBlocks \subseteq Block
  /\ pending \in [Req -> Plan]
  /\ deferred \subseteq Req /\ finishedIds \subseteq Req
  /\ numIdle \in Int
  /\ sent \in [Req -> 0 .. MaxTurns + 1]
  /\ batches \in Seq(BatchRecord)
  /\ raised \in BOOLEAN
  /\ phase \in {"input", "result"}

\* The requests the scheduler has.
LiveOnes == {r \in Req : Live(r)}

\* They are finitely many, and ones that clients have sent.
ClientsKnown ==
  /\ IsFiniteSet(LiveOnes)
  /\ \A r \in Req : /\ ~Live(r) => req[r] = Absent
                    /\ sent[r] = 0 => ~Live(r)

\* Only running requests are in the running queue, and once.
RunningOnly ==
  /\ IsInjective(running)
  /\ \A r \in Range(running) : req[r].status = "RUNNING"

\* A session with a plan is idle, and its blocks are where the plan says.
PlansParked ==
  \A r \in Req : IsPending(r) => Idle(r) /\ CommitOK(req[r], pending[r])

(* Every pending plan is in exactly one step still to be processed.        *)
PlansInFlight ==
  /\ \A k \in DOMAIN batches : \A n \in DOMAIN batches[k].trans :
       /\ batches[k].trans[n].plan # NoPlan
       /\ pending[batches[k].trans[n].req] = batches[k].trans[n].plan
  /\ \A k, l \in DOMAIN batches :
       \A n \in DOMAIN batches[k].trans, m \in DOMAIN batches[l].trans :
         batches[k].trans[n].req = batches[l].trans[m].req => k = l /\ n = m
  /\ \A r \in Req : IsPending(r) =>
       \E k \in DOMAIN batches : \E n \in DOMAIN batches[k].trans :
         batches[k].trans[n].req = r

\* What every step keeps, whatever the configuration.
CoreInv ==
  /\ Typed /\ ClientsKnown /\ RunningOnly
  /\ PlansParked /\ PlansInFlight /\ HotConservation

\* HotConservation, of any requests and any free set.
HotOK(rq, F) ==
  /\ \A r \in Req : NoDuplicate(rq[r])
  /\ Partition([r \in Req |-> HeldBlocks(rq[r])], F)

\* It is the same predicate, before and after a step.
LEMMA HotConservationIsPartition ==
  /\ HotConservation <=> HotOK(req, freeBlocks)
  /\ (HotConservation <=> HotOK(req, freeBlocks))'
<1>1. HotConservation <=> HotOK(req, freeBlocks)
  BY DEF HotConservation, HotOK, Partition, NoDuplicate
<1>2. (HotConservation <=> HotOK(req, freeBlocks))'
  BY DEF HotConservation, HotOK, Partition, NoDuplicate
<1> QED BY <1>1, <1>2

\* Requests that give blocks up, to the free set, keep it.
LEMMA HotRelease ==
  ASSUME NEW rq \in [Req -> Record], NEW F, HotOK(rq, F),
         NEW rq2 \in [Req -> Record],
         \A r \in Req : NoDuplicate(rq2[r]) /\ HeldBlocks(rq2[r]) \subseteq HeldBlocks(rq[r]),
         NEW F2, F2 = F \cup UNION {HeldBlocks(rq[r]) \ HeldBlocks(rq2[r]) : r \in Req}
  PROVE  HotOK(rq2, F2)
<1> DEFINE H == [r \in Req |-> HeldBlocks(rq[r])]
           H2 == [r \in Req |-> HeldBlocks(rq2[r])]
<1>1. H \in [Req -> SUBSET Block] /\ H2 \in [Req -> SUBSET Block]
  BY HeldAreBlocks
<1>2. \A r \in Req : H[r] = HeldBlocks(rq[r]) /\ H2[r] = HeldBlocks(rq2[r])
  OBVIOUS
<1>3. Partition(H, F)
  BY DEF HotOK
<1> HIDE DEF H, H2
<1>4. \A r \in Req : H2[r] \subseteq H[r]
  BY <1>2
<1>5. F2 = F \cup UNION {H[r] \ H2[r] : r \in Req}
  BY <1>2
<1>6. Partition(H2, F2)
  BY <1>1, <1>3, <1>4, <1>5, ReleasePartition
<1> QED BY <1>6 DEF HotOK, H2

\* So do requests whose lists stay.
LEMMA HotSame ==
  ASSUME NEW rq \in [Req -> Record], NEW F, HotOK(rq, F),
         NEW rq2 \in [Req -> Record], \A r \in Req : rq2[r].blocks = rq[r].blocks
  PROVE  HotOK(rq2, F)
<1>1. \A r \in Req : NoDuplicate(rq2[r]) /\ HeldBlocks(rq2[r]) = HeldBlocks(rq[r])
  BY SameBlocks DEF HotOK
<1> DEFINE F2 == F \cup UNION {HeldBlocks(rq[r]) \ HeldBlocks(rq2[r]) : r \in Req}
<1>2. F2 = F
  BY <1>1
<1> HIDE DEF F2
<1>3. F2 = F \cup UNION {HeldBlocks(rq[r]) \ HeldBlocks(rq2[r]) : r \in Req}
  BY DEF F2
<1> QED BY <1>1, <1>2, <1>3, HotRelease

\* Plans are plans, and a demotion is one.
LEMMA PlanIsFinite ==
  /\ \A p \in Plan : IsPlan(p)
  /\ NoPlan \in Plan
  /\ \A q \in Record : DemotionPlan(q) \in Plan
<1>1. \A p \in Plan : IsPlan(p)
  BY DEF Plan, IsPlan
<1>2. NoPlan \in Plan
  <2>1. {} \in {D \in SUBSET (Nat \ {0}) : IsFiniteSet(D)}
    BY FS_EmptySet
  <2>2. NoPlan \in [{} -> Block]
    BY DEF NoPlan
  <2> QED BY <2>1, <2>2 DEF Plan
<1>3. ASSUME NEW q \in Record PROVE DemotionPlan(q) \in Plan
  <2> DEFINE D == DOMAIN DemotionPlan(q)
  <2>1. IsPlan(DemotionPlan(q))
    BY DemotionPlanIsPlan
  <2>2. D \in {S \in SUBSET (Nat \ {0}) : IsFiniteSet(S)}
    BY <2>1 DEF IsPlan
  <2>3. DemotionPlan(q) = [i \in D |-> DemotionPlan(q)[i]]
    BY DEF DemotionPlan
  <2>4. DemotionPlan(q) \in [D -> Block]
    <3> HIDE DEF D
    <3> QED BY <2>1, <2>3 DEF IsPlan, D
  <2> QED BY <2>2, <2>4 DEF Plan
<1> QED BY <1>1, <1>2, <1>3
-----------------------------------------------------------------------------
\* It holds at the start.
LEMMA CoreInit == Init => CoreInv
<1> SUFFICES ASSUME Init PROVE CoreInv
  OBVIOUS
<1> USE DEF Init, SchedInit
<1>1. Typed
  <2>1. sent \in [Req -> 0 .. MaxTurns + 1]
    BY LimitAssumption
  <2>2. pending \in [Req -> Plan]
    BY PlanIsFinite
  <2>3. req \in [Req -> Record]
    BY AbsentRecord
  <2>4. running \in Seq(Req) /\ waiting \in Seq(Req) /\ skipped \in Seq(Req)
        /\ batches \in Seq(BatchRecord)
    BY EmptySeq
  <2>5. freeBlocks \subseteq Block /\ deferred \subseteq Req /\ finishedIds \subseteq Req
    OBVIOUS
  <2>6. numIdle \in Int
    OBVIOUS
  <2>7. raised \in BOOLEAN
    OBVIOUS
  <2>8. phase \in {"input", "result"}
    OBVIOUS
  <2> HIDE DEF Init, SchedInit
  <2> QED BY <2>1, <2>2, <2>3, <2>4, <2>5, <2>6, <2>7, <2>8 DEF Typed
<1>2. ClientsKnown
  <2>1. LiveOnes = {} /\ \A r \in Req : req[r] = Absent /\ ~Live(r)
    BY AbsentRecord DEF LiveOnes, Live
  <2> QED BY <2>1, FS_EmptySet DEF ClientsKnown
<1>3. RunningOnly
  BY DEF RunningOnly, IsInjective, Range
<1>4. PlansParked
  BY DEF PlansParked, IsPending
<1>5. PlansInFlight
  BY DEF PlansInFlight, IsPending
<1>6. HotConservation
  <2>1. \A r \in Req : HeldBlocks(req[r]) = {} /\ NoDuplicate(req[r])
    BY AbsentRecord, HeldAreBlocks
  <2>2. HotOK(req, freeBlocks)
    BY <2>1 DEF HotOK, Partition
  <2> QED BY <2>2, HotConservationIsPartition
<1> QED BY <1>1, <1>2, <1>3, <1>4, <1>5, <1>6 DEF CoreInv

(* A set of live requests is finite.                                       *)
LEMMA LiveFinite ==
  ASSUME CoreInv, NEW S \in SUBSET LiveOnes
  PROVE  IsFiniteSet(S) /\ Cardinality(S) \in Nat
BY FS_Subset, FS_CardinalityType DEF CoreInv, ClientsKnown

\* One request more is still finitely many.
LEMMA LiveGrowsByOne ==
  ASSUME CoreInv, NEW r \in Req, LiveOnes' \subseteq LiveOnes \cup {r}
  PROVE  IsFiniteSet(LiveOnes')
BY FS_AddElement, FS_Subset DEF CoreInv, ClientsKnown

(* Plans and steps in flight stay true while nothing of theirs changes.    *)
LEMMA PlansKept ==
  ASSUME CoreInv, UNCHANGED <<pending, batches>>,
         \A r \in Req : IsPending(r) => /\ req'[r].status = "IDLE"
                                        /\ req'[r].blocks = req[r].blocks
  PROVE  PlansParked' /\ PlansInFlight'
<1>1. PlansParked'
  <2> SUFFICES ASSUME NEW r \in Req, pending[r] # NoPlan
               PROVE  req'[r].status = "IDLE" /\ CommitOK(req'[r], pending[r])
    BY DEF PlansParked, IsPending, Idle
  <2>1. CommitOK(req[r], pending[r]) /\ req'[r].blocks = req[r].blocks /\ req'[r].status = "IDLE"
    BY DEF CoreInv, PlansParked, IsPending
  <2> QED BY <2>1, SameBlocks
<1>2. PlansInFlight'
  BY DEF CoreInv, PlansInFlight, IsPending
<1> QED BY <1>1, <1>2

\* A queue without some of its requests.
LEMMA WithoutSubset ==
  ASSUME NEW s \in Seq(Req), NEW S
  PROVE  /\ Without(s, S) \in Seq(Req)
         /\ Range(Without(s, S)) = Range(s) \ S
         /\ IsInjective(s) => IsInjective(Without(s, S))
<1>1. Range(s) \subseteq Req
  BY RangeOfSeq
<1> QED BY <1>1, OnlyProperties DEF Without

\* finish_requests keeps it.
LEMMA FinishKeeps ==
  ASSUME CoreInv, NEW S \in SUBSET Req, \A r \in S : ~IsPending(r), Finish(S),
         sent' \in [Req -> 0 .. MaxTurns + 1], phase' \in {"input", "result"},
         \A r \in Req : sent'[r] = 0 => sent[r] = 0
  PROVE  CoreInv'
<1> USE DEF CoreInv
<1>1. \A r \in Req : req'[r] = IF r \in S THEN Absent ELSE req[r]
  BY DEF Finish
<1>2. req' \in [Req -> Record]
  BY AbsentRecord DEF Typed, Finish
<1>3. Typed'
  <2>1. running' \in Seq(Req) /\ waiting' \in Seq(Req) /\ skipped' \in Seq(Req)
    BY WithoutSubset DEF Typed, Finish
  <2>2. freeBlocks' \subseteq Block
    BY HeldAreBlocks DEF Typed, Finish
  <2>3. numIdle' \in Int
    <3>1. {r \in S : Idle(r)} \in SUBSET LiveOnes
      BY DEF LiveOnes, Live, Idle
    <3>2. Cardinality({r \in S : Idle(r)}) \in Nat
      BY <3>1, LiveFinite
    <3> QED BY <3>2 DEF Typed, Finish
  <2> QED BY <1>2, <2>1, <2>2, <2>3 DEF Typed, Finish
<1>4. ClientsKnown'
  <2>1. LiveOnes' \in SUBSET LiveOnes
    BY <1>1, AbsentRecord DEF LiveOnes, Live
  <2>2. IsFiniteSet(LiveOnes')
    BY <2>1, LiveFinite
  <2> QED BY <1>1, <2>2, AbsentRecord DEF ClientsKnown, Live
<1>5. RunningOnly'
  <2>1. /\ IsInjective(running')
        /\ Range(running') = Range(running) \ {r \in S : req[r].status = "RUNNING"}
    BY WithoutSubset DEF Finish, RunningOnly, Typed
  <2>2. Range(running) \subseteq Req
    BY RangeOfSeq DEF Typed
  <2> QED BY <1>1, <2>1, <2>2 DEF RunningOnly
<1>6. PlansParked' /\ PlansInFlight'
  <2>1. UNCHANGED <<pending, batches>>
    BY DEF Finish
  <2>2. \A r \in Req : IsPending(r) => req'[r] = req[r] /\ req[r].status = "IDLE"
    BY <1>1 DEF PlansParked, Idle
  <2> QED BY <2>1, <2>2, PlansKept
<1>7. HotConservation'
  <2>1. HotOK(req, freeBlocks)
    BY HotConservationIsPartition
  <2>2. \A r \in Req : NoDuplicate(req'[r]) /\ HeldBlocks(req'[r]) \subseteq HeldBlocks(req[r])
    BY <1>1, <2>1, AbsentRecord, HeldAreBlocks DEF HotOK
  <2>3. \A r \in Req : HeldBlocks(req[r]) \ HeldBlocks(req'[r]) = IF r \in S THEN HeldBlocks(req[r]) ELSE {}
    BY <1>1, AbsentRecord, HeldAreBlocks
  <2>4. freeBlocks' = freeBlocks \cup UNION {HeldBlocks(req[r]) \ HeldBlocks(req'[r]) : r \in Req}
    BY <2>3 DEF Finish
  <2>5. HotOK(req', freeBlocks')
    BY <1>2, <2>1, <2>2, <2>4, HotRelease DEF Typed
  <2> QED BY <2>5, HotConservationIsPartition
<1> QED BY <1>3, <1>4, <1>5, <1>6, <1>7
-----------------------------------------------------------------------------
\* A step that moves no block keeps the blocks.
LEMMA HotKept ==
  ASSUME CoreInv, req' \in [Req -> Record], UNCHANGED freeBlocks,
         \A r \in Req : req'[r].blocks = req[r].blocks
  PROVE  HotConservation'
<1>1. HotOK(req, freeBlocks)
  BY HotConservationIsPartition DEF CoreInv
<1>2. HotOK(req', freeBlocks)
  BY <1>1, HotSame DEF CoreInv, Typed
<1> QED BY <1>2, HotConservationIsPartition

(* A call that changes one request, and neither its blocks nor the plans.  *)
LEMMA OneRequestKeeps ==
  ASSUME CoreInv, NEW r \in Req, NEW q \in Record,
         req' = [req EXCEPT ![r] = q], q.blocks = req[r].blocks,
         q.status # "ABSENT", q.status # "RUNNING" => req[r].status # "RUNNING",
         IsPending(r) => q.status = "IDLE",
         sent' \in [Req -> 0 .. MaxTurns + 1], sent'[r] # 0,
         \A s \in Req : sent'[s] = 0 => sent[s] = 0,
         waiting' \in Seq(Req), numIdle' \in Int,
         UNCHANGED <<running, skipped, freeBlocks, pending, deferred, finishedIds,
                     batches, raised>>,
         phase' \in {"input", "result"}
  PROVE  CoreInv'
<1> USE DEF CoreInv
<1>1. \A s \in Req : req'[s] = IF s = r THEN q ELSE req[s]
  BY DEF Typed
<1>2. req' \in [Req -> Record]
  BY DEF Typed
<1>3. Typed'
  BY <1>2 DEF Typed
<1>4. ClientsKnown'
  <2>1. LiveOnes' \subseteq LiveOnes \cup {r}
    BY <1>1 DEF LiveOnes, Live
  <2>2. IsFiniteSet(LiveOnes')
    BY <2>1, LiveGrowsByOne
  <2> QED BY <1>1, <2>2 DEF ClientsKnown, Live
<1>5. RunningOnly'
  <2>1. Range(running) \subseteq Req
    BY RangeOfSeq DEF Typed
  <2> QED BY <1>1, <2>1 DEF RunningOnly
<1>6. PlansParked' /\ PlansInFlight'
  <2>1. \A s \in Req : IsPending(s) => req'[s].status = "IDLE" /\ req'[s].blocks = req[s].blocks
    BY <1>1 DEF PlansParked, Idle
  <2> QED BY <2>1, PlansKept
<1>7. HotConservation'
  BY <1>1, <1>2, HotKept
<1> QED BY <1>3, <1>4, <1>5, <1>6, <1>7

\* add_request of a new request keeps it.
LEMMA AddRequestKeeps ==
  ASSUME CoreInv, NEW r \in Req, AddRequest(r), UNCHANGED phase
  PROVE  CoreInv'
<1> USE DEF CoreInv
<1>1. req[r] = Absent /\ ~IsPending(r)
  <2>1. req[r] = Absent /\ ~Live(r)
    BY DEF AddRequest, ClientsKnown
  <2> QED BY <2>1 DEF Live, PlansParked, Idle
<1>2. sent' \in [Req -> 0 .. MaxTurns + 1] /\ sent'[r] # 0 /\ \A s \in Req : sent'[s] = 0 => sent[s] = 0
  BY LimitAssumption DEF AddRequest, Typed
<1>3. waiting' \in Seq(Req)
  BY AppendProperties DEF AddRequest, Typed
<1>4. req' = [req EXCEPT ![r] = Arrived]
  BY DEF AddRequest
<1>5. Arrived \in Record /\ Arrived.blocks = req[r].blocks /\ Arrived.status = "WAITING"
      /\ req[r].status = "ABSENT"
  BY <1>1, AbsentRecord
<1> QED BY <1>1, <1>2, <1>3, <1>4, <1>5, OneRequestKeeps DEF AddRequest, Typed

\* A client that has sent does not become one that has not.
LEMMA SentGrows ==
  ASSUME CoreInv, NEW r \in Req, NEW n \in 1 .. MaxTurns + 1,
         sent' = [sent EXCEPT ![r] = n]
  PROVE  /\ sent' \in [Req -> 0 .. MaxTurns + 1] /\ sent'[r] # 0
         /\ \A s \in Req : sent'[s] = 0 => sent[s] = 0
BY LimitAssumption DEF CoreInv, Typed

\* An update that waits in its session keeps it.
LEMMA QueueKeeps ==
  ASSUME CoreInv, NEW r \in Req, NEW update \in {"turn", "close"}, Live(r), Queue(r, update),
         NEW n \in 1 .. MaxTurns + 1, sent' = [sent EXCEPT ![r] = n], UNCHANGED phase
  PROVE  CoreInv'
<1> USE DEF CoreInv
<1> DEFINE q == [req[r] EXCEPT !.updates = Append(@, update)]
<1>1. req[r] \in Record
  BY DEF Typed
<1>2. Append(req[r].updates, update) \in Seq({"turn", "close"})
  BY <1>1, RecordFields, AppendProperties
<1>3. q \in Record /\ q.blocks = req[r].blocks /\ q.status = req[r].status
  BY <1>1, <1>2 DEF Record
<1>4. req' = [req EXCEPT ![r] = q]
  BY DEF Queue, Typed
<1>5. req[r].status # "ABSENT" /\ (IsPending(r) => req[r].status = "IDLE")
  BY DEF Live, PlansParked, Idle
<1> HIDE DEF q
<1>6. /\ sent' \in [Req -> 0 .. MaxTurns + 1] /\ sent'[r] # 0
      /\ \A s \in Req : sent'[s] = 0 => sent[s] = 0
  BY SentGrows
<1>7. /\ UNCHANGED <<running, skipped, freeBlocks, pending, deferred, finishedIds,
                     batches, raised>>
      /\ waiting' \in Seq(Req) /\ numIdle' \in Int /\ phase' \in {"input", "result"}
  BY DEF Queue, queues, Typed
<1> HIDE DEF CoreInv
<1> QED BY <1>3, <1>4, <1>5, <1>6, <1>7, OneRequestKeeps

\* So does a turn,
LEMMA SendTurnKeeps ==
  ASSUME CoreInv, NEW r \in Req, SendTurn(r), UNCHANGED phase
  PROVE  CoreInv'
<1> USE DEF CoreInv
<1>1. Live(r) /\ sent[r] \in 0 .. MaxTurns - 1 /\ MaxTurns \in Nat /\ sent' = [sent EXCEPT ![r] = sent[r] + 1]
  BY LimitAssumption DEF SendTurn, MaySend, Typed
<1>2. sent[r] + 1 \in 1 .. MaxTurns + 1
  BY <1>1
<1>3. CASE ~Idle(r) \/ IsPending(r)
  BY <1>1, <1>2, <1>3, QueueKeeps DEF SendTurn
<1>4. CASE Idle(r) /\ ~IsPending(r)
  <2>1. req[r] \in Record /\ req[r].status = "IDLE"
    BY <1>4 DEF Typed, Idle
  <2>2. req' = [req EXCEPT ![r] = Resume(req[r])] /\ numIdle' = numIdle - 1
        /\ UNCHANGED <<queues, freeBlocks, pending, deferred, finishedIds, batches, raised>>
    BY <1>4 DEF SendTurn
  <2>3. Resume(req[r]) \in Record /\ Resume(req[r]).blocks = req[r].blocks
        /\ Resume(req[r]).status = "WAITING"
    BY <2>1, ResumeRecord
  <2>4. /\ sent' \in [Req -> 0 .. MaxTurns + 1] /\ sent'[r] # 0
        /\ \A s \in Req : sent'[s] = 0 => sent[s] = 0
    BY <1>1, <1>2, SentGrows
  <2>5. /\ UNCHANGED <<running, skipped, freeBlocks, pending, deferred, finishedIds,
                       batches, raised>>
        /\ waiting' \in Seq(Req) /\ numIdle' \in Int /\ phase' \in {"input", "result"}
    BY <2>2 DEF queues, Typed
  <2> HIDE DEF CoreInv
  <2> QED BY <1>4, <2>1, <2>2, <2>3, <2>4, <2>5, OneRequestKeeps
<1> QED BY <1>3, <1>4

\* the end of a session,
LEMMA CloseSessionKeeps ==
  ASSUME CoreInv, NEW r \in Req, CloseSession(r), UNCHANGED phase
  PROVE  CoreInv'
<1> USE DEF CoreInv
<1>1. Live(r) /\ MaxTurns + 1 \in 1 .. MaxTurns + 1 /\ sent' = [sent EXCEPT ![r] = MaxTurns + 1]
  BY LimitAssumption DEF CloseSession, MaySend
<1>2. CASE ~Idle(r) \/ IsPending(r)
  BY <1>1, <1>2, QueueKeeps DEF CloseSession
<1>3. CASE Idle(r) /\ ~IsPending(r)
  <2>1. Finish({r}) /\ {r} \in SUBSET Req /\ \A s \in {r} : ~IsPending(s)
    BY <1>3 DEF CloseSession
  <2> QED BY <1>1, <2>1, SentGrows, FinishKeeps DEF Typed
<1> QED BY <1>2, <1>3

\* an abort,
LEMMA AbortKeeps ==
  ASSUME CoreInv, NEW r \in Req, Abort(r), UNCHANGED phase
  PROVE  CoreInv'
<1> USE DEF CoreInv
<1>1. Live(r) /\ MaxTurns + 1 \in 1 .. MaxTurns + 1 /\ sent' = [sent EXCEPT ![r] = MaxTurns + 1]
  BY LimitAssumption DEF Abort
<1>2. CASE IsPending(r)
  <2>1. /\ deferred' = deferred \cup {r}
        /\ UNCHANGED <<req, running, waiting, skipped, freeBlocks, pending, numIdle,
                       finishedIds, batches, raised>>
    BY <1>2 DEF Abort, queues
  <2>2. Typed'
    BY <1>1, <2>1, SentGrows DEF Typed
  <2>3. ClientsKnown'
    BY <1>1, <2>1, SentGrows DEF ClientsKnown, LiveOnes, Live
  <2>4. RunningOnly' /\ PlansParked' /\ PlansInFlight'
    BY <2>1 DEF RunningOnly, PlansParked, PlansInFlight, IsPending, Idle
  <2>5. HotConservation'
    BY <2>1 DEF HotConservation
  <2> QED BY <2>2, <2>3, <2>4, <2>5
<1>3. CASE ~IsPending(r)
  <2>1. Finish({r}) /\ {r} \in SUBSET Req /\ \A s \in {r} : ~IsPending(s)
    BY <1>3 DEF Abort
  <2> QED BY <1>1, <2>1, SentGrows, FinishKeeps DEF Typed
<1> QED BY <1>2, <1>3

\* and a reset of the prefix cache.
LEMMA ResetKeeps ==
  ASSUME CoreInv, ResetPrefixCache, UNCHANGED phase
  PROVE  CoreInv'
<1> USE DEF CoreInv
<1> DEFINE R == Range(running)
<1>1. R \subseteq Req /\ \A r \in R : req[r].status = "RUNNING" /\ ~IsPending(r)
  BY RangeOfSeq DEF Typed, RunningOnly, ResetPrefixCache
<1>2. \A r \in Req : req'[r] = IF r \in R THEN ForcePreempted(req[r]) ELSE req[r]
  BY DEF ResetPrefixCache
<1>3. req' \in [Req -> Record]
  BY PreemptedRecord DEF Typed, ResetPrefixCache
<1>4. Typed'
  <2>1. waiting' \in Seq(Req) /\ running' \in Seq(Req)
    BY ConcatProperties, EmptySeq DEF Typed, ResetPrefixCache
  <2>2. freeBlocks' \subseteq Block
    BY <1>1, HeldAreBlocks DEF Typed, ResetPrefixCache
  <2> QED BY <1>3, <2>1, <2>2 DEF Typed, ResetPrefixCache
<1>5. ClientsKnown'
  <2>1. \A r \in Req : req'[r].status = "ABSENT" <=> req[r].status = "ABSENT"
    BY <1>1, <1>2, PreemptedRecord DEF Typed
  <2>2. LiveOnes' = LiveOnes
    BY <2>1 DEF LiveOnes, Live
  <2> QED BY <1>1, <1>2, <2>1, <2>2 DEF ClientsKnown, Live, ResetPrefixCache
<1>6. RunningOnly'
  BY DEF RunningOnly, ResetPrefixCache, IsInjective, Range
<1>7. PlansParked' /\ PlansInFlight'
  <2>1. UNCHANGED <<pending, batches>>
    BY DEF ResetPrefixCache
  <2>2. \A r \in Req : IsPending(r) => req'[r] = req[r] /\ req[r].status = "IDLE"
    BY <1>1, <1>2 DEF PlansParked, Idle
  <2> QED BY <2>1, <2>2, PlansKept
<1>8. HotConservation'
  <2>1. HotOK(req, freeBlocks)
    BY HotConservationIsPartition
  <2>2. \A r \in R : HeldBlocks(req'[r]) = {} /\ NoDuplicate(req'[r])
    BY <1>1, <1>2, <1>3, PreemptedRecord, HeldAreBlocks DEF Typed
  <2>3. \A r \in Req : NoDuplicate(req'[r]) /\ HeldBlocks(req'[r]) \subseteq HeldBlocks(req[r])
    BY <1>2, <2>1, <2>2 DEF HotOK
  <2>4. \A r \in Req : HeldBlocks(req[r]) \ HeldBlocks(req'[r]) = IF r \in R THEN HeldBlocks(req[r]) ELSE {}
    BY <1>2, <2>2
  <2>5. freeBlocks' = freeBlocks \cup UNION {HeldBlocks(req[r]) \ HeldBlocks(req'[r]) : r \in Req}
    BY <1>1, <2>4, ZenonT(30) DEF ResetPrefixCache
  <2>6. HotOK(req', freeBlocks')
    BY <1>3, <2>1, <2>3, <2>5, HotRelease DEF Typed
  <2> QED BY <2>6, HotConservationIsPartition
<1> QED BY <1>4, <1>5, <1>6, <1>7, <1>8
-----------------------------------------------------------------------------
\* What a step schedules, the blocks it needs and the ones it gets.
Chosen(p, k) == Wanting(p) \o First(k)
Needed(p, k) == UNION {{<<r, j>> : j \in 1 .. Need(r)} : r \in Range(Chosen(p, k))}
Ids(ids, r) == [j \in 1 .. Need(r) |-> ids[<<r, j>>]]

(* What a step that does not raise may choose.                              *)
MaySchedule(order, p, k, ids) ==
  /\ p \in 0 .. Len(running) /\ k \in 0 .. Len(Candidates)
  /\ IsNumAdmitted(p, k) /\ ~ScheduleRaises(p, k)
  /\ order \in Orders(Demotable)
  /\ ids \in Injection(Needed(p, k), BlocksIf(p))

\* An order of some sessions names each of them once.
LEMMA OrdersProperties ==
  ASSUME NEW S \in SUBSET Req, NEW order \in Orders(S)
  PROVE  order \in Seq(Req) /\ IsInjective(order) /\ Range(order) \subseteq S
<1>1. PICK n \in 0 .. Cardinality(S) : order \in Injection(1 .. n, S)
  BY DEF Orders
<1>2. order \in [1 .. n -> S] /\ IsInjective(order)
  BY <1>1 DEF Injection
<1>3. n \in Nat
  OBVIOUS
<1> QED BY <1>2, <1>3 DEF Range

\* The running queue is what is kept and what is preempted, and none has a
\* plan.
LEMMA SplitRunning ==
  ASSUME CoreInv, NEW p \in 0 .. Len(running)
  PROVE  /\ Kept(p) \in Seq(Req) /\ Victims(p) \in Seq(Req)
         /\ Range(Kept(p)) \cup Range(Victims(p)) = Range(running)
         /\ Range(Kept(p)) \cap Range(Victims(p)) = {}
         /\ IsInjective(Kept(p))
         /\ p = 0 => Kept(p) = running /\ Victims(p) = <<>>
         /\ \A r \in Range(Kept(p)) \cup Range(Victims(p)) :
              r \in Req /\ req[r].status = "RUNNING" /\ ~IsPending(r)
<1> USE DEF CoreInv
<1>1. running \in Seq(Req) /\ IsInjective(running)
  BY DEF Typed, RunningOnly
<1>2. /\ Kept(p) \in Seq(Req) /\ Victims(p) \in Seq(Req)
      /\ Range(Kept(p)) \cup Range(Victims(p)) = Range(running)
      /\ Range(Kept(p)) \cap Range(Victims(p)) = {}
      /\ IsInjective(Kept(p))
      /\ p = 0 => Kept(p) = running /\ Victims(p) = <<>>
  BY <1>1, SplitProperties DEF Kept, Victims
<1>3. \A r \in Range(running) : r \in Req /\ req[r].status = "RUNNING" /\ ~IsPending(r)
  BY <1>1, RangeOfSeq DEF RunningOnly, PlansParked, Idle
<1> QED BY <1>2, <1>3

\* The admitted requests come from the queues.
LEMMA FirstCandidates ==
  ASSUME CoreInv, NEW k \in 0 .. Len(Candidates)
  PROVE  First(k) \in Seq(Req) /\ (k = 0 => First(k) = <<>>)
<1>1. skipped \o waiting \in Seq(Req)
  BY ConcatProperties DEF CoreInv, Typed
<1>2. Candidates \in Seq(Req)
  BY <1>1, OnlyProperties DEF Candidates
<1>3. Len(Candidates) \in Nat /\ \A i \in 1 .. k : Candidates[i] \in Req
  BY <1>2, LenProperties, ElementOfSeq
<1>4. SubSeq(Candidates, 1, k) \in Seq(Req)
  BY <1>3, SubSeqProperties
<1>5. k = 0 => SubSeq(Candidates, 1, k) = <<>>
  BY SubSeqEmpty
<1> QED BY <1>4, <1>5 DEF First

\* A step schedules each request once, none that is preempted and none with
\* a plan.
LEMMA ChosenProperties ==
  ASSUME CoreInv, NEW order, NEW p, NEW k, NEW ids, MaySchedule(order, p, k, ids)
  PROVE  /\ Wanting(p) \in Seq(Req) /\ Range(Wanting(p)) \subseteq Range(Kept(p))
         /\ First(k) \in Seq(Req) /\ IsInjective(First(k))
         /\ \A r \in Range(First(k)) :
              /\ r \in Req /\ req[r].status \in {"WAITING", "PREEMPTED"}
              /\ r \notin Range(running) /\ NewTokens(req[r]) > 0
         /\ Chosen(p, k) \in Seq(Req)
         /\ Range(Chosen(p, k)) = Range(Wanting(p)) \cup Range(First(k))
         /\ IsInjective(Chosen(p, k))
         /\ Range(Chosen(p, k)) \cap Range(Victims(p)) = {}
         /\ \A r \in Range(Chosen(p, k)) :
              /\ r \in Req /\ req[r].status \in {"RUNNING", "WAITING", "PREEMPTED"}
              /\ ~IsPending(r) /\ NewTokens(req[r]) > 0
         /\ p > 0 => k = 0 /\ First(k) = <<>>
<1> USE DEF CoreInv
<1>1. p \in 0 .. Len(running) /\ k \in 0 .. Len(Candidates)
  BY DEF MaySchedule
<1>2. Kept(p) \in Seq(Req) /\ IsInjective(Kept(p)) /\ Victims(p) \in Seq(Req)
  BY <1>1, SplitRunning
<1>3. /\ Wanting(p) \in Seq(Req) /\ IsInjective(Wanting(p))
      /\ Range(Wanting(p)) = Range(Kept(p)) \cap {r \in Req : Schedulable(req[r], MaxTokens[r])}
  BY <1>2, OnlyProperties DEF Wanting
<1>4. First(k) \in Seq(Req) /\ (k = 0 => First(k) = <<>>)
  BY <1>1, FirstCandidates
<1>5. IsInjective(First(k))
  BY DEF MaySchedule, ScheduleRaises
<1>6. \A r \in Range(First(k)) : r \in Req /\ NewTokens(req[r]) \in Int
  BY <1>4, RangeOfSeq, BlocksNeededType DEF Typed
<1>7. \A r \in Range(First(k)) :
              /\ r \in Req /\ req[r].status \in {"WAITING", "PREEMPTED"}
              /\ r \notin Range(running) /\ NewTokens(req[r]) > 0
  BY <1>6 DEF MaySchedule, ScheduleRaises, RunningOnly
<1>8. p > 0 => k = 0 /\ First(k) = <<>>
  BY <1>4 DEF MaySchedule, IsNumAdmitted
<1>9. /\ Range(Kept(p)) \subseteq Range(running)
      /\ Range(Kept(p)) \cap Range(Victims(p)) = {}
      /\ Range(Victims(p)) \subseteq Range(running)
      /\ \A r \in Range(Kept(p)) : r \in Req /\ req[r].status = "RUNNING" /\ ~IsPending(r)
  BY <1>1, SplitRunning
<1>10. /\ Chosen(p, k) \in Seq(Req)
       /\ Range(Chosen(p, k)) = Range(Wanting(p)) \cup Range(First(k))
  BY <1>3, <1>4, ConcatProperties, RangeConcatenation DEF Chosen
<1>11. Range(Wanting(p)) \cap Range(First(k)) = {}
  BY <1>3, <1>7, <1>9
<1>12. IsInjective(Chosen(p, k))
  BY <1>3, <1>4, <1>5, <1>11, ConcatInjective DEF Chosen
<1>13. \A r \in Range(Wanting(p)) :
         r \in Req /\ req[r].status = "RUNNING" /\ ~IsPending(r) /\ NewTokens(req[r]) > 0
  BY <1>3, <1>9 DEF Schedulable
<1>14. \A r \in Range(First(k)) : ~IsPending(r)
  BY <1>7 DEF PlansParked, Idle
<1>15. Range(Chosen(p, k)) \cap Range(Victims(p)) = {}
  BY <1>3, <1>7, <1>9, <1>10
<1> HIDE DEF CoreInv
<1>16. \A r \in Range(Chosen(p, k)) :
              /\ r \in Req /\ req[r].status \in {"RUNNING", "WAITING", "PREEMPTED"}
              /\ ~IsPending(r) /\ NewTokens(req[r]) > 0
  BY <1>7, <1>10, <1>13, <1>14
<1>17. Range(Wanting(p)) \subseteq Range(Kept(p))
  BY <1>3
<1> QED BY <1>3, <1>4, <1>5, <1>7, <1>8, <1>10, <1>12, <1>15, <1>16, <1>17

(* The blocks a step gives to its requests are free, and each goes to one  *)
(* place of one request.                                                    *)
LEMMA IdsProperties ==
  ASSUME CoreInv, NEW order, NEW p, NEW k, NEW ids, MaySchedule(order, p, k, ids)
  PROVE  /\ BlocksIf(p) \subseteq Block
         /\ \A r \in Range(Chosen(p, k)) :
              /\ Ids(ids, r) \in Seq(Block) /\ IsInjective(Ids(ids, r))
              /\ Range(Ids(ids, r)) \subseteq BlocksIf(p)
         /\ \A r, s \in Range(Chosen(p, k)) :
              r # s => Range(Ids(ids, r)) \cap Range(Ids(ids, s)) = {}
         /\ Range(ids) = UNION {Range(Ids(ids, r)) : r \in Range(Chosen(p, k))}
<1> USE DEF CoreInv
<1> DEFINE C == Range(Chosen(p, k))
<1>1. p \in 0 .. Len(running)
  BY DEF MaySchedule
<1>2. BlocksIf(p) \subseteq Block
  <2>1. \A r \in Range(Victims(p)) : HeldBlocks(req[r]) \subseteq Block
    BY <1>1, SplitRunning, HeldAreBlocks DEF Typed
  <2> QED BY <2>1 DEF BlocksIf, Typed
<1>3. ids \in [Needed(p, k) -> BlocksIf(p)] /\ IsInjective(ids) /\ DOMAIN ids = Needed(p, k)
  BY DEF MaySchedule, Injection
<1>4. \A r \in C : r \in Req /\ Need(r) \in Nat
  BY ChosenProperties, BlocksNeededType DEF Need, Typed
<1>5. \A r \in C : \A j \in 1 .. Need(r) : <<r, j>> \in Needed(p, k)
  BY DEF Needed
<1>6. \A x \in Needed(p, k) : \E r \in C : \E j \in 1 .. Need(r) : x = <<r, j>>
  BY DEF Needed
<1> HIDE DEF CoreInv, C
<1>7. \A r \in C : \A j \in 1 .. Need(r) : Ids(ids, r)[j] = ids[<<r, j>>] /\ ids[<<r, j>>] \in BlocksIf(p)
  BY <1>3, <1>5 DEF Ids
<1>8. \A r \in C : DOMAIN Ids(ids, r) = 1 .. Need(r)
  BY DEF Ids
<1>9. \A r, s \in C : \A j \in 1 .. Need(r), l \in 1 .. Need(s) :
        Ids(ids, r)[j] = Ids(ids, s)[l] => r = s /\ j = l
  <2> SUFFICES ASSUME NEW r \in C, NEW s \in C, NEW j \in 1 .. Need(r), NEW l \in 1 .. Need(s),
                      Ids(ids, r)[j] = Ids(ids, s)[l]
               PROVE  r = s /\ j = l
    OBVIOUS
  <2>1. ids[<<r, j>>] = ids[<<s, l>>]
    BY <1>7
  <2>2. <<r, j>> = <<s, l>>
    BY <1>3, <1>5, <2>1 DEF IsInjective
  <2> QED BY <2>2
<1>10. \A r \in C : /\ Ids(ids, r) \in Seq(Block) /\ IsInjective(Ids(ids, r))
                    /\ Range(Ids(ids, r)) \subseteq BlocksIf(p)
  <2> SUFFICES ASSUME NEW r \in C
               PROVE /\ Ids(ids, r) \in Seq(Block) /\ IsInjective(Ids(ids, r))
                     /\ Range(Ids(ids, r)) \subseteq BlocksIf(p)
    OBVIOUS
  <2>1. Ids(ids, r) \in [1 .. Need(r) -> Block]
    BY <1>2, <1>7 DEF Ids
  <2>2. Ids(ids, r) \in Seq(Block)
    BY <1>4, <2>1
  <2>3. IsInjective(Ids(ids, r))
    BY <1>8, <1>9, ZenonT(30) DEF IsInjective
  <2>4. Range(Ids(ids, r)) \subseteq BlocksIf(p)
    BY <1>7, <1>8 DEF Range
  <2> QED BY <2>2, <2>3, <2>4
<1>11. \A r, s \in C : r # s => Range(Ids(ids, r)) \cap Range(Ids(ids, s)) = {}
  <2> SUFFICES ASSUME NEW r \in C, NEW s \in C, NEW x,
                      x \in Range(Ids(ids, r)), x \in Range(Ids(ids, s))
               PROVE  r = s
    OBVIOUS
  <2>1. PICK j \in 1 .. Need(r) : x = Ids(ids, r)[j]
    BY <1>8 DEF Range
  <2>2. PICK l \in 1 .. Need(s) : x = Ids(ids, s)[l]
    BY <1>8 DEF Range
  <2> QED BY <1>9, <2>1, <2>2
<1>12. Range(ids) = UNION {Range(Ids(ids, r)) : r \in C}
  <2>1. ASSUME NEW x \in Range(ids) PROVE \E r \in C : x \in Range(Ids(ids, r))
    <3>1. PICK y \in Needed(p, k) : x = ids[y]
      BY <1>3 DEF Range
    <3>2. PICK r \in C : \E j \in 1 .. Need(r) : y = <<r, j>>
      BY <1>6
    <3>3. PICK j \in 1 .. Need(r) : y = <<r, j>>
      BY <3>2
    <3> QED BY <1>7, <1>8, <3>1, <3>3 DEF Range
  <2>2. ASSUME NEW r \in C, NEW x \in Range(Ids(ids, r)) PROVE x \in Range(ids)
    <3>1. PICK j \in 1 .. Need(r) : x = ids[<<r, j>>]
      BY <1>7, <1>8 DEF Range
    <3> QED BY <1>3, <1>5, <3>1 DEF Range
  <2> QED BY <2>1, <2>2
<1> QED BY <1>2, <1>10, <1>11, <1>12 DEF C
-----------------------------------------------------------------------------
(* The step that SchedulePlan leaves for the worker.                        *)
NewEntry(ids, r) ==
  LET fresh == req[r].status # "RUNNING" IN
  [req |-> r, start |-> req[r].computed, num |-> NewTokens(req[r]), fresh |-> fresh,
   ids |-> IF fresh THEN req[r].blocks \o Ids(ids, r) ELSE Ids(ids, r)]
\* The transitions of a step, and the step.
NewTrans(order) ==
  [n \in DOMAIN order |-> [req |-> order[n], plan |-> DemotionPlan(req[order[n]])]]
NewBatch(order, p, k, ids) ==
  [trans |-> NewTrans(order),
   sched |-> [n \in DOMAIN Chosen(p, k) |-> NewEntry(ids, Chosen(p, k)[n])],
   preempted |-> Range(Victims(p)), finished |-> finishedIds,
   results |-> <<>>, done |-> FALSE]

\* SchedulePlan in these terms.
LEMMA SchedulePlanUnfolded ==
  ASSUME NEW order, NEW p, NEW k, NEW ids, SchedulePlan(order, p, k, ids)
  PROVE  /\ req' = [r \in Req |->
              IF r \in Range(Victims(p)) THEN Preempted(req[r])
              ELSE IF r \in Range(Chosen(p, k)) THEN Scheduled(req[r], Ids(ids, r))
              ELSE req[r]]
         /\ running' = Kept(p) \o First(k)
         /\ waiting' = Victims(p) \o Without(waiting, Range(First(k)))
         /\ skipped' = Without(skipped, Range(First(k)))
         /\ freeBlocks' = BlocksIf(p) \ Range(ids)
         /\ pending' = [r \in Req |-> IF r \in Range(order)
                                      THEN DemotionPlan(req[r]) ELSE pending[r]]
         /\ finishedIds' = {}
         /\ batches' = Append(batches, NewBatch(order, p, k, ids))
BY DEF SchedulePlan, Chosen, Ids, NewBatch, NewTrans, NewEntry

\* It is a step.
LEMMA NewBatchTyped ==
  ASSUME CoreInv, NEW order, NEW p, NEW k, NEW ids, MaySchedule(order, p, k, ids)
  PROVE  NewBatch(order, p, k, ids) \in BatchRecord
<1> DEFINE C == Chosen(p, k)
<1>1. C \in Seq(Req) /\ DOMAIN C = 1 .. Len(C) /\ Len(C) \in Nat
      /\ \A n \in DOMAIN C : C[n] \in Range(C)
  BY ChosenProperties, LenProperties DEF Range
<1>2. \A r \in Range(C) : r \in Req /\ NewTokens(req[r]) > 0 /\ Ids(ids, r) \in Seq(Block)
  BY ChosenProperties, IdsProperties
<1>3. \A r \in Range(C) : NewEntry(ids, r) \in SchedEntry
  <2> SUFFICES ASSUME NEW r \in Range(C) PROVE NewEntry(ids, r) \in SchedEntry
    OBVIOUS
  <2>1. req[r] \in Record /\ r \in Req
    BY <1>2 DEF CoreInv, Typed
  <2>2. NewTokens(req[r]) \in Nat
    BY <1>2, <2>1, BlocksNeededType
  <2>3. /\ Ids(ids, r) \in Seq(Block \cup {NullBlock})
        /\ req[r].blocks \o Ids(ids, r) \in Seq(Block \cup {NullBlock})
    BY <1>2, <2>1, SeqMonotonic, ScheduledRecord
  <2>4. (req[r].status # "RUNNING") \in BOOLEAN
    OBVIOUS
  <2> QED BY <2>1, <2>2, <2>3, <2>4, RecordFields DEF NewEntry, SchedEntry
<1> HIDE DEF C
<1>4. [n \in DOMAIN C |-> NewEntry(ids, C[n])] \in Seq(SchedEntry)
  BY <1>1, <1>3
<1>5. NewTrans(order) \in Seq(Transition)
  <2>1. Demotable \in SUBSET Req
    BY DEF Demotable
  <2>2. order \in Seq(Req)
    BY <2>1, OrdersProperties DEF MaySchedule
  <2>3. DOMAIN order = 1 .. Len(order) /\ Len(order) \in Nat /\ \A n \in DOMAIN order : order[n] \in Req
    BY <2>2, LenProperties, ElementOfSeq
  <2>4. \A r \in Req : DemotionPlan(req[r]) \in Plan
    BY PlanIsFinite DEF CoreInv, Typed
  <2>5. \A n \in DOMAIN order : [req |-> order[n], plan |-> DemotionPlan(req[order[n]])] \in Transition
    BY <2>3, <2>4 DEF Transition
  <2> QED BY <2>3, <2>5 DEF NewTrans
<1>6. Range(Victims(p)) \in SUBSET Req
  BY SplitRunning DEF MaySchedule
<1>7. finishedIds \in SUBSET Req
  BY DEF CoreInv, Typed
<1>8. <<>> \in Seq({"STALE", "CAPACITY", "SUCCESS"})
  OBVIOUS
<1> QED BY <1>4, <1>5, <1>6, <1>7, <1>8 DEF NewBatch, BatchRecord, C

(* Who a step schedules, preempts and leaves alone.                         *)
LEMMA ScheduledRequests ==
  ASSUME CoreInv, NEW order, NEW p, NEW k, NEW ids, MaySchedule(order, p, k, ids),
         SchedulePlan(order, p, k, ids)
  PROVE  /\ req' \in [Req -> Record]
         /\ \A r \in Range(Victims(p)) :
              r \in Req /\ req'[r] = Preempted(req[r]) /\ req[r].status = "RUNNING"
         /\ \A r \in Range(Chosen(p, k)) : r \in Req /\ req'[r] = Scheduled(req[r], Ids(ids, r))
         /\ \A r \in Req \ (Range(Victims(p)) \cup Range(Chosen(p, k))) : req'[r] = req[r]
         /\ \A r \in Req : IsPending(r) \/ r \in Demotable => req'[r] = req[r]
<1>1. req' = [r \in Req |->
              IF r \in Range(Victims(p)) THEN Preempted(req[r])
              ELSE IF r \in Range(Chosen(p, k)) THEN Scheduled(req[r], Ids(ids, r))
              ELSE req[r]]
  BY SchedulePlanUnfolded
<1>2. \A r \in Range(Victims(p)) : r \in Req /\ req[r].status = "RUNNING" /\ ~IsPending(r)
  BY SplitRunning DEF MaySchedule
<1>3. /\ Range(Chosen(p, k)) \cap Range(Victims(p)) = {}
      /\ \A r \in Range(Chosen(p, k)) :
           r \in Req /\ req[r].status \in {"RUNNING", "WAITING", "PREEMPTED"} /\ ~IsPending(r)
  BY ChosenProperties
<1>4. \A r \in Req : req[r] \in Record
  BY DEF CoreInv, Typed
<1>5. \A r \in Range(Victims(p)) : Preempted(req[r]) \in Record
  BY <1>2, <1>4, PreemptedRecord
<1>6. \A r \in Range(Chosen(p, k)) : Scheduled(req[r], Ids(ids, r)) \in Record
  BY <1>3, <1>4, IdsProperties, ScheduledRecord
<1>7. \A r \in Demotable : req[r].status = "IDLE"
  BY DEF Demotable, Idle
<1> QED BY <1>1, <1>2, <1>3, <1>4, <1>5, <1>6, <1>7

\* Preemption and allocation conserve the HOT blocks.
LEMMA ScheduleConserves ==
  ASSUME CoreInv, NEW order, NEW p, NEW k, NEW ids, MaySchedule(order, p, k, ids),
         SchedulePlan(order, p, k, ids)
  PROVE  HotConservation'
<1> DEFINE C == Range(Chosen(p, k))
           V == Range(Victims(p))
           mid == [r \in Req |-> IF r \in V THEN Preempted(req[r]) ELSE req[r]]
           G == [r \in Req |-> IF r \in C THEN Range(Ids(ids, r)) ELSE {}]
           H == [r \in Req |-> HeldBlocks(mid[r])]
           H2 == [r \in Req |-> HeldBlocks(req'[r])]
<1>1. \A r \in Req : req[r] \in Record
  BY DEF CoreInv, Typed
<1>2. /\ V \subseteq Req /\ C \subseteq Req /\ V \cap C = {}
      /\ \A r \in C : req'[r] = Scheduled(req[r], Ids(ids, r))
      /\ \A r \in V : req'[r] = Preempted(req[r])
      /\ \A r \in Req \ (V \cup C) : req'[r] = req[r]
      /\ req' \in [Req -> Record]
  BY ScheduledRequests, ChosenProperties
<1>3. /\ \A r \in C : /\ Ids(ids, r) \in Seq(Block) /\ IsInjective(Ids(ids, r))
                      /\ Range(Ids(ids, r)) \subseteq BlocksIf(p)
      /\ \A r, s \in C : r # s => Range(Ids(ids, r)) \cap Range(Ids(ids, s)) = {}
      /\ Range(ids) = UNION {Range(Ids(ids, r)) : r \in C}
  BY IdsProperties
<1>4. freeBlocks' = BlocksIf(p) \ Range(ids)
  BY SchedulePlanUnfolded
<1> HIDE DEF C
<1>5. HotOK(mid, BlocksIf(p)) /\ mid \in [Req -> Record]
  <2>1. \A r \in V : Preempted(req[r]) \in Record /\ Preempted(req[r]).blocks = <<>>
    BY <1>1, <1>2, PreemptedRecord
  <2>2. mid \in [Req -> Record]
    BY <1>1, <2>1
  <2>3. HotOK(req, freeBlocks)
    BY HotConservationIsPartition DEF CoreInv
  <2>4. \A r \in V : HeldBlocks(mid[r]) = {} /\ NoDuplicate(mid[r])
    BY <1>2, <2>1, HeldAreBlocks
  <2>5. \A r \in Req : NoDuplicate(mid[r]) /\ HeldBlocks(mid[r]) \subseteq HeldBlocks(req[r])
    BY <2>3, <2>4 DEF HotOK
  <2>6. \A r \in Req : HeldBlocks(req[r]) \ HeldBlocks(mid[r]) = IF r \in V THEN HeldBlocks(req[r]) ELSE {}
    BY <2>4
  <2>7. BlocksIf(p) = freeBlocks \cup UNION {HeldBlocks(req[r]) \ HeldBlocks(mid[r]) : r \in Req}
    BY <1>2, <2>6 DEF BlocksIf
  <2>8. req \in [Req -> Record]
    BY DEF CoreInv, Typed
  <2> HIDE DEF mid
  <2> QED BY <2>2, <2>3, <2>5, <2>7, <2>8, HotRelease
<1>6. \A r \in C : mid[r] = req[r]
  BY <1>2
<1>7. \A r \in Req \ C : req'[r] = mid[r]
  BY <1>2
<1> HIDE DEF mid, V
<1>8. Partition(H, BlocksIf(p)) /\ \A r \in Req : NoDuplicate(mid[r])
  BY <1>5 DEF HotOK
<1>9. \A r \in Req : BlocksIf(p) \cap HeldBlocks(mid[r]) = {}
  BY <1>8 DEF Partition
<1>10. \A r \in C : /\ HeldBlocks(req'[r]) = HeldBlocks(mid[r]) \cup Range(Ids(ids, r))
                    /\ NoDuplicate(req'[r])
  <2> SUFFICES ASSUME NEW r \in C
               PROVE  /\ HeldBlocks(req'[r]) = HeldBlocks(mid[r]) \cup Range(Ids(ids, r))
                      /\ NoDuplicate(req'[r])
    OBVIOUS
  <2>1. Range(Ids(ids, r)) \cap HeldBlocks(req[r]) = {} /\ NoDuplicate(req[r])
    BY <1>2, <1>3, <1>6, <1>8, <1>9
  <2> QED BY <1>1, <1>2, <1>3, <1>6, <2>1, ScheduledBlocks
<1>11. \A r \in Req : NoDuplicate(req'[r])
  BY <1>7, <1>8, <1>10
<1>12. /\ H \in [Req -> SUBSET Block] /\ H2 \in [Req -> SUBSET Block]
  BY <1>2, <1>5, HeldAreBlocks
<1>13. G \in [Req -> SUBSET BlocksIf(p)]
  BY <1>3
<1>14. \A r \in Req : H2[r] = H[r] \cup G[r]
  BY <1>7, <1>10
<1>15. \A r, s \in Req : r # s => G[r] \cap G[s] = {}
  BY <1>3
<1>16. freeBlocks' = BlocksIf(p) \ UNION {G[r] : r \in Req}
  BY <1>2, <1>3, <1>4
<1>17. Partition(H2, freeBlocks')
  <2> HIDE DEF H, H2, G
  <2> QED BY <1>8, <1>12, <1>13, <1>14, <1>15, <1>16, GrantPartition
<1>18. HotOK(req', freeBlocks')
  BY <1>11, <1>17 DEF HotOK
<1> QED BY <1>18, HotConservationIsPartition
-----------------------------------------------------------------------------
\* One step more.
LEMMA AppendBatch ==
  ASSUME batches \in Seq(BatchRecord), NEW b \in BatchRecord, batches' = Append(batches, b)
  PROVE  /\ batches' \in Seq(BatchRecord) /\ Len(batches) \in Nat
         /\ DOMAIN batches = 1 .. Len(batches) /\ DOMAIN batches' = 1 .. Len(batches) + 1
         /\ \A i \in DOMAIN batches : batches'[i] = batches[i]
         /\ batches'[Len(batches) + 1] = b
BY AppendProperties, LenProperties

(* The demotions planned by a step are in that step and in no other. *)
LEMMA SchedulePlans ==
  ASSUME CoreInv, NEW order, NEW p, NEW k, NEW ids, MaySchedule(order, p, k, ids),
         SchedulePlan(order, p, k, ids)
  PROVE  /\ pending' \in [Req -> Plan] /\ PlansParked' /\ PlansInFlight'
         /\ \A r \in Range(order) : r \in Demotable /\ pending'[r] = DemotionPlan(req[r])
         /\ \A r \in Req \ Range(order) : pending'[r] = pending[r]
<1> DEFINE b == NewBatch(order, p, k, ids)
           N == Len(batches)
<1>1. /\ order \in Seq(Req) /\ IsInjective(order)
      /\ \A r \in Range(order) : /\ r \in Req /\ r \in Demotable /\ Idle(r) /\ ~IsPending(r)
                                 /\ DemotionPlan(req[r]) # NoPlan
  <2>1. Demotable \in SUBSET Req
    BY DEF Demotable
  <2> QED BY <2>1, OrdersProperties DEF MaySchedule, Demotable
<1>2. \A r \in Req : pending'[r] = IF r \in Range(order) THEN DemotionPlan(req[r]) ELSE pending[r]
  BY SchedulePlanUnfolded
<1>3. \A r \in Req : req[r] \in Record
  BY DEF CoreInv, Typed
<1>4. pending' \in [Req -> Plan]
  <2>1. \A r \in Req : DemotionPlan(req[r]) \in Plan /\ pending[r] \in Plan
    BY <1>3, PlanIsFinite DEF CoreInv, Typed
  <2>2. pending' = [r \in Req |-> IF r \in Range(order) THEN DemotionPlan(req[r]) ELSE pending[r]]
    BY SchedulePlanUnfolded
  <2> QED BY <2>1, <2>2
<1>5. PlansParked'
  <2> SUFFICES ASSUME NEW r \in Req, pending'[r] # NoPlan
               PROVE  req'[r].status = "IDLE" /\ CommitOK(req'[r], pending'[r])
    BY DEF PlansParked, IsPending, Idle
  <2>1. CASE r \in Range(order)
    BY <1>1, <1>2, <1>3, <2>1, ScheduledRequests, DemotionPlanIsPlan DEF Idle
  <2>2. CASE r \notin Range(order)
    BY <1>2, <2>2, ScheduledRequests DEF CoreInv, PlansParked, IsPending, Idle
  <2> QED BY <2>1, <2>2
<1>6. /\ N \in Nat /\ DOMAIN batches = 1 .. N /\ DOMAIN batches' = 1 .. N + 1
      /\ \A i \in 1 .. N : batches'[i] = batches[i]
      /\ batches'[N + 1] = b
  BY SchedulePlanUnfolded, NewBatchTyped, AppendBatch DEF CoreInv, Typed
<1>7. /\ DOMAIN b.trans = DOMAIN order
      /\ \A n \in DOMAIN order : /\ b.trans[n].req = order[n] /\ order[n] \in Range(order)
                                 /\ b.trans[n].plan = DemotionPlan(req[order[n]])
  BY DEF NewBatch, NewTrans, Range
<1> HIDE DEF b, N
<1>8. \A i \in 1 .. N : \A n \in DOMAIN batches[i].trans :
        /\ batches[i].trans[n].req \in Req
        /\ batches[i].trans[n].plan # NoPlan
        /\ pending[batches[i].trans[n].req] = batches[i].trans[n].plan
        /\ batches[i].trans[n].req \notin Range(order)
  <2> SUFFICES ASSUME NEW i \in 1 .. N, NEW n \in DOMAIN batches[i].trans
               PROVE  /\ batches[i].trans[n].req \in Req
                      /\ batches[i].trans[n].plan # NoPlan
                      /\ pending[batches[i].trans[n].req] = batches[i].trans[n].plan
                      /\ batches[i].trans[n].req \notin Range(order)
    OBVIOUS
  <2>1. batches[i] \in BatchRecord
    BY <1>6, ElementOfSeq DEF CoreInv, Typed
  <2>2. batches[i].trans \in Seq(Transition)
    BY <2>1 DEF BatchRecord
  <2>3. batches[i].trans[n] \in Transition
    BY <2>2, LenProperties, ElementOfSeq
  <2>4. /\ batches[i].trans[n].plan # NoPlan
        /\ pending[batches[i].trans[n].req] = batches[i].trans[n].plan
    BY <1>6 DEF CoreInv, PlansInFlight
  <2> QED BY <1>1, <2>3, <2>4 DEF Transition, IsPending
<1>9. \A i \in 1 .. N + 1 : i \in 1 .. N \/ i = N + 1
  BY <1>6
<1>10. \A i \in DOMAIN batches' : \A n \in DOMAIN batches'[i].trans :
         /\ batches'[i].trans[n].plan # NoPlan
         /\ pending'[batches'[i].trans[n].req] = batches'[i].trans[n].plan
  <2> SUFFICES ASSUME NEW i \in 1 .. N + 1, NEW n \in DOMAIN batches'[i].trans
               PROVE  /\ batches'[i].trans[n].plan # NoPlan
                      /\ pending'[batches'[i].trans[n].req] = batches'[i].trans[n].plan
    BY <1>6
  <2>1. CASE i \in 1 .. N
    BY <1>2, <1>6, <1>8, <2>1
  <2>2. CASE i = N + 1
    BY <1>1, <1>2, <1>6, <1>7, <2>2
  <2> QED BY <1>9, <2>1, <2>2
<1>11. \A i, l \in DOMAIN batches' :
         \A n \in DOMAIN batches'[i].trans, m \in DOMAIN batches'[l].trans :
           batches'[i].trans[n].req = batches'[l].trans[m].req => i = l /\ n = m
  <2> SUFFICES ASSUME NEW i \in 1 .. N + 1, NEW l \in 1 .. N + 1,
                      NEW n \in DOMAIN batches'[i].trans, NEW m \in DOMAIN batches'[l].trans,
                      batches'[i].trans[n].req = batches'[l].trans[m].req
               PROVE  i = l /\ n = m
    BY <1>6
  <2>1. CASE i \in 1 .. N /\ l \in 1 .. N
    BY <1>6, <2>1 DEF CoreInv, PlansInFlight
  <2>2. CASE i = N + 1 /\ l = N + 1
    BY <1>1, <1>6, <1>7, <2>2 DEF IsInjective
  <2>3. CASE i \in 1 .. N /\ l = N + 1
    BY <1>6, <1>7, <1>8, <2>3
  <2>4. CASE i = N + 1 /\ l \in 1 .. N
    BY <1>6, <1>7, <1>8, <2>4
  <2> QED BY <1>9, <2>1, <2>2, <2>3, <2>4
<1>12. \A r \in Req : pending'[r] # NoPlan =>
         \E i \in DOMAIN batches' : \E n \in DOMAIN batches'[i].trans :
           batches'[i].trans[n].req = r
  <2> SUFFICES ASSUME NEW r \in Req, pending'[r] # NoPlan
               PROVE  \E i \in DOMAIN batches' : \E n \in DOMAIN batches'[i].trans :
                        batches'[i].trans[n].req = r
    OBVIOUS
  <2>1. CASE r \in Range(order)
    <3>1. PICK n \in DOMAIN order : order[n] = r
      BY <2>1 DEF Range
    <3>2. N + 1 \in DOMAIN batches' /\ n \in DOMAIN batches'[N + 1].trans
          /\ batches'[N + 1].trans[n].req = r
      BY <1>6, <1>7, <3>1
    <3> QED BY <3>2
  <2>2. CASE r \notin Range(order)
    <3>1. PICK i \in 1 .. N : \E n \in DOMAIN batches[i].trans : batches[i].trans[n].req = r
      BY <1>2, <1>6, <2>2 DEF CoreInv, PlansInFlight, IsPending
    <3>2. i \in DOMAIN batches' /\ batches'[i] = batches[i]
      BY <1>6
    <3> QED BY <3>1, <3>2
  <2> QED BY <2>1, <2>2
<1>13. PlansInFlight'
  BY <1>10, <1>11, <1>12 DEF PlansInFlight, IsPending
<1> QED BY <1>1, <1>2, <1>4, <1>5, <1>13

\* schedule() keeps the invariant when it does not raise,
LEMMA SchedulePlanKeeps ==
  ASSUME CoreInv, NEW order, NEW p, NEW k, NEW ids, MaySchedule(order, p, k, ids),
         SchedulePlan(order, p, k, ids), UNCHANGED <<deferred, numIdle, sent, raised>>,
         phase' \in {"input", "result"}
  PROVE  CoreInv'
<1>1. /\ p \in 0 .. Len(running) /\ k \in 0 .. Len(Candidates)
      /\ Kept(p) \in Seq(Req) /\ IsInjective(Kept(p)) /\ Victims(p) \in Seq(Req)
      /\ Range(Kept(p)) \cup Range(Victims(p)) = Range(running)
      /\ Range(Kept(p)) \cap Range(Victims(p)) = {}
      /\ \A r \in Range(Kept(p)) : r \in Req /\ req[r].status = "RUNNING"
  BY SplitRunning DEF MaySchedule
<1>2. /\ First(k) \in Seq(Req) /\ IsInjective(First(k))
      /\ Range(First(k)) \cap Range(running) = {}
      /\ Range(Chosen(p, k)) = Range(Wanting(p)) \cup Range(First(k))
      /\ Range(Chosen(p, k)) \cap Range(Victims(p)) = {}
  BY ChosenProperties
<1>3. /\ running' = Kept(p) \o First(k)
      /\ waiting' = Victims(p) \o Without(waiting, Range(First(k)))
      /\ skipped' = Without(skipped, Range(First(k)))
      /\ freeBlocks' = BlocksIf(p) \ Range(ids) /\ finishedIds' = {}
      /\ batches' = Append(batches, NewBatch(order, p, k, ids))
  BY SchedulePlanUnfolded
<1>4. /\ req' \in [Req -> Record]
      /\ \A r \in Range(Victims(p)) : req'[r] = Preempted(req[r]) /\ req[r].status = "RUNNING"
      /\ \A r \in Range(Chosen(p, k)) : r \in Req /\ req'[r] = Scheduled(req[r], Ids(ids, r))
      /\ \A r \in Req \ (Range(Victims(p)) \cup Range(Chosen(p, k))) : req'[r] = req[r]
  BY ScheduledRequests
<1>5. \A r \in Range(Chosen(p, k)) : /\ req'[r].status = "RUNNING"
                                     /\ req[r].status \in {"RUNNING", "WAITING", "PREEMPTED"}
  <2>1. \A r \in Range(Chosen(p, k)) : req[r] \in Record /\ Ids(ids, r) \in Seq(Block)
    BY <1>4, IdsProperties DEF CoreInv, Typed
  <2> QED BY <1>4, <2>1, ScheduledRecord, ChosenProperties
<1>6. \A r \in Range(Victims(p)) : r \in Req /\ req'[r].status = "PREEMPTED"
  BY <1>1, <1>4, RangeOfSeq, PreemptedRecord DEF CoreInv, Typed
<1>7. Typed'
  <2>1. running' \in Seq(Req) /\ waiting' \in Seq(Req) /\ skipped' \in Seq(Req)
    <3>1. Without(waiting, Range(First(k))) \in Seq(Req) /\ Without(skipped, Range(First(k))) \in Seq(Req)
      BY WithoutSubset DEF CoreInv, Typed
    <3> QED BY <1>1, <1>2, <1>3, <3>1, ConcatProperties
  <2>2. freeBlocks' \subseteq Block
    BY <1>3, IdsProperties
  <2>3. batches' \in Seq(BatchRecord)
    BY <1>3, NewBatchTyped, AppendBatch DEF CoreInv, Typed
  <2>4. pending' \in [Req -> Plan]
    BY SchedulePlans
  <2> QED BY <1>3, <1>4, <2>1, <2>2, <2>3, <2>4 DEF CoreInv, Typed
<1>8. ClientsKnown'
  <2>1. \A r \in Req : \/ req'[r] = req[r]
                       \/ /\ req[r].status # "ABSENT" /\ req'[r].status # "ABSENT"
    BY <1>4, <1>5, <1>6
  <2>2. LiveOnes' = LiveOnes
    BY <2>1 DEF LiveOnes, Live
  <2> QED BY <2>1, <2>2 DEF CoreInv, ClientsKnown, Live
<1>9. RunningOnly'
  <2>1. IsInjective(running') /\ Range(running') = Range(Kept(p)) \cup Range(First(k))
    <3>1. Range(Kept(p)) \cap Range(First(k)) = {}
      BY <1>1, <1>2
    <3> QED BY <1>1, <1>2, <1>3, <3>1, ConcatInjective, RangeConcatenation
  <2>2. \A r \in Range(Kept(p)) : req'[r].status = "RUNNING"
    BY <1>1, <1>4, <1>5
  <2>3. \A r \in Range(First(k)) : req'[r].status = "RUNNING"
    BY <1>2, <1>5
  <2> QED BY <2>1, <2>2, <2>3 DEF RunningOnly
<1>10. PlansParked' /\ PlansInFlight'
  BY SchedulePlans
<1>11. HotConservation'
  BY ScheduleConserves
<1> QED BY <1>7, <1>8, <1>9, <1>10, <1>11 DEF CoreInv

\* and when it does.
LEMMA RaiseKeeps ==
  ASSUME CoreInv, Raise, phase' \in {"input", "result"}
  PROVE  CoreInv'
<1> USE DEF CoreInv, Raise
<1>1. Typed'
  <2>1. raised' \in BOOLEAN
    OBVIOUS
  <2>2. UNCHANGED <<req, running, waiting, skipped, freeBlocks, pending, deferred, numIdle,
                    finishedIds, sent, batches>>
    BY DEF queues
  <2> QED BY <2>1, <2>2 DEF Typed
<1>2. ClientsKnown' /\ RunningOnly' /\ PlansParked' /\ PlansInFlight'
  BY DEF ClientsKnown, LiveOnes, Live, RunningOnly, PlansParked, PlansInFlight, IsPending, Idle, queues
<1>3. HotConservation'
  BY DEF HotConservation, queues
<1> QED BY <1>1, <1>2, <1>3

\* There is nothing else.
LEMMA ScheduleCases ==
  ASSUME Schedule, ~Raise
  PROVE  \E order, p, k, ids : /\ MaySchedule(order, p, k, ids)
               /\ SchedulePlan(order, p, k, ids) /\ UNCHANGED <<deferred, numIdle, sent, raised>>
<1>1. PICK p \in 0 .. Len(running), k \in 0 .. Len(Candidates) :
       /\ IsNumPreempted(p) /\ IsNumAdmitted(p, k)
       /\ ~ScheduleRaises(p, k)
       /\ \E order \in Orders(Demotable) :
                  \E ids \in Injection(Needed(p, k), BlocksIf(p)) :
                    /\ SchedulePlan(order, p, k, ids)
                    /\ UNCHANGED <<deferred, numIdle, sent, raised>>
  BY DEF Schedule, Needed, Chosen
<1> QED BY <1>1 DEF MaySchedule

\* So schedule() keeps the invariant.
LEMMA ScheduleKeeps ==
  ASSUME CoreInv, Schedule, phase' \in {"input", "result"}
  PROVE  CoreInv'
<1>1. CASE Raise
  BY <1>1, RaiseKeeps
<1>2. CASE ~Raise
  BY <1>2, ScheduleCases, SchedulePlanKeeps
<1> QED BY <1>1, <1>2
-----------------------------------------------------------------------------
\* What an answer frees, takes up and moves.
Freed(b, eos) == AckFinishes(b) \cup Ended(b, eos)
Popped(q) == [q EXCEPT !.updates = Tail(@)]
HasMoved(b, r) == \E t \in Moved(b) : t.req = r
AfterMove(b, r) == IF HasMoved(b, r) THEN Committed(req[r], pending[r]) ELSE req[r]

\* An update taken from the queue.
LEMMA PoppedRecord ==
  ASSUME NEW q \in Record, q.updates # <<>>
  PROVE  /\ Popped(q) \in Record /\ Popped(q).blocks = q.blocks
         /\ Popped(q).status = q.status
<1>1. Tail(q.updates) \in Seq({"turn", "close"})
  BY RecordFields, HeadTailProperties
<1> QED BY <1>1 DEF Popped, Record

\* The step whose answer is processed, and the ones behind it.
LEMMA OldestBatch ==
  ASSUME CoreInv, batches # <<>>
  PROVE  /\ Head(batches) = batches[1] /\ 1 \in DOMAIN batches
         /\ Head(batches) \in BatchRecord
         /\ Tail(batches) \in Seq(BatchRecord)
         /\ \A i \in DOMAIN Tail(batches) :
              i + 1 \in DOMAIN batches /\ Tail(batches)[i] = batches[i + 1]
         /\ \A i \in DOMAIN batches : i # 1 => i - 1 \in DOMAIN Tail(batches)
<1>1. batches \in Seq(BatchRecord)
  BY DEF CoreInv, Typed
<1>2. /\ Head(batches) = batches[1] /\ Head(batches) \in BatchRecord
      /\ Tail(batches) \in Seq(BatchRecord)
      /\ Len(batches) \in Nat /\ Len(batches) # 0
      /\ Len(Tail(batches)) = Len(batches) - 1
      /\ \A i \in 1 .. Len(Tail(batches)) : Tail(batches)[i] = batches[i + 1]
  BY <1>1, HeadTailProperties, EmptySeq, LenProperties
<1>3. DOMAIN batches = 1 .. Len(batches) /\ DOMAIN Tail(batches) = 1 .. Len(Tail(batches))
  BY <1>1, <1>2, LenProperties
<1> QED BY <1>2, <1>3

(* An answered transition is the pending one of an idle session.            *)
LEMMA AckedPlans ==
  ASSUME CoreInv, batches # <<>>, NEW b, b = Head(batches)
  PROVE  /\ Acked(b) \subseteq Req
         /\ \A r \in Acked(b) : /\ IsPending(r) /\ Idle(r) /\ Live(r)
                                /\ CommitOK(req[r], pending[r]) /\ IsPlan(pending[r])
         /\ \A t \in Moved(b) : t.req \in Acked(b) /\ t.plan = pending[t.req]
         /\ AckFinishes(b) \subseteq Acked(b) /\ AckPops(b) \subseteq Acked(b)
         /\ AckFinishes(b) \cup AckPops(b) \in SUBSET LiveOnes
         /\ \A r \in AckPops(b) : req[r].updates # <<>>
<1>1. b = batches[1] /\ 1 \in DOMAIN batches /\ b \in BatchRecord
  BY OldestBatch
<1>2. \A n \in DOMAIN b.trans : /\ b.trans[n].req \in Req
                                /\ b.trans[n].plan # NoPlan
                                /\ pending[b.trans[n].req] = b.trans[n].plan
  <2> SUFFICES ASSUME NEW n \in DOMAIN b.trans
               PROVE  /\ b.trans[n].req \in Req
                      /\ b.trans[n].plan # NoPlan
                      /\ pending[b.trans[n].req] = b.trans[n].plan
    OBVIOUS
  <2>1. b.trans \in Seq(Transition)
    BY <1>1 DEF BatchRecord
  <2>2. b.trans[n] \in Transition
    BY <2>1, LenProperties, ElementOfSeq
  <2> QED BY <1>1, <2>2 DEF Transition, CoreInv, PlansInFlight
<1>3. Acked(b) \subseteq Req /\ \A r \in Acked(b) : IsPending(r)
  BY <1>2 DEF Acked, IsPending
<1>4. \A r \in Acked(b) : Idle(r) /\ Live(r) /\ CommitOK(req[r], pending[r]) /\ IsPlan(pending[r])
  BY <1>3, PlanIsFinite DEF CoreInv, PlansParked, Typed, Idle, Live
<1>5. \A t \in Moved(b) : t.req \in Acked(b) /\ t.plan = pending[t.req]
  BY <1>2 DEF Moved, Acked
<1>6. /\ AckFinishes(b) \subseteq Acked(b) /\ AckPops(b) \subseteq Acked(b)
      /\ \A r \in AckPops(b) : req[r].updates # <<>>
  BY DEF AckFinishes, AckAborts, AckCloses, AckPops
<1>7. AckFinishes(b) \cup AckPops(b) \in SUBSET LiveOnes
  BY <1>3, <1>4, <1>6 DEF LiveOnes
<1> QED BY <1>3, <1>4, <1>5, <1>6, <1>7

\* A commit gives up what the worker has copied, exactly.
LEMMA AfterMoveRecord ==
  ASSUME CoreInv, batches # <<>>, NEW b, b = Head(batches), NEW r \in Req
  PROVE  /\ AfterMove(b, r) \in Record /\ AfterMove(b, r).status = req[r].status
         /\ AfterMove(b, r).updates = req[r].updates
         /\ NoDuplicate(AfterMove(b, r))
         /\ HeldBlocks(AfterMove(b, r)) =
              HeldBlocks(req[r]) \ IF HasMoved(b, r) THEN Range(pending[r]) ELSE {}
         /\ HasMoved(b, r) => Range(pending[r]) \subseteq HeldBlocks(req[r]) /\ r \in Acked(b)
         /\ WarmIndices(AfterMove(b, r)) =
              WarmIndices(req[r]) \cup IF HasMoved(b, r) THEN DOMAIN pending[r] ELSE {}
<1>1. req[r] \in Record
  BY DEF CoreInv, Typed
<1>2. NoDuplicate(req[r])
  BY HotConservationIsPartition DEF CoreInv, HotOK
<1>3. CASE HasMoved(b, r)
  <2>1. r \in Acked(b) /\ CommitOK(req[r], pending[r]) /\ IsPlan(pending[r])
    BY <1>3, AckedPlans DEF HasMoved
  <2>2. AfterMove(b, r) = Committed(req[r], pending[r])
    BY <1>3 DEF AfterMove
  <2> QED BY <1>1, <1>2, <1>3, <2>1, <2>2, CommittedRecord, CommittedBlocks
<1>4. CASE ~HasMoved(b, r)
  BY <1>1, <1>2, <1>4 DEF AfterMove
<1> QED BY <1>3, <1>4

\* What an answered transition makes of a session, and of no other request.
LEMMA AfterAckRecord ==
  ASSUME CoreInv, batches # <<>>, NEW b, b = Head(batches), NEW r \in Req
  PROVE  /\ AfterAck(b, r) \in Record
         /\ r \notin Acked(b) => AfterAck(b, r) = req[r]
         /\ r \in AckFinishes(b) => AfterAck(b, r) = Absent
         /\ r \notin AckFinishes(b) =>
              /\ AfterAck(b, r).blocks = AfterMove(b, r).blocks
              /\ AfterAck(b, r).status = IF r \in AckPops(b) THEN "WAITING" ELSE req[r].status
<1> DEFINE q == AfterMove(b, r)
<1>1. AfterAck(b, r) = IF r \in AckFinishes(b) THEN Absent
                       ELSE IF r \in AckPops(b) THEN Resume(Popped(q)) ELSE q
  BY DEF AfterAck, AfterMove, HasMoved, Popped
<1>2. q \in Record /\ q.status = req[r].status /\ q.updates = req[r].updates
  BY AfterMoveRecord
<1>3. r \notin Acked(b) => q = req[r] /\ r \notin AckFinishes(b) /\ r \notin AckPops(b)
  BY AckedPlans, AfterMoveRecord DEF AfterMove
<1> HIDE DEF q
<1>4. r \in AckPops(b) => /\ Resume(Popped(q)) \in Record
                          /\ Resume(Popped(q)).blocks = q.blocks
                          /\ Resume(Popped(q)).status = "WAITING"
  BY <1>2, AckedPlans, PoppedRecord, ResumeRecord
<1>5. AfterAck(b, r) \in Record
  BY <1>1, <1>2, <1>4, AbsentRecord
<1> QED BY <1>1, <1>2, <1>3, <1>4, <1>5 DEF q

\* Answers go to requests the scheduler has.
LEMMA OutputsProperties ==
  ASSUME CoreInv, batches # <<>>, NEW b, b = Head(batches)
  PROVE  /\ Outputs(b) \in Seq(Req) /\ Range(Outputs(b)) \in SUBSET LiveOnes
         /\ \A r \in Range(Outputs(b)) : r \in Req /\ AfterAck(b, r).status # "ABSENT"
<1> DEFINE ids == [k \in DOMAIN b.sched |-> b.sched[k].req]
<1>1. b.sched \in Seq(SchedEntry)
  BY OldestBatch DEF BatchRecord
<1>2. ids \in Seq(Req)
  <2>1. DOMAIN b.sched = 1 .. Len(b.sched) /\ Len(b.sched) \in Nat
        /\ \A k \in DOMAIN b.sched : b.sched[k] \in SchedEntry
    BY <1>1, LenProperties, ElementOfSeq
  <2>2. \A k \in DOMAIN b.sched : b.sched[k].req \in Req
    BY <2>1 DEF SchedEntry
  <2> QED BY <2>1, <2>2
<1>3. Outputs(b) = Only(ids, {r \in Req : AfterAck(b, r).status # "ABSENT"})
  BY DEF Outputs
<1> HIDE DEF ids
<1>4. /\ Outputs(b) \in Seq(Req)
      /\ \A r \in Range(Outputs(b)) : r \in Req /\ AfterAck(b, r).status # "ABSENT"
  BY <1>2, <1>3, OnlyProperties
<1>5. \A r \in Req : AfterAck(b, r).status # "ABSENT" => Live(r)
  BY AfterAckRecord, AckedPlans DEF Live
<1> QED BY <1>4, <1>5 DEF LiveOnes

\* A token changes neither status nor blocks.
LEMMA AfterTokenRecord ==
  ASSUME CoreInv, batches # <<>>, NEW b, b = Head(batches), NEW eos, ~UpdateRaises(b, eos),
         NEW r \in Req
  PROVE  /\ AfterToken(b, r) \in Record
         /\ AfterToken(b, r).status = AfterAck(b, r).status
         /\ AfterToken(b, r).blocks = AfterAck(b, r).blocks
         /\ AfterToken(b, r).updates = AfterAck(b, r).updates
         /\ r \notin Range(Outputs(b)) => AfterToken(b, r) = AfterAck(b, r)
<1>1. AfterAck(b, r) \in Record
  BY AfterAckRecord
<1>2. CASE r \in Range(Outputs(b))
  <2>1. AfterToken(b, r) = Sampled(AfterAck(b, r))
    BY <1>2 DEF AfterToken
  <2>2. ~(Sampled(AfterAck(b, r)).placeholders < 0)
    BY <2>1 DEF UpdateRaises
  <2>3. Sampled(AfterAck(b, r)).placeholders \in Int
    BY <1>1, RecordFields DEF Sampled, Record
  <2> QED BY <1>1, <1>2, <2>1, <2>2, <2>3, SampledRecord
<1>3. CASE r \notin Range(Outputs(b))
  BY <1>1, <1>3 DEF AfterToken
<1> QED BY <1>2, <1>3

\* What stops ends, resumes or parks, and only one of them.
LEMMA StoppedParts ==
  ASSUME CoreInv, batches # <<>>, NEW b, b = Head(batches), NEW eos
  PROVE  /\ Stopped(b, eos) \in SUBSET LiveOnes /\ Stopped(b, eos) \subseteq Range(Outputs(b))
         /\ Ended(b, eos) \subseteq Stopped(b, eos) /\ Resumed(b, eos) \subseteq Stopped(b, eos)
         /\ Parked(b, eos) \in SUBSET LiveOnes /\ Parked(b, eos) \subseteq Stopped(b, eos)
         /\ Parked(b, eos) \cap (Ended(b, eos) \cup Resumed(b, eos)) = {}
         /\ Resumed(b, eos) \cap Ended(b, eos) = {}
         /\ \A r \in Resumed(b, eos) : AfterToken(b, r).updates # <<>>
         /\ Stopped(b, eos) \cap AckFinishes(b) = {}
<1>1. Range(Outputs(b)) \in SUBSET LiveOnes
  BY OutputsProperties
<1>2. \A r \in Range(Outputs(b)) : r \notin AckFinishes(b)
  BY OutputsProperties, AfterAckRecord, AbsentRecord
<1> QED BY <1>1, <1>2 DEF Stopped, Ended, Closed, Continued, Resumed, Parked
-----------------------------------------------------------------------------
\* The sets and functions AfterUpdate uses.
LeftRunning(b, eos) == {r \in Stopped(b, eos) : AfterAck(b, r).status = "RUNNING"}
AckedRunning(b) == {r \in AckFinishes(b) : req[r].status = "RUNNING"}
AckedIdle(b) == {r \in AckFinishes(b) \cup AckPops(b) : Idle(r)}
AsIdle(q) == [q EXCEPT !.status = "IDLE"]

\* AfterUpdate in these terms.
LEMMA AfterUpdateUnfolded ==
  ASSUME NEW b, NEW eos, AfterUpdate(b, eos)
  PROVE  /\ running' = Without(running, LeftRunning(b, eos) \cup AckedRunning(b))
         /\ waiting' = Without(Without(waiting, AckFinishes(b)) \o Only(Outputs(b), Resumed(b, eos)),
                               Stopped(b, eos) \ LeftRunning(b, eos))
         /\ skipped' = Without(skipped, AckFinishes(b)) \o Only(Outputs(b), Parked(b, eos))
         /\ freeBlocks' = freeBlocks
              \cup (UNION {Range(t.plan) : t \in Moved(b)})
              \cup (UNION {HeldBlocks(req[r]) : r \in Freed(b, eos)})
         /\ pending' = [r \in Req |-> IF r \in Acked(b) THEN NoPlan ELSE pending[r]]
         /\ deferred' = deferred \ Acked(b)
         /\ numIdle' = numIdle + Cardinality(Parked(b, eos)) - Cardinality(AckedIdle(b))
         /\ finishedIds' = finishedIds \cup Freed(b, eos)
BY DEF AfterUpdate, Freed, LeftRunning, AckedRunning, AckedIdle

\* What it makes of the requests.
LEMMA AfterUpdateRequests ==
  ASSUME NEW b, NEW eos, AfterUpdate(b, eos)
  PROVE  /\ DOMAIN req' = Req /\ req' = [r \in Req |-> req'[r]]
         /\ \A r \in Req : req'[r] =
              CASE r \in Freed(b, eos)   -> Absent
                [] r \in Resumed(b, eos) -> Resume(Popped(AfterToken(b, r)))
                [] r \in Parked(b, eos)  -> AsIdle(AfterToken(b, r))
                [] OTHER                 -> AfterToken(b, r)
BY DEF AfterUpdate, Freed, Popped, AsIdle

(* What a step's output makes of each request.                              *)
LEMMA UpdatedRequests ==
  ASSUME CoreInv, batches # <<>>, NEW b, b = Head(batches), NEW eos, ~UpdateRaises(b, eos),
         AfterUpdate(b, eos)
  PROVE  /\ req' \in [Req -> Record]
         /\ Freed(b, eos) \subseteq Req /\ Freed(b, eos) \subseteq LiveOnes
         /\ \A r \in Freed(b, eos) : req'[r] = Absent
         /\ \A r \in Req \ Freed(b, eos) :
              /\ req'[r].blocks = AfterMove(b, r).blocks
              /\ req'[r].status = CASE r \in Resumed(b, eos) -> "WAITING"
                                    [] r \in Parked(b, eos)  -> "IDLE"
                                    [] OTHER                 -> AfterAck(b, r).status
         /\ \A r \in Req \ LiveOnes : req'[r] = Absent
<1>1. /\ DOMAIN req' = Req /\ req' = [r \in Req |-> req'[r]]
      /\ \A r \in Req : req'[r] =
              CASE r \in Freed(b, eos)   -> Absent
                [] r \in Resumed(b, eos) -> Resume(Popped(AfterToken(b, r)))
                [] r \in Parked(b, eos)  -> AsIdle(AfterToken(b, r))
                [] OTHER                 -> AfterToken(b, r)
  BY AfterUpdateRequests
<1>2. \A q \in Record : AsIdle(q) \in Record /\ AsIdle(q).blocks = q.blocks /\ AsIdle(q).status = "IDLE"
  BY DEF Record, Status, AsIdle
<1>3. Freed(b, eos) \subseteq LiveOnes /\ LiveOnes \subseteq Req
  BY AckedPlans, StoppedParts DEF Freed, LiveOnes
<1>4. \A r \in Resumed(b, eos) : r \notin Freed(b, eos) /\ r \notin Parked(b, eos) /\ r \in Req
                                 /\ AfterToken(b, r).updates # <<>>
  BY <1>3, StoppedParts DEF Freed
<1>5. \A r \in Parked(b, eos) : r \notin Freed(b, eos) /\ r \notin Resumed(b, eos) /\ r \in Req
  BY <1>3, StoppedParts DEF Freed
<1>6. \A r \in Req : /\ AfterToken(b, r) \in Record
                     /\ AfterToken(b, r).status = AfterAck(b, r).status
                     /\ AfterToken(b, r).blocks = AfterAck(b, r).blocks
                     /\ r \notin Range(Outputs(b)) => AfterToken(b, r) = AfterAck(b, r)
  BY AfterTokenRecord
<1>7. \A r \in Req \ Freed(b, eos) : AfterAck(b, r).blocks = AfterMove(b, r).blocks
  BY AfterAckRecord DEF Freed
<1>8. \A r \in Resumed(b, eos) : /\ req'[r] \in Record
                                 /\ req'[r].blocks = AfterMove(b, r).blocks
                                 /\ req'[r].status = "WAITING"
  <2> SUFFICES ASSUME NEW r \in Resumed(b, eos)
               PROVE  /\ req'[r] \in Record
                      /\ req'[r].blocks = AfterMove(b, r).blocks
                      /\ req'[r].status = "WAITING"
    OBVIOUS
  <2>1. req'[r] = Resume(Popped(AfterToken(b, r)))
    BY <1>1, <1>4
  <2>2. AfterToken(b, r) \in Record /\ AfterToken(b, r).blocks = AfterMove(b, r).blocks
        /\ AfterToken(b, r).updates # <<>>
    BY <1>4, <1>6, <1>7
  <2>3. Popped(AfterToken(b, r)) \in Record
        /\ Popped(AfterToken(b, r)).blocks = AfterMove(b, r).blocks
    BY <2>2, PoppedRecord
  <2> QED BY <2>1, <2>3, ResumeRecord
<1>9. \A r \in Parked(b, eos) : /\ req'[r] \in Record
                                /\ req'[r].blocks = AfterMove(b, r).blocks
                                /\ req'[r].status = "IDLE"
  BY <1>1, <1>2, <1>5, <1>6, <1>7
<1>10. \A r \in Req : r \notin Freed(b, eos) /\ r \notin Resumed(b, eos) /\ r \notin Parked(b, eos)
         => req'[r] = AfterToken(b, r)
  BY <1>1
<1>11. \A r \in Freed(b, eos) : req'[r] = Absent
  BY <1>1, <1>3, <1>4, <1>5
<1>12. req' \in [Req -> Record]
  <2>1. \A r \in Req : req'[r] \in Record
    BY <1>6, <1>8, <1>9, <1>10, <1>11, AbsentRecord
  <2> QED BY <1>1, <2>1
<1>13. \A r \in Req \ LiveOnes : req'[r] = Absent
  <2> SUFFICES ASSUME NEW r \in Req, r \notin LiveOnes PROVE req'[r] = Absent
    OBVIOUS
  <2>1. /\ r \notin Freed(b, eos) /\ r \notin Resumed(b, eos) /\ r \notin Parked(b, eos)
        /\ r \notin Range(Outputs(b)) /\ r \notin Acked(b)
    BY <1>3, StoppedParts, OutputsProperties, AckedPlans DEF LiveOnes
  <2>2. req'[r] = AfterAck(b, r) /\ AfterAck(b, r) = req[r]
    BY <1>6, <1>10, <2>1, AfterAckRecord
  <2> QED BY <2>2 DEF CoreInv, ClientsKnown, LiveOnes
<1>14. \A r \in Req \ Freed(b, eos) :
              /\ req'[r].blocks = AfterMove(b, r).blocks
              /\ req'[r].status = CASE r \in Resumed(b, eos) -> "WAITING"
                                    [] r \in Parked(b, eos)  -> "IDLE"
                                    [] OTHER                 -> AfterAck(b, r).status
  BY <1>4, <1>5, <1>6, <1>7, <1>8, <1>9, <1>10
<1> QED BY <1>3, <1>11, <1>12, <1>13, <1>14

\* Commits and frees conserve the HOT blocks.
LEMMA UpdateConserves ==
  ASSUME CoreInv, batches # <<>>, NEW b, b = Head(batches), NEW eos, ~UpdateRaises(b, eos),
         AfterUpdate(b, eos)
  PROVE  HotConservation'
<1> DEFINE F == Freed(b, eos)
<1>1. req \in [Req -> Record] /\ req' \in [Req -> Record]
  BY UpdatedRequests DEF CoreInv, Typed
<1>2. HotOK(req, freeBlocks)
  BY HotConservationIsPartition DEF CoreInv
<1>3. F \subseteq Req /\ \A r \in F : HeldBlocks(req'[r]) = {} /\ NoDuplicate(req'[r])
  BY UpdatedRequests, AbsentRecord, HeldAreBlocks
<1>4. \A r \in Req \ F : /\ NoDuplicate(req'[r])
                         /\ HeldBlocks(req'[r]) =
                              HeldBlocks(req[r]) \ IF HasMoved(b, r) THEN Range(pending[r]) ELSE {}
  BY UpdatedRequests, AfterMoveRecord, SameBlocks
<1>5. \A r \in Req : HasMoved(b, r) => Range(pending[r]) \subseteq HeldBlocks(req[r])
  BY AfterMoveRecord
<1>6. \A t \in Moved(b) : t.req \in Req /\ HasMoved(b, t.req) /\ t.plan = pending[t.req]
  BY AckedPlans DEF HasMoved
<1>7. \A r \in Req : HasMoved(b, r) => \E t \in Moved(b) : t.plan = pending[r]
  BY AckedPlans DEF HasMoved
<1>8. freeBlocks' = freeBlocks \cup (UNION {Range(t.plan) : t \in Moved(b)})
                               \cup (UNION {HeldBlocks(req[r]) : r \in F})
  BY AfterUpdateUnfolded
<1> HIDE DEF F
<1>9. freeBlocks' = freeBlocks \cup UNION {HeldBlocks(req[r]) \ HeldBlocks(req'[r]) : r \in Req}
  <2>1. ASSUME NEW t \in Moved(b), NEW x \in Range(t.plan)
        PROVE  \E r \in Req : x \in HeldBlocks(req[r]) \ HeldBlocks(req'[r])
    <3>1. t.req \in Req /\ x \in Range(pending[t.req]) /\ HasMoved(b, t.req)
      BY <1>6, <2>1
    <3>2. x \in HeldBlocks(req[t.req]) \ HeldBlocks(req'[t.req])
      BY <1>3, <1>4, <1>5, <3>1
    <3> QED BY <3>1, <3>2
  <2>2. \A r \in F : HeldBlocks(req[r]) \ HeldBlocks(req'[r]) = HeldBlocks(req[r])
    BY <1>3
  <2>3. ASSUME NEW r \in Req, NEW x \in HeldBlocks(req[r]) \ HeldBlocks(req'[r]), r \notin F
        PROVE  \E t \in Moved(b) : x \in Range(t.plan)
    <3>1. HasMoved(b, r) /\ x \in Range(pending[r])
      BY <1>4, <2>3
    <3> QED BY <1>7, <3>1
  <2> DEFINE R == UNION {HeldBlocks(req[r]) \ HeldBlocks(req'[r]) : r \in Req}
             M == UNION {Range(t.plan) : t \in Moved(b)}
             E == UNION {HeldBlocks(req[r]) : r \in F}
  <2>4. M \subseteq R
    BY <2>1
  <2>5. E \subseteq R
    BY <1>3, <2>2
  <2>6. ASSUME NEW x \in R PROVE x \in M \cup E
    <3>1. PICK r \in Req : x \in HeldBlocks(req[r]) \ HeldBlocks(req'[r])
      OBVIOUS
    <3>2. CASE r \in F
      BY <3>1, <3>2
    <3>3. CASE r \notin F
      BY <2>3, <3>1, <3>3
    <3> QED BY <3>2, <3>3
  <2>7. freeBlocks' = freeBlocks \cup M \cup E
    BY <1>8
  <2> HIDE DEF R, M, E
  <2>8. freeBlocks' = freeBlocks \cup R
    BY <2>4, <2>5, <2>6, <2>7
  <2> QED BY <2>8 DEF R
<1>10. \A r \in Req : NoDuplicate(req'[r]) /\ HeldBlocks(req'[r]) \subseteq HeldBlocks(req[r])
  BY <1>3, <1>4
<1>11. HotOK(req', freeBlocks')
  BY <1>1, <1>2, <1>9, <1>10, HotRelease
<1> QED BY <1>11, HotConservationIsPartition

\* An answered plan is gone, the others stay as they are.
LEMMA UpdatePlans ==
  ASSUME CoreInv, batches # <<>>, NEW b, b = Head(batches), NEW eos, ~UpdateRaises(b, eos),
         AfterUpdate(b, eos), batches' = Tail(batches)
  PROVE  /\ pending' \in [Req -> Plan] /\ PlansParked' /\ PlansInFlight'
         /\ \A r \in Acked(b) : pending'[r] = NoPlan
         /\ \A r \in Req \ Acked(b) : pending'[r] = pending[r]
<1>1. \A r \in Req : pending'[r] = IF r \in Acked(b) THEN NoPlan ELSE pending[r]
  BY AfterUpdateUnfolded
<1>2. pending' \in [Req -> Plan]
  BY AfterUpdateUnfolded, PlanIsFinite DEF CoreInv, Typed
<1>3. PlansParked'
  <2> SUFFICES ASSUME NEW r \in Req, pending'[r] # NoPlan
               PROVE  req'[r].status = "IDLE" /\ CommitOK(req'[r], pending'[r])
    BY DEF PlansParked, IsPending, Idle
  <2>1. r \notin Acked(b) /\ IsPending(r) /\ pending'[r] = pending[r]
    BY <1>1 DEF IsPending
  <2>2. req[r].status = "IDLE" /\ CommitOK(req[r], pending[r])
    BY <2>1 DEF CoreInv, PlansParked, Idle
  <2>3. r \notin Ended(b, eos) /\ r \notin Resumed(b, eos) /\ r \notin Freed(b, eos)
    BY <2>1, AckedPlans DEF UpdateRaises, Freed
  <2>4. /\ AfterAck(b, r) = req[r] /\ ~HasMoved(b, r) /\ AfterMove(b, r) = req[r]
    BY <2>1, AfterAckRecord, AfterMoveRecord DEF AfterMove
  <2>5. req'[r].status = "IDLE" /\ req'[r].blocks = req[r].blocks
    BY <2>2, <2>3, <2>4, UpdatedRequests
  <2> QED BY <2>1, <2>2, <2>5, SameBlocks
<1>4. /\ b = batches[1] /\ 1 \in DOMAIN batches
      /\ \A i \in DOMAIN batches' : i + 1 \in DOMAIN batches /\ batches'[i] = batches[i + 1]
      /\ \A i \in DOMAIN batches : i # 1 => i - 1 \in DOMAIN batches'
      /\ DOMAIN batches' \subseteq Nat \ {0} /\ DOMAIN batches \subseteq Nat
  <2>1. batches' \in Seq(BatchRecord) /\ batches \in Seq(BatchRecord)
    BY OldestBatch DEF CoreInv, Typed
  <2> QED BY <2>1, OldestBatch, LenProperties
<1>5. \A i \in DOMAIN batches' : \A n \in DOMAIN batches'[i].trans :
        /\ batches'[i].trans[n].plan # NoPlan
        /\ batches'[i].trans[n].req \in Req
        /\ pending'[batches'[i].trans[n].req] = batches'[i].trans[n].plan
  <2> SUFFICES ASSUME NEW i \in DOMAIN batches', NEW n \in DOMAIN batches'[i].trans
               PROVE  /\ batches'[i].trans[n].plan # NoPlan
                      /\ batches'[i].trans[n].req \in Req
                      /\ pending'[batches'[i].trans[n].req] = batches'[i].trans[n].plan
    OBVIOUS
  <2>1. i + 1 \in DOMAIN batches /\ batches'[i] = batches[i + 1] /\ i + 1 # 1
    BY <1>4
  <2>2. batches[i + 1] \in BatchRecord
    BY <2>1, LenProperties, ElementOfSeq DEF CoreInv, Typed
  <2>3. batches[i + 1].trans[n] \in Transition
    BY <2>1, <2>2, LenProperties, ElementOfSeq DEF BatchRecord
  <2>4. /\ batches[i + 1].trans[n].plan # NoPlan
        /\ pending[batches[i + 1].trans[n].req] = batches[i + 1].trans[n].plan
    BY <2>1 DEF CoreInv, PlansInFlight
  <2>5. \A m \in DOMAIN b.trans : b.trans[m].req # batches[i + 1].trans[n].req
    BY <1>4, <2>1 DEF CoreInv, PlansInFlight
  <2>6. batches[i + 1].trans[n].req \notin Acked(b)
    BY <2>5 DEF Acked
  <2> QED BY <1>1, <2>1, <2>3, <2>4, <2>6 DEF Transition
<1>6. \A i, l \in DOMAIN batches' :
         \A n \in DOMAIN batches'[i].trans, m \in DOMAIN batches'[l].trans :
           batches'[i].trans[n].req = batches'[l].trans[m].req => i = l /\ n = m
  <2> SUFFICES ASSUME NEW i \in DOMAIN batches', NEW l \in DOMAIN batches',
                      NEW n \in DOMAIN batches'[i].trans, NEW m \in DOMAIN batches'[l].trans,
                      batches'[i].trans[n].req = batches'[l].trans[m].req
               PROVE  i = l /\ n = m
    OBVIOUS
  <2>1. i + 1 = l + 1 /\ n = m
    BY <1>4 DEF CoreInv, PlansInFlight
  <2> QED BY <1>4, <2>1
<1>7. \A r \in Req : pending'[r] # NoPlan =>
         \E i \in DOMAIN batches' : \E n \in DOMAIN batches'[i].trans :
           batches'[i].trans[n].req = r
  <2> SUFFICES ASSUME NEW r \in Req, pending'[r] # NoPlan
               PROVE  \E i \in DOMAIN batches' : \E n \in DOMAIN batches'[i].trans :
                        batches'[i].trans[n].req = r
    OBVIOUS
  <2>1. r \notin Acked(b) /\ IsPending(r)
    BY <1>1 DEF IsPending
  <2>2. PICK i \in DOMAIN batches : \E n \in DOMAIN batches[i].trans : batches[i].trans[n].req = r
    BY <2>1 DEF CoreInv, PlansInFlight
  <2>3. i # 1
    BY <1>4, <2>1, <2>2 DEF Acked
  <2>4. i - 1 \in DOMAIN batches' /\ batches'[i - 1] = batches[i]
    <3>1. i - 1 \in DOMAIN batches' /\ (i - 1) + 1 = i
      BY <1>4, <2>3
    <3> QED BY <1>4, <3>1
  <2> QED BY <2>2, <2>4
<1>8. PlansInFlight'
  BY <1>5, <1>6, <1>7 DEF PlansInFlight, IsPending
<1>9. \A r \in Acked(b) : r \in Req
  BY AckedPlans
<1> QED BY <1>1, <1>2, <1>3, <1>8, <1>9

\* update_from_output() keeps the invariant.
LEMMA UpdateKeeps ==
  ASSUME CoreInv, batches # <<>>, NEW b, b = Head(batches), NEW eos, ~UpdateRaises(b, eos),
         AfterUpdate(b, eos), batches' = Tail(batches), UNCHANGED <<sent, raised>>,
         phase' \in {"input", "result"}
  PROVE  CoreInv'
<1>1. /\ req' \in [Req -> Record] /\ Freed(b, eos) \subseteq Req
      /\ \A r \in Freed(b, eos) : req'[r] = Absent
      /\ \A r \in Req \ LiveOnes : req'[r] = Absent
  BY UpdatedRequests
<1>0. /\ running' = Without(running, LeftRunning(b, eos) \cup AckedRunning(b))
      /\ waiting' = Without(Without(waiting, AckFinishes(b)) \o Only(Outputs(b), Resumed(b, eos)),
                            Stopped(b, eos) \ LeftRunning(b, eos))
      /\ skipped' = Without(skipped, AckFinishes(b)) \o Only(Outputs(b), Parked(b, eos))
      /\ deferred' = deferred \ Acked(b)
      /\ numIdle' = numIdle + Cardinality(Parked(b, eos)) - Cardinality(AckedIdle(b))
      /\ finishedIds' = finishedIds \cup Freed(b, eos)
  BY AfterUpdateUnfolded
<1>2. Typed'
  <2>1. Outputs(b) \in Seq(Req)
    BY OutputsProperties
  <2>2. /\ Only(Outputs(b), Resumed(b, eos)) \in Seq(Req)
        /\ Only(Outputs(b), Parked(b, eos)) \in Seq(Req)
        /\ Without(waiting, AckFinishes(b)) \in Seq(Req)
        /\ Without(skipped, AckFinishes(b)) \in Seq(Req)
    BY <2>1, OnlyProperties, WithoutSubset DEF CoreInv, Typed
  <2>3. Without(waiting, AckFinishes(b)) \o Only(Outputs(b), Resumed(b, eos)) \in Seq(Req)
    BY <2>2, ConcatProperties
  <2>4. running' \in Seq(Req) /\ waiting' \in Seq(Req) /\ skipped' \in Seq(Req)
    <3>1. running \in Seq(Req)
      BY DEF CoreInv, Typed
    <3> QED BY <1>0, <2>2, <2>3, <3>1, WithoutSubset, ConcatProperties
  <2>5. freeBlocks' \subseteq Block
    BY UpdateConserves DEF HotConservation
  <2>6. numIdle' \in Int
    <3>1. Cardinality(Parked(b, eos)) \in Nat
      BY StoppedParts, LiveFinite
    <3>2. AckedIdle(b) \in SUBSET LiveOnes
      BY AckedPlans DEF AckedIdle
    <3>3. Cardinality(AckedIdle(b)) \in Nat
      BY <3>2, LiveFinite
    <3>4. numIdle \in Int
      BY DEF CoreInv, Typed
    <3> QED BY <3>1, <3>3, <3>4, <1>0
  <2>7. deferred' \subseteq Req /\ finishedIds' \subseteq Req
    <3>1. deferred \subseteq Req /\ finishedIds \subseteq Req
      BY DEF CoreInv, Typed
    <3> QED BY <1>0, <1>1, <3>1
  <2>8. batches' \in Seq(BatchRecord)
    BY OldestBatch
  <2>9. pending' \in [Req -> Plan]
    BY UpdatePlans
  <2>10. sent' \in [Req -> 0 .. MaxTurns + 1]
    BY DEF CoreInv, Typed
  <2>11. raised' \in BOOLEAN
    BY DEF CoreInv, Typed
  <2> QED BY <1>1, <2>4, <2>5, <2>6, <2>7, <2>8, <2>9, <2>10, <2>11 DEF Typed
<1>3. ClientsKnown'
  <2>1. \A r \in Req : req'[r] = Absent => req'[r].status = "ABSENT"
    BY AbsentRecord
  <2>2. LiveOnes' \in SUBSET LiveOnes
    BY <1>1, <2>1 DEF LiveOnes, Live
  <2>3. IsFiniteSet(LiveOnes')
    BY <2>2, LiveFinite
  <2>4. \A r \in Req : req'[r].status = "ABSENT" => req'[r] = Absent
    <3> SUFFICES ASSUME NEW r \in Req, req'[r].status = "ABSENT", r \notin Freed(b, eos), Live(r)
                 PROVE  FALSE
      BY <1>1 DEF LiveOnes
    <3>1. AfterAck(b, r).status = "ABSENT" /\ r \notin AckFinishes(b)
      BY UpdatedRequests DEF Freed
    <3> QED BY <3>1, AfterAckRecord DEF Live
  <2>5. \A r \in Req : sent'[r] = 0 => req'[r].status = "ABSENT"
    BY <1>1, AbsentRecord DEF CoreInv, ClientsKnown, LiveOnes
  <2> QED BY <2>3, <2>4, <2>5 DEF ClientsKnown, Live
<1>4. RunningOnly'
  <2>1. /\ running \in Seq(Req) /\ IsInjective(running)
        /\ \A r \in Range(running) : r \in Req /\ req[r].status = "RUNNING"
    BY RangeOfSeq DEF CoreInv, Typed, RunningOnly
  <2>2. /\ IsInjective(running')
        /\ Range(running') \subseteq Range(running) \ LeftRunning(b, eos)
    BY <2>1, <1>0, WithoutSubset
  <2> SUFFICES ASSUME NEW r \in Range(running') PROVE req'[r].status = "RUNNING"
    BY <2>2 DEF RunningOnly
  <2>3. r \in Req /\ req[r].status = "RUNNING" /\ r \notin Acked(b)
    BY <2>1, <2>2, AckedPlans DEF Idle
  <2>4. AfterAck(b, r) = req[r] /\ r \notin AckFinishes(b)
    BY <2>3, AfterAckRecord, AckedPlans
  <2>5. r \notin Stopped(b, eos)
    BY <2>2, <2>3, <2>4 DEF LeftRunning
  <2>6. r \notin Freed(b, eos) /\ r \notin Resumed(b, eos) /\ r \notin Parked(b, eos)
    BY <2>4, <2>5, StoppedParts DEF Freed
  <2> QED BY <2>3, <2>4, <2>6, UpdatedRequests
<1>5. PlansParked' /\ PlansInFlight'
  BY UpdatePlans
<1>6. HotConservation'
  BY UpdateConserves
<1> QED BY <1>2, <1>3, <1>4, <1>5, <1>6 DEF CoreInv
-----------------------------------------------------------------------------
(* The core waits for a result only when there is a step to wait for.       *)
Awaited == phase = "result" => batches # <<>>

\* The inductive invariant.
Inv == CoreInv /\ Awaited

\* The worker adds results to a step and changes nothing else of it.
LEMMA WorkerBatch ==
  ASSUME CoreInv, NEW k \in DOMAIN batches, WorkerStep(k)
  PROVE  /\ batches' \in Seq(BatchRecord) /\ DOMAIN batches' = DOMAIN batches
         /\ batches' # <<>>
         /\ \A i \in DOMAIN batches :
              /\ batches'[i].trans = batches[i].trans /\ batches'[i].sched = batches[i].sched
              /\ i # k => batches'[i] = batches[i]
<1> DEFINE b == batches[k]
           withResult == [b EXCEPT !.results = Append(@, Verdict(b.trans[Len(b.results) + 1]))]
           withDone == [b EXCEPT !.done = TRUE]
<1>1. batches \in Seq(BatchRecord) /\ b \in BatchRecord
  BY LenProperties, ElementOfSeq DEF CoreInv, Typed
<1>2. withResult \in BatchRecord /\ withResult.trans = b.trans /\ withResult.sched = b.sched
  <2>1. Verdict(b.trans[Len(b.results) + 1]) \in {"STALE", "CAPACITY", "SUCCESS"}
    BY DEF Verdict
  <2>2. Append(b.results, Verdict(b.trans[Len(b.results) + 1])) \in Seq({"STALE", "CAPACITY", "SUCCESS"})
    BY <1>1, <2>1, AppendProperties DEF BatchRecord
  <2> HIDE DEF b
  <2> QED BY <1>1, <2>2 DEF BatchRecord
<1>3. withDone \in BatchRecord /\ withDone.trans = b.trans /\ withDone.sched = b.sched
  <2> HIDE DEF b
  <2> QED BY <1>1 DEF BatchRecord
<1>4. PICK nb \in BatchRecord : /\ nb.trans = b.trans /\ nb.sched = b.sched
                                /\ batches' = [batches EXCEPT ![k] = nb]
  <2>1. \/ batches' = [batches EXCEPT ![k] = withResult]
        \/ batches' = [batches EXCEPT ![k] = withDone]
    BY DEF WorkerStep
  <2> HIDE DEF withResult, withDone
  <2> QED BY <1>2, <1>3, <2>1
<1>5. batches' \in Seq(BatchRecord)
  BY <1>1, <1>4, ExceptSeq
<1> QED BY <1>1, <1>4, <1>5, LenProperties

\* The worker keeps the invariant.
LEMMA WorkerKeeps ==
  ASSUME CoreInv, NEW k \in DOMAIN batches, WorkerStep(k)
  PROVE  CoreInv'
<1>1. /\ batches' \in Seq(BatchRecord) /\ DOMAIN batches' = DOMAIN batches
      /\ \A i \in DOMAIN batches : batches'[i].trans = batches[i].trans
  BY WorkerBatch
<1>2. UNCHANGED <<req, running, waiting, skipped, freeBlocks, pending, deferred, numIdle,
                  finishedIds, sent, raised, phase>>
  BY DEF WorkerStep, queues
<1>3. Typed'
  BY <1>1, <1>2 DEF CoreInv, Typed
<1>4. ClientsKnown' /\ RunningOnly' /\ PlansParked'
  BY <1>2 DEF CoreInv, ClientsKnown, LiveOnes, Live, RunningOnly, PlansParked, IsPending, Idle
<1>5. PlansInFlight'
  <2>1. PlansInFlight
    BY DEF CoreInv
  <2> QED BY <1>1, <1>2, <2>1, SMTT(30) DEF PlansInFlight, IsPending
<1>6. HotConservation'
  BY <1>2 DEF CoreInv, HotConservation
<1> QED BY <1>3, <1>4, <1>5, <1>6 DEF CoreInv

\* So does a step that changes nothing of the scheduler.
LEMMA StutterKeeps ==
  ASSUME CoreInv, UNCHANGED schedVars, phase' \in {"input", "result"}
  PROVE  CoreInv'
<1>1. UNCHANGED <<req, running, waiting, skipped, freeBlocks, pending, deferred, numIdle,
                  finishedIds, sent, batches, raised>>
  BY DEF schedVars, queues
<1>2. Typed'
  BY <1>1 DEF CoreInv, Typed
<1>3. ClientsKnown' /\ RunningOnly' /\ PlansParked' /\ PlansInFlight'
  BY <1>1 DEF CoreInv, ClientsKnown, LiveOnes, Live, RunningOnly, PlansParked, PlansInFlight,
              IsPending, Idle
<1>4. HotConservation'
  BY <1>1 DEF CoreInv, HotConservation
<1> QED BY <1>2, <1>3, <1>4 DEF CoreInv

\* Every step keeps it.
LEMMA NextKeeps ==
  ASSUME Inv, [Next]_vars
  PROVE  Inv'
<1> USE DEF Inv
<1>1. CASE ClientCall
  <2>1. UNCHANGED phase /\ phase = "input" 
    BY <1>1 DEF ClientCall
  <2>2. CoreInv'
    <3>1. CASE \E r \in Req : AddRequest(r) \/ SendTurn(r) \/ CloseSession(r)
      BY <2>1, <3>1, AddRequestKeeps, SendTurnKeeps, CloseSessionKeeps
    <3>2. CASE ResetPrefixCache
      BY <2>1, <3>2, ResetKeeps
    <3> QED BY <1>1, <3>1, <3>2 DEF ClientCall
  <2> QED BY <2>1, <2>2 DEF Awaited
<1>2. CASE AbortCall
  <2>1. UNCHANGED phase
    BY <1>2 DEF AbortCall
  <2>2. PICK r \in Req : Abort(r)
    BY <1>2 DEF AbortCall
  <2>3. UNCHANGED batches
    BY <2>2 DEF Abort, Finish
  <2> QED BY <2>1, <2>2, <2>3, AbortKeeps DEF Awaited
<1>3. CASE ScheduleStep
  <2>1. Schedule /\ phase' = IF Len(batches') < Depth /\ HasRequests' THEN "input" ELSE "result"
    BY <1>3 DEF ScheduleStep
  <2>2. CoreInv'
    BY <2>1, ScheduleKeeps
  <2>3. Awaited'
    <3>1. CASE Raise
      <4>1. UNCHANGED <<running, waiting, skipped, numIdle, finishedIds, batches>>
        BY <3>1 DEF Raise, queues
      <4>2. HasRequests' /\ Depth > 0
        BY <2>1, <4>1, DepthAssumption DEF Schedule, HasRequests
      <4>3. batches = <<>> => Len(batches) = 0
        BY EmptySeq
      <4> QED BY <2>1, <4>1, <4>2, <4>3, DepthAssumption DEF Awaited
    <3>2. CASE ~Raise
      <4>1. PICK order, p, k, ids : MaySchedule(order, p, k, ids) /\ SchedulePlan(order, p, k, ids)
        BY <2>1, <3>2, ScheduleCases
      <4>2. batches' # <<>>
        BY <4>1, SchedulePlanUnfolded, NewBatchTyped, AppendBatch DEF CoreInv, Typed
      <4> QED BY <4>2 DEF Awaited
    <3> QED BY <3>1, <3>2
  <2> QED BY <2>2, <2>3
<1>4. CASE AwaitResult
  BY <1>4, StutterKeeps DEF AwaitResult, Awaited, schedVars
<1>5. CASE ExecuteModel
  <2>1. PICK k \in DOMAIN batches : WorkerStep(k)
    BY <1>5 DEF ExecuteModel
  <2> QED BY <2>1, WorkerKeeps, WorkerBatch DEF Awaited
<1>6. CASE UpdateStep
  <2>1. batches # <<>> /\ UpdateFromOutput /\ phase' = "input"
    BY <1>6 DEF UpdateStep, Awaited
  <2>2. CoreInv'
    <3>1. CASE Raise
      BY <2>1, <3>1, RaiseKeeps
    <3>2. ASSUME ~Raise
          PROVE  \E eos : /\ ~UpdateRaises(Head(batches), eos) /\ AfterUpdate(Head(batches), eos)
                          /\ batches' = Tail(batches) /\ UNCHANGED <<sent, raised>>
      BY <2>1, <3>2 DEF UpdateFromOutput
    <3> QED BY <2>1, <3>1, <3>2, UpdateKeeps
  <2> QED BY <2>1, <2>2 DEF Awaited
<1>7. CASE UNCHANGED vars
  <2>1. UNCHANGED schedVars /\ UNCHANGED phase
    BY <1>7 DEF vars
  <2> QED BY <2>1, StutterKeeps DEF Awaited, CoreInv, Typed, schedVars
<1> QED BY <1>1, <1>2, <1>3, <1>4, <1>5, <1>6, <1>7 DEF Next

(* The invariant holds, in every configuration: asynchronous or not, with  *)
(* resets and with clients that do not wait.                               *)
THEOREM CoreInvariant == Spec => []Inv
<1>1. Init => Inv
  BY CoreInit DEF Inv, Awaited, Init, SchedInit
<1>2. Inv /\ [Next]_vars => Inv'
  BY NextKeeps
<1> QED BY <1>1, <1>2, PTL DEF Spec

(* However demotions, commits, preemptions, aborts and resets interleave,  *)
(* every HOT block is free or belongs to one place of one request.         *)
THEOREM HotBlocksConserved == Spec => []HotConservation
<1>1. Inv => HotConservation
  BY DEF Inv, CoreInv
<1> QED BY <1>1, CoreInvariant, PTL
-----------------------------------------------------------------------------
(* A session as TieredSession sees it.                                      *)
View(q, plan) ==
  [phase |-> CASE q.status = "ABSENT"                   -> "gone"
               [] q.status = "IDLE" /\ plan # NoPlan    -> "moving"
               [] q.status = "IDLE" /\ ~(plan # NoPlan) -> "parked"
               [] OTHER                                 -> "active",
   warm |-> WarmIndices(q), aim |-> DOMAIN plan]

\* The refinement mapping, one session at a time.
LEMMA TieredIsView ==
  /\ tiered = [r \in Req |-> View(req[r], pending[r])]
  /\ tiered' = [r \in Req |-> View(req'[r], pending'[r])]
<1>1. tiered = [r \in Req |-> View(req[r], pending[r])]
  <2>1. \A r \in Req : tiered[r] = View(req[r], pending[r])
    BY DEF tiered, View, Live, Idle, IsPending
  <2>2. tiered = [r \in Req |-> tiered[r]]
    BY DEF tiered
  <2> QED BY <2>1, <2>2
<1>2. tiered' = [r \in Req |-> View(req'[r], pending'[r])]
  <2>1. \A r \in Req : tiered'[r] = View(req'[r], pending'[r])
    BY DEF tiered, View, Live, Idle, IsPending
  <2>2. tiered' = [r \in Req |-> tiered'[r]]
    BY DEF tiered
  <2> QED BY <2>1, <2>2
<1> QED BY <1>1, <1>2

\* No plan aims at nothing.
LEMMA NoPlanIsEmpty == DOMAIN NoPlan = {}
BY DEF NoPlan

(* A session without a plan: what may happen to it is work.                 *)
LEMMA ViewOfWork ==
  ASSUME NEW q \in Record, NEW q2 \in Record,
         IF q2.status = "ABSENT" THEN WarmIndices(q2) = {}
         ELSE \/ WarmIndices(q2) = WarmIndices(q)
              \/ q.status \notin {"ABSENT", "IDLE"} /\ WarmIndices(q2) = {}
  PROVE  Tiered!Work(View(q, NoPlan), View(q2, NoPlan))
BY NoPlanIsEmpty DEF View, Tiered!Work

\* A plan for a parked session begins a move.
LEMMA ViewOfBegin ==
  ASSUME NEW q \in Record, q.status = "IDLE", DemotionPlan(q) # NoPlan
  PROVE  Tiered!BeginMove(View(q, NoPlan), View(q, DemotionPlan(q)))
BY NoPlanIsEmpty, DemotionPlanIsPlan DEF View, Tiered!BeginMove

\* A plan that is answered ends it, with all of its blocks or none.
LEMMA ViewOfEnd ==
  ASSUME NEW q \in Record, q.status = "IDLE", NEW plan, plan # NoPlan, NEW q2 \in Record,
         IF q2.status = "ABSENT" THEN WarmIndices(q2) = {}
         ELSE WarmIndices(q2) \in {WarmIndices(q), WarmIndices(q) \cup DOMAIN plan}
  PROVE  Tiered!EndMove(View(q, plan), View(q2, NoPlan))
BY NoPlanIsEmpty DEF View, Tiered!EndMove

\* The view is one of status, blocks and plan.
LEMMA ViewOfSame ==
  ASSUME NEW q, NEW q2, q2.status = q.status, q2.blocks = q.blocks, NEW plan
  PROVE  View(q2, plan) = View(q, plan)
BY SameBlocks DEF View

(* What a step may do to one session.                                       *)
Allowed(r) ==
  \/ req'[r].status = req[r].status /\ req'[r].blocks = req[r].blocks /\ pending'[r] = pending[r]
  \/ /\ pending[r] = NoPlan /\ pending'[r] = NoPlan
     /\ IF req'[r].status = "ABSENT" THEN WarmIndices(req'[r]) = {}
        ELSE \/ WarmIndices(req'[r]) = WarmIndices(req[r])
             \/ req[r].status \notin {"ABSENT", "IDLE"} /\ WarmIndices(req'[r]) = {}
  \/ /\ pending[r] = NoPlan /\ req'[r] = req[r] /\ req[r].status = "IDLE"
     /\ pending'[r] = DemotionPlan(req[r]) /\ DemotionPlan(req[r]) # NoPlan
  \/ /\ req[r].status = "IDLE" /\ pending[r] # NoPlan /\ pending'[r] = NoPlan
     /\ IF req'[r].status = "ABSENT" THEN WarmIndices(req'[r]) = {}
        ELSE WarmIndices(req'[r]) \in {WarmIndices(req[r]), WarmIndices(req[r]) \cup DOMAIN pending[r]}

\* That is a step of the abstract session, or none.
LEMMA AllowedIsChange ==
  ASSUME CoreInv, CoreInv', NEW r \in Req, Allowed(r)
  PROVE  tiered'[r] = tiered[r] \/ Tiered!Change(r)
<1>1. req[r] \in Record /\ req'[r] \in Record
  BY DEF CoreInv, Typed
<1>2. tiered[r] = View(req[r], pending[r]) /\ tiered'[r] = View(req'[r], pending'[r])
  BY TieredIsView
<1>3. CASE req'[r].status = req[r].status /\ req'[r].blocks = req[r].blocks /\ pending'[r] = pending[r]
  BY <1>2, <1>3, ViewOfSame
<1>4. CASE /\ pending[r] = NoPlan /\ pending'[r] = NoPlan
           /\ IF req'[r].status = "ABSENT" THEN WarmIndices(req'[r]) = {}
              ELSE \/ WarmIndices(req'[r]) = WarmIndices(req[r])
                   \/ req[r].status \notin {"ABSENT", "IDLE"} /\ WarmIndices(req'[r]) = {}
  <2>1. Tiered!Work(tiered[r], tiered'[r])
    BY <1>1, <1>2, <1>4, ViewOfWork
  <2> QED BY <2>1 DEF Tiered!Change
<1>5. CASE /\ pending[r] = NoPlan /\ req'[r] = req[r] /\ req[r].status = "IDLE"
           /\ pending'[r] = DemotionPlan(req[r]) /\ DemotionPlan(req[r]) # NoPlan
  <2>1. Tiered!BeginMove(tiered[r], tiered'[r])
    BY <1>1, <1>2, <1>5, ViewOfBegin
  <2> QED BY <2>1 DEF Tiered!Change
<1>6. CASE /\ req[r].status = "IDLE" /\ pending[r] # NoPlan /\ pending'[r] = NoPlan
           /\ IF req'[r].status = "ABSENT" THEN WarmIndices(req'[r]) = {}
              ELSE WarmIndices(req'[r]) \in {WarmIndices(req[r]), WarmIndices(req[r]) \cup DOMAIN pending[r]}
  <2>1. Tiered!EndMove(tiered[r], tiered'[r])
    BY <1>1, <1>2, <1>6, ViewOfEnd
  <2> QED BY <2>1 DEF Tiered!Change
<1> QED BY <1>3, <1>4, <1>5, <1>6 DEF Allowed

\* The view is a session.
LEMMA TieredTyped ==
  ASSUME CoreInv'
  PROVE  tiered' \in [Req -> Tiered!Session]
<1>1. \A r \in Req : req'[r] \in Record /\ pending'[r] \in Plan
  BY DEF CoreInv, Typed
<1>2. \A q \in Record : WarmIndices(q) \in SUBSET (Nat \ {0})
  BY RecordFields DEF WarmIndices
<1>3. \A plan \in Plan : DOMAIN plan \in SUBSET (Nat \ {0})
  BY PlanIsFinite DEF IsPlan
<1>4. \A q \in Record : \A plan \in Plan : View(q, plan) \in Tiered!Session
  BY <1>2, <1>3 DEF View, Tiered!Session, Tiered!Phase
<1> QED BY <1>1, <1>4, TieredIsView

\* It starts as one.
LEMMA TieredInit == Init => Tiered!Init
<1> SUFFICES ASSUME Init PROVE Tiered!Init
  OBVIOUS
<1>1. \A r \in Req : req[r] = Absent /\ pending[r] = NoPlan
  BY DEF Init, SchedInit
<1>2. View(Absent, NoPlan) = [phase |-> "gone", warm |-> {}, aim |-> {}]
  BY AbsentRecord, HeldAreBlocks, NoPlanIsEmpty DEF View
<1> QED BY <1>1, <1>2, TieredIsView DEF Tiered!Init
-----------------------------------------------------------------------------
\* Only idle sessions have plans.
LEMMA IdleOrPlain ==
  ASSUME CoreInv, NEW r \in Req
  PROVE  /\ req[r] \in Record
         /\ req[r].status # "IDLE" => pending[r] = NoPlan
BY DEF CoreInv, Typed, PlansParked, IsPending, Idle

\* finish_requests,
LEMMA FinishAllowed ==
  ASSUME CoreInv, NEW S \in SUBSET Req, \A r \in S : ~IsPending(r), Finish(S)
  PROVE  \A r \in Req : Allowed(r)
<1> SUFFICES ASSUME NEW r \in Req PROVE Allowed(r)
  OBVIOUS
<1>1. pending' = pending /\ req'[r] = IF r \in S THEN Absent ELSE req[r]
  BY DEF Finish
<1>2. r \in S => pending[r] = NoPlan
  BY DEF IsPending
<1> QED BY <1>1, <1>2, AbsentRecord, HeldAreBlocks DEF Allowed

\* an update that waits,
LEMMA QueueAllowed ==
  ASSUME CoreInv, NEW s \in Req, NEW update, Queue(s, update)
  PROVE  \A r \in Req : Allowed(r)
<1> SUFFICES ASSUME NEW r \in Req PROVE Allowed(r)
  OBVIOUS
<1>1. /\ pending' = pending /\ req[r] \in Record
      /\ req' = [req EXCEPT ![s] = [req[s] EXCEPT !.updates = Append(req[s].updates, update)]]
  BY DEF Queue, CoreInv, Typed
<1>2. req'[r].status = req[r].status /\ req'[r].blocks = req[r].blocks
  BY <1>1 DEF CoreInv, Typed, Record
<1> QED BY <1>1, <1>2 DEF Allowed

\* the calls of clients,
LEMMA ClientAllowed ==
  ASSUME CoreInv, NEW s \in Req,
         AddRequest(s) \/ SendTurn(s) \/ CloseSession(s) \/ Abort(s)
  PROVE  \A r \in Req : Allowed(r)
<1>1. CASE AddRequest(s)
  <2> SUFFICES ASSUME NEW r \in Req PROVE Allowed(r)
    OBVIOUS
  <2>1. req'[r] = (IF r = s THEN Arrived ELSE req[r]) /\ pending' = pending
    BY <1>1 DEF AddRequest, CoreInv, Typed
  <2>2. req[s] = Absent
    BY <1>1 DEF AddRequest, CoreInv, ClientsKnown
  <2> QED BY <2>1, <2>2, AbsentRecord, HeldAreBlocks, IdleOrPlain DEF Allowed
<1>2. CASE SendTurn(s)
  <2>1. CASE ~Idle(s) \/ IsPending(s)
    BY <1>2, <2>1, QueueAllowed DEF SendTurn
  <2>2. CASE Idle(s) /\ ~IsPending(s)
    <3> SUFFICES ASSUME NEW r \in Req PROVE Allowed(r)
      OBVIOUS
    <3>1. req'[r] = (IF r = s THEN Resume(req[s]) ELSE req[r]) /\ pending' = pending
      BY <1>2, <2>2 DEF SendTurn, CoreInv, Typed
    <3>2. Resume(req[s]).status = "WAITING" /\ WarmIndices(Resume(req[s])) = WarmIndices(req[s])
      BY IdleOrPlain, ResumeRecord, SameBlocks
    <3> QED BY <2>2, <3>1, <3>2 DEF Allowed, IsPending
  <2> QED BY <2>1, <2>2
<1>3. CASE CloseSession(s)
  <2>1. CASE ~Idle(s) \/ IsPending(s)
    BY <1>3, <2>1, QueueAllowed DEF CloseSession
  <2>2. CASE Idle(s) /\ ~IsPending(s)
    <3>1. Finish({s}) /\ {s} \in SUBSET Req /\ \A r \in {s} : ~IsPending(r)
      BY <1>3, <2>2 DEF CloseSession
    <3> QED BY <3>1, FinishAllowed
  <2> QED BY <2>1, <2>2
<1>4. CASE Abort(s)
  <2>1. CASE IsPending(s)
    <3>1. req' = req /\ pending' = pending
      BY <1>4, <2>1 DEF Abort
    <3> QED BY <3>1 DEF Allowed
  <2>2. CASE ~IsPending(s)
    <3>1. Finish({s}) /\ {s} \in SUBSET Req /\ \A r \in {s} : ~IsPending(r)
      BY <1>4, <2>2 DEF Abort
    <3> QED BY <3>1, FinishAllowed
  <2> QED BY <2>1, <2>2
<1> QED BY <1>1, <1>2, <1>3, <1>4

\* a reset,
LEMMA ResetAllowed ==
  ASSUME CoreInv, ResetPrefixCache
  PROVE  \A r \in Req : Allowed(r)
<1> SUFFICES ASSUME NEW r \in Req PROVE Allowed(r)
  OBVIOUS
<1>1. req'[r] = (IF r \in Range(running) THEN ForcePreempted(req[r]) ELSE req[r])
      /\ pending' = pending
  BY DEF ResetPrefixCache
<1>2. r \in Range(running) => /\ pending[r] = NoPlan /\ req[r].status = "RUNNING"
                              /\ ForcePreempted(req[r]).status = "PREEMPTED"
                              /\ WarmIndices(ForcePreempted(req[r])) = {}
  BY IdleOrPlain, PreemptedRecord, HeldAreBlocks DEF CoreInv, RunningOnly
<1> QED BY <1>1, <1>2 DEF Allowed

\* a scheduled step,
LEMMA SchedulePlanAllowed ==
  ASSUME CoreInv, NEW order, NEW p, NEW k, NEW ids, MaySchedule(order, p, k, ids),
         SchedulePlan(order, p, k, ids)
  PROVE  \A r \in Req : Allowed(r)
<1> SUFFICES ASSUME NEW r \in Req PROVE Allowed(r)
  OBVIOUS
<1>1. req[r] \in Record /\ (req[r].status # "IDLE" => pending[r] = NoPlan)
  BY IdleOrPlain
<1>2. CASE r \in Range(order)
  <2>1. r \in Demotable /\ pending'[r] = DemotionPlan(req[r]) /\ req'[r] = req[r]
    BY <1>2, SchedulePlans, ScheduledRequests
  <2> QED BY <2>1 DEF Allowed, Demotable, Idle, IsPending
<1>3. r \notin Range(order) => pending'[r] = pending[r]
  BY SchedulePlans
<1>4. CASE r \in Range(Victims(p))
  <2>1. /\ req'[r] = Preempted(req[r]) /\ req[r].status = "RUNNING"
        /\ r \notin Range(order)
    BY <1>4, SchedulePlans, ScheduledRequests DEF Demotable, Idle
  <2>2. Preempted(req[r]).status = "PREEMPTED" /\ WarmIndices(Preempted(req[r])) = {}
    BY <1>1, PreemptedRecord, HeldAreBlocks
  <2> QED BY <1>1, <1>3, <2>1, <2>2 DEF Allowed
<1>5. CASE r \in Range(Chosen(p, k))
  <2>1. /\ req'[r] = Scheduled(req[r], Ids(ids, r)) /\ ~IsPending(r) /\ Ids(ids, r) \in Seq(Block)
        /\ r \notin Range(order)
    BY <1>5, SchedulePlans, ScheduledRequests, ChosenProperties, IdsProperties DEF Demotable, Idle
  <2>2. /\ Scheduled(req[r], Ids(ids, r)).status = "RUNNING"
        /\ WarmIndices(Scheduled(req[r], Ids(ids, r))) = WarmIndices(req[r])
    BY <1>1, <2>1, ScheduledRecord, ScheduledBlocks
  <2> QED BY <1>3, <2>1, <2>2 DEF Allowed, IsPending
<1>6. CASE r \notin Range(order) /\ r \notin Range(Victims(p)) /\ r \notin Range(Chosen(p, k))
  BY <1>3, <1>6, ScheduledRequests DEF Allowed
<1> QED BY <1>2, <1>4, <1>5, <1>6

\* a processed answer,
LEMMA UpdateAllowed ==
  ASSUME CoreInv, batches # <<>>, NEW b, b = Head(batches), NEW eos, ~UpdateRaises(b, eos),
         AfterUpdate(b, eos), batches' = Tail(batches)
  PROVE  \A r \in Req : Allowed(r)
<1> SUFFICES ASSUME NEW r \in Req PROVE Allowed(r)
  OBVIOUS
<1>1. req[r] \in Record /\ (req[r].status # "IDLE" => pending[r] = NoPlan)
  BY IdleOrPlain
<1>2. req'[r].status = "ABSENT" => WarmIndices(req'[r]) = {}
  <2>1. CASE r \in Freed(b, eos) \/ r \notin LiveOnes
    BY <2>1, UpdatedRequests, AbsentRecord, HeldAreBlocks
  <2>2. CASE r \notin Freed(b, eos) /\ Live(r)
    <3>1. AfterAck(b, r).status # "ABSENT"
      BY <2>2, AfterAckRecord DEF Freed, Live
    <3> QED BY <2>2, <3>1, UpdatedRequests
  <2> QED BY <2>1, <2>2 DEF LiveOnes
<1>3. req'[r].status # "ABSENT" =>
        WarmIndices(req'[r]) = WarmIndices(req[r]) \cup IF HasMoved(b, r) THEN DOMAIN pending[r] ELSE {}
  <2>1. req'[r].status # "ABSENT" => r \notin Freed(b, eos)
    BY UpdatedRequests, AbsentRecord
  <2> QED BY <2>1, UpdatedRequests, AfterMoveRecord, SameBlocks
<1>4. HasMoved(b, r) => r \in Acked(b)
  BY AfterMoveRecord
<1>5. CASE r \in Acked(b)
  <2>1. req[r].status = "IDLE" /\ pending[r] # NoPlan /\ pending'[r] = NoPlan
    BY <1>5, AckedPlans, UpdatePlans DEF Idle, IsPending
  <2> QED BY <1>2, <1>3, <2>1 DEF Allowed
<1>6. CASE r \notin Acked(b) /\ pending[r] = NoPlan
  <2>1. pending'[r] = NoPlan
    BY <1>6, UpdatePlans
  <2> QED BY <1>2, <1>3, <1>4, <1>6, <2>1 DEF Allowed
<1>7. CASE r \notin Acked(b) /\ pending[r] # NoPlan
  <2>1. pending'[r] = pending[r] /\ req[r].status = "IDLE"
    BY <1>1, <1>7, UpdatePlans
  <2>2. r \notin Ended(b, eos) /\ r \notin Resumed(b, eos) /\ r \notin Freed(b, eos)
    BY <1>7, AckedPlans DEF UpdateRaises, Freed, IsPending
  <2>3. /\ AfterAck(b, r) = req[r] /\ ~HasMoved(b, r) /\ AfterMove(b, r) = req[r]
    BY <1>4, <1>7, AfterAckRecord DEF AfterMove
  <2>4. req'[r].status = "IDLE" /\ req'[r].blocks = req[r].blocks
    BY <2>1, <2>2, <2>3, UpdatedRequests
  <2> QED BY <2>1, <2>4 DEF Allowed
<1> QED BY <1>5, <1>6, <1>7

\* a step of the worker,
LEMMA SameAllowed ==
  ASSUME UNCHANGED <<req, pending>>
  PROVE  \A r \in Req : Allowed(r)
BY DEF Allowed

\* and so every step is allowed.
LEMMA NextAllowed ==
  ASSUME Inv, [Next]_vars
  PROVE  \A r \in Req : Allowed(r)
<1>0. CoreInv
  BY DEF Inv
<1>1. CASE ClientCall
  <2>1. CASE \E r \in Req : AddRequest(r) \/ SendTurn(r) \/ CloseSession(r)
    BY <1>0, <2>1, ClientAllowed
  <2>2. CASE ResetPrefixCache
    BY <1>0, <2>2, ResetAllowed
  <2> QED BY <1>1, <2>1, <2>2 DEF ClientCall
<1>2. CASE AbortCall
  BY <1>0, <1>2, ClientAllowed DEF AbortCall
<1>3. CASE ScheduleStep
  <2>1. CASE Raise
    BY <2>1, SameAllowed DEF Raise
  <2>2. CASE ~Raise
    BY <1>0, <1>3, <2>2, ScheduleCases, SchedulePlanAllowed DEF ScheduleStep
  <2> QED BY <2>1, <2>2
<1>4. CASE AwaitResult
  BY <1>4, SameAllowed DEF AwaitResult, schedVars
<1>5. CASE ExecuteModel
  BY <1>5, SameAllowed DEF ExecuteModel, WorkerStep
<1>6. CASE UpdateStep
  <2>1. CASE Raise
    BY <2>1, SameAllowed DEF Raise
  <2>2. ASSUME ~Raise
        PROVE  \E eos : /\ ~UpdateRaises(Head(batches), eos) /\ AfterUpdate(Head(batches), eos)
                        /\ batches' = Tail(batches)
    BY <1>6, <2>2 DEF UpdateStep, UpdateFromOutput
  <2>3. batches # <<>>
    BY <1>6 DEF Inv, Awaited, UpdateStep
  <2> QED BY <1>0, <2>1, <2>2, <2>3, UpdateAllowed
<1>7. CASE UNCHANGED vars
  BY <1>7, SameAllowed DEF vars, schedVars
<1> QED BY <1>1, <1>2, <1>3, <1>4, <1>5, <1>6, <1>7 DEF Next

(* The engine implements TieredSession: a demotion is one move of a parked *)
(* session, all or nothing, and nothing else happens to it before it is over.*)
THEOREM MovesAreAtomicHolds == Spec => MovesAreAtomic
<1>1. Init => Tiered!Init
  BY TieredInit
<1>2. Inv /\ Inv' /\ [Next]_vars => [Tiered!Next]_tiered
  <2> SUFFICES ASSUME Inv, Inv', [Next]_vars PROVE Tiered!Next
    OBVIOUS
  <2>1. CoreInv /\ CoreInv'
    BY DEF Inv
  <2>2. \A r \in Req : tiered'[r] = tiered[r] \/ Tiered!Change(r)
    BY <2>1, NextAllowed, AllowedIsChange
  <2>3. tiered' \in [Req -> Tiered!Session]
    BY <2>1, TieredTyped
  <2> QED BY <2>2, <2>3 DEF Tiered!Next
<1> QED BY <1>1, <1>2, CoreInvariant, PTL DEF Spec, MovesAreAtomic, Tiered!Spec
-----------------------------------------------------------------------------
\* Whether a request is in the step that is processed next and in the one
\* behind it, and how many answers that makes.
InFirst(r) == 1 \in DOMAIN batches /\ IsScheduled(batches[1], r)
InSecond(r) == 2 \in DOMAIN batches /\ IsScheduled(batches[2], r)
Frames(first, second) == (IF first THEN 1 ELSE 0) + (IF second THEN 1 ELSE 0)

\* The core may go on to schedule.
CoreSchedules == ~raised /\ phase = "input"

\* What a request knows of the answers it is owed: the ones it expects are
\* the tokens it has computed beyond those it has, and only the last one of
\* them may be the last of its turn; one to be discarded is older than one
\* that it expects.
FrameOK(q, maxTokens, first, second, input) ==
  /\ q.placeholders + q.discard = Frames(first, second)
  /\ q.status \in {"WAITING", "IDLE"} => q.placeholders = 0 /\ q.discard = 0
  /\ q.status = "PREEMPTED" => ~second /\ (input => q.placeholders = 0)
  /\ q.status = "RUNNING" =>
       /\ q.computed = q.tokens + q.placeholders - 1
       /\ q.placeholders > 0 \/ q.discard = 0
       /\ q.placeholders = 2 => q.tokens + 1 < q.prompt + maxTokens
       /\ input => q.discard = 0

FramesKnown ==
  /\ DOMAIN batches \subseteq 1 .. 2
  /\ CoreSchedules => 2 \notin DOMAIN batches
  /\ \A k \in DOMAIN batches : \A r \in Req : IsScheduled(batches[k], r) => sent[r] # 0

EveryFrame ==
  \A r \in Req :
    Live(r) => FrameOK(req[r], MaxTokens[r], InFirst(r), InSecond(r), CoreSchedules)

FramesInv == Inv /\ FramesKnown /\ EveryFrame

\* One answer more.
LEMMA FramesValues ==
  /\ Frames(TRUE, FALSE) = Frames(FALSE, FALSE) + 1
  /\ \A f \in BOOLEAN : Frames(f, TRUE) = Frames(f, FALSE) + 1
BY DEF Frames

\* A request that runs with at most one answer to come;
LEMMA RunningFrame ==
  ASSUME NEW q, NEW m, NEW f, NEW s, NEW w, q.status = "RUNNING",
         q.placeholders + q.discard = Frames(f, s), q.discard = 0,
         q.computed = q.tokens + q.placeholders - 1, q.placeholders \in {0, 1}
  PROVE  FrameOK(q, m, f, s, w)
BY DEF FrameOK

\* one that does not run, and expects none.
LEMMA WaitingFrame ==
  ASSUME NEW q, NEW m, NEW f, NEW w, q.status # "RUNNING",
         Frames(f, FALSE) = 0, q.discard = 0, q.placeholders = 0
  PROVE  FrameOK(q, m, f, FALSE, w)
<1>1. q.placeholders + q.discard = 0
  OBVIOUS
<1> QED BY <1>1, Zenon DEF FrameOK

\* A step makes one answer more, and none that could be one too many;
LEMMA ScheduledFrame ==
  ASSUME Async, NEW q \in Record, NEW m \in Nat, NEW ids \in Seq(Block),
         NEW f \in BOOLEAN, FrameOK(q, m, f, FALSE, TRUE),
         q.status \in {"RUNNING", "WAITING", "PREEMPTED"},
         q.status = "RUNNING" => Schedulable(q, m), 
         NEW f2 \in BOOLEAN, NEW s2 \in BOOLEAN, NEW w \in BOOLEAN,
         Frames(f2, s2) = Frames(f, FALSE) + 1, w => ~f
  PROVE  FrameOK(Scheduled(q, ids), m, f2, s2, w)
<1>1. /\ q.tokens \in Nat /\ q.prompt \in Nat /\ q.computed \in Nat
      /\ q.placeholders \in Nat /\ q.discard \in Nat
  BY RecordFields
<1>2. q.placeholders + q.discard <= 1 /\ (w => q.placeholders + q.discard = 0)
  BY <1>1 DEF FrameOK, Frames
<1>3. q.computed + NewTokens(q) = q.tokens + q.placeholders
  BY <1>1 DEF NewTokens, FrameOK
<1>4. /\ Scheduled(q, ids).status = "RUNNING" /\ Scheduled(q, ids).tokens = q.tokens
      /\ Scheduled(q, ids).prompt = q.prompt /\ Scheduled(q, ids).discard = q.discard
      /\ Scheduled(q, ids).computed = q.tokens + q.placeholders
      /\ Scheduled(q, ids).placeholders = q.placeholders + 1
  BY <1>1, <1>3 DEF Scheduled, Record
<1>5. q.placeholders = 1 => q.tokens + 1 < q.prompt + m
  <2>1. q.placeholders = 1 => q.status = "RUNNING" /\ q.computed = q.tokens
    BY <1>1 DEF FrameOK
  <2>2. q.placeholders = 1 => ~(q.computed + 2 - q.placeholders >= q.prompt + m)
    BY <2>1 DEF Schedulable
  <2> QED BY <1>1, <2>1, <2>2
<1>6. q.placeholders + q.discard + 1 = Frames(f2, s2)
  BY <1>1 DEF FrameOK
<1> DEFINE new == Scheduled(q, ids)
<1>7. new.computed = new.tokens + new.placeholders - 1 /\ new.placeholders > 0
  BY <1>1, <1>4
<1>8. new.placeholders = 2 => new.tokens + 1 < new.prompt + m
  BY <1>1, <1>4, <1>5
<1>9. (w => new.discard = 0) /\ new.placeholders + new.discard = Frames(f2, s2)
  <2>1. new.placeholders + new.discard = q.placeholders + q.discard + 1
    BY <1>1, <1>4
  <2>2. w => q.discard = 0
    BY <1>1, <1>2
  <2> QED BY <1>4, <1>6, <2>1, <2>2, Zenon
<1>10. new.status = "RUNNING"
  BY <1>4
<1> HIDE DEF new
<1>11. FrameOK(new, m, f2, s2, w)
  BY <1>7, <1>8, <1>9, <1>10 DEF FrameOK
<1> QED BY <1>11 DEF new

\* a victim keeps the one answer it is owed;
LEMMA PreemptedFrame ==
  ASSUME NEW q \in Record, NEW m, NEW f \in BOOLEAN, FrameOK(q, m, f, FALSE, TRUE),
         q.status = "RUNNING", NEW w \in BOOLEAN, w => ~f
  PROVE  FrameOK(Preempted(q), m, f, FALSE, w)
<1>1. q.placeholders \in Nat /\ q.discard \in Nat
  BY RecordFields
<1>2. /\ Preempted(q).status = "PREEMPTED" /\ Preempted(q).placeholders = q.placeholders
      /\ Preempted(q).discard = q.discard
  BY DEF Preempted, Record
<1> QED BY <1>1, <1>2 DEF FrameOK, Frames

\* and a reset has it discarded.
LEMMA ForcePreemptedFrame ==
  ASSUME NEW q \in Record, NEW m, NEW f \in BOOLEAN, FrameOK(q, m, f, FALSE, TRUE),
         q.status = "RUNNING"
  PROVE  FrameOK(ForcePreempted(q), m, f, FALSE, TRUE)
<1>1. q.placeholders \in Nat /\ q.discard \in Nat /\ q.discard = 0
  BY RecordFields DEF FrameOK
<1>2. /\ ForcePreempted(q).status = "PREEMPTED" /\ ForcePreempted(q).placeholders = 0
      /\ ForcePreempted(q).discard = q.placeholders
  BY DEF ForcePreempted, Preempted, Record
<1> QED BY <1>1, <1>2 DEF FrameOK, Frames

\* An answer that stops no turn leaves the ones behind it;
LEMMA SampledFrame ==
  ASSUME Async, NEW q \in Record, NEW m \in Nat, NEW s \in BOOLEAN, FrameOK(q, m, TRUE, s, FALSE),
         q.status # "ABSENT", q.discard = 0 => ~LengthStop(Sampled(q), m)
  PROVE  FrameOK(Sampled(q), m, s, FALSE, TRUE)
<1>1. /\ q.tokens \in Nat /\ q.prompt \in Nat /\ q.computed \in Nat
      /\ q.placeholders \in Nat /\ q.discard \in Nat /\ q.status \in Status
  BY RecordFields
<1>2. q.placeholders + q.discard = 1 + (IF s THEN 1 ELSE 0)
  BY DEF FrameOK, Frames
<1>3. q.status \in {"RUNNING", "PREEMPTED"}
  BY <1>1, <1>2 DEF FrameOK, Status
<1>4. CASE q.discard > 0
  <2>1. Sampled(q) = [q EXCEPT !.discard = q.discard - 1]
    BY <1>4 DEF Sampled
  <2>2. /\ Sampled(q).discard = q.discard - 1 /\ Sampled(q).placeholders = q.placeholders
        /\ Sampled(q).tokens = q.tokens /\ Sampled(q).prompt = q.prompt
        /\ Sampled(q).computed = q.computed /\ Sampled(q).status = q.status
    BY <2>1 DEF Record
  <2>3. q.status = "RUNNING" => q.discard = 1 /\ q.placeholders = 1
    BY <1>1, <1>2, <1>4 DEF FrameOK
  <2>4. q.status = "PREEMPTED" => q.discard = 1 /\ q.placeholders = 0 /\ ~s
    BY <1>1, <1>2, <1>4 DEF FrameOK
  <2> QED BY <1>1, <1>2, <1>3, <2>2, <2>3, <2>4 DEF FrameOK, Frames
<1>5. CASE ~(q.discard > 0)
  <2>1. Sampled(q) = [q EXCEPT !.tokens = q.tokens + 1, !.placeholders = q.placeholders - 1]
    BY <1>5 DEF Sampled
  <2>2. /\ Sampled(q).discard = 0 /\ Sampled(q).placeholders = q.placeholders - 1
        /\ Sampled(q).tokens = q.tokens + 1 /\ Sampled(q).prompt = q.prompt
        /\ Sampled(q).computed = q.computed /\ Sampled(q).status = q.status
    BY <1>1, <1>5, <2>1 DEF Record
  <2>3. q.status = "PREEMPTED" => q.placeholders = 1 /\ ~s
    BY <1>1, <1>2, <1>5 DEF FrameOK
  <2>4. q.placeholders = 1 + (IF s THEN 1 ELSE 0)
    BY <1>1, <1>2, <1>5
  <2> DEFINE new == Sampled(q)
  <2>5. new.placeholders + new.discard = Frames(s, FALSE) /\ new.placeholders \in {0, 1}
    BY <2>2, <2>4 DEF Frames
  <2>6. q.status = "RUNNING" => new.computed = new.tokens + new.placeholders - 1
    BY <1>1, <2>2 DEF FrameOK
  <2>7. new.status = q.status /\ new.discard = 0 /\ (q.status = "PREEMPTED" => new.placeholders = 0)
    BY <2>2, <2>3
  <2> HIDE DEF new
  <2>8. q.status = "RUNNING" => FrameOK(new, m, s, FALSE, TRUE)
    BY <2>5, <2>6, <2>7, RunningFrame
  <2>9. q.status = "PREEMPTED" => FrameOK(new, m, s, FALSE, TRUE)
    <3>1. q.status = "PREEMPTED" => Frames(s, FALSE) = 0
      BY <2>3 DEF Frames
    <3> QED BY <2>7, <3>1, WaitingFrame
  <2> QED BY <1>3, <2>8, <2>9 DEF new
<1> QED BY <1>4, <1>5

\* one that stops the turn is the last one.
LEMMA StoppedFrame ==
  ASSUME Async, NEW q \in Record, NEW m \in Nat, NEW s \in BOOLEAN, FrameOK(q, m, TRUE, s, FALSE),
         q.status # "ABSENT", q.discard = 0, LengthStop(Sampled(q), m)
  PROVE  ~s /\ Sampled(q).placeholders = 0 /\ Sampled(q).discard = 0
<1>1. /\ q.tokens \in Nat /\ q.prompt \in Nat /\ q.computed \in Nat
      /\ q.placeholders \in Nat /\ q.status \in Status
  BY RecordFields
<1>2. q.placeholders = 1 + (IF s THEN 1 ELSE 0)
  BY <1>1 DEF FrameOK, Frames
<1>3. /\ Sampled(q).discard = 0 /\ Sampled(q).placeholders = q.placeholders - 1
      /\ Sampled(q).tokens = q.tokens + 1 /\ Sampled(q).prompt = q.prompt
  BY <1>1 DEF Sampled, Record
<1>4. ~(q.tokens + 1 < q.prompt + m)
  BY <1>1, <1>3 DEF LengthStop
<1>5. q.status \in {"RUNNING", "PREEMPTED"}
  BY <1>1, <1>2 DEF FrameOK, Status
<1>6. q.placeholders # 2
  BY <1>1, <1>2, <1>4, <1>5 DEF FrameOK
<1> QED BY <1>2, <1>3, <1>6

\* An answer to another request.
LEMMA ShiftedFrame ==
  ASSUME NEW q \in Record, NEW m, NEW s \in BOOLEAN, FrameOK(q, m, FALSE, s, FALSE)
  PROVE  FrameOK(q, m, s, FALSE, TRUE)
<1>1. q.placeholders \in Nat /\ q.discard \in Nat
  BY RecordFields
<1> QED BY <1>1 DEF FrameOK, Frames
-----------------------------------------------------------------------------
\* What leaves the steps in flight alone,
LEMMA FramesStay ==
  ASSUME FramesKnown, UNCHANGED <<batches, raised, phase>>,
         \A r \in Req : sent'[r] = 0 => sent[r] = 0,
         \A r \in Req : Live(r)' =>
           FrameOK(req'[r], MaxTokens[r], InFirst(r), InSecond(r), CoreSchedules)
  PROVE  FramesKnown' /\ EveryFrame'
BY DEF FramesKnown, EveryFrame, InFirst, InSecond, CoreSchedules

\* finish_requests,
LEMMA FinishFrames ==
  ASSUME FramesInv, NEW S \in SUBSET Req, Finish(S), UNCHANGED phase,
         \A r \in Req : sent'[r] = 0 => sent[r] = 0
  PROVE  FramesKnown' /\ EveryFrame'
<1>1. UNCHANGED <<batches, raised>> /\ \A r \in Req : req'[r] = IF r \in S THEN Absent ELSE req[r]
  BY DEF Finish
<1>2. \A r \in Req : Live(r)' => Live(r) /\ req'[r] = req[r]
  BY <1>1, AbsentRecord DEF Live
<1> QED BY <1>1, <1>2, FramesStay DEF FramesInv, EveryFrame

\* the other calls of a client,
LEMMA CallFrames ==
  ASSUME FramesInv, NEW r \in Req, NEW q, req' = [req EXCEPT ![r] = q],
         UNCHANGED <<batches, raised, phase>>, \A s \in Req : sent'[s] = 0 => sent[s] = 0,
         FrameOK(q, MaxTokens[r], InFirst(r), InSecond(r), CoreSchedules)
  PROVE  FramesKnown' /\ EveryFrame'
<1>1. DOMAIN req = Req
  BY DEF FramesInv, Inv, CoreInv, Typed
<1>2. \A s \in Req : req'[s] = IF s = r THEN q ELSE req[s]
  BY <1>1
<1>3. \A s \in Req : Live(s)' =>
           FrameOK(req'[s], MaxTokens[s], InFirst(s), InSecond(s), CoreSchedules)
  BY <1>2 DEF FramesInv, EveryFrame, Live
<1> QED BY <1>3, FramesStay DEF FramesInv

\* which all leave the frames of the others alone,
LEMMA ClientFrames ==
  ASSUME FramesInv, NEW r \in Req, AddRequest(r) \/ SendTurn(r) \/ CloseSession(r) \/ Abort(r),
         UNCHANGED phase
  PROVE  FramesKnown' /\ EveryFrame'
<1>1. sent \in [Req -> 0 .. MaxTurns + 1] /\ req[r] \in Record
  BY DEF FramesInv, Inv, CoreInv, Typed
<1>2. ASSUME NEW n \in Nat, n > 0, sent' = [sent EXCEPT ![r] = n]
      PROVE  \A s \in Req : sent'[s] = 0 => sent[s] = 0
  BY <1>1, <1>2
<1>3. MaxTurns + 1 \in Nat /\ MaxTurns + 1 > 0 /\ sent[r] + 1 \in Nat /\ sent[r] + 1 > 0
  BY <1>1, LimitAssumption
<1>4. ASSUME NEW update, Queue(r, update), Live(r), \A s \in Req : sent'[s] = 0 => sent[s] = 0
      PROVE  FramesKnown' /\ EveryFrame'
  <2> DEFINE q == [req[r] EXCEPT !.updates = Append(@, update)]
  <2>1. FrameOK(req[r], MaxTokens[r], InFirst(r), InSecond(r), CoreSchedules)
    BY <1>4 DEF FramesInv, EveryFrame
  <2>2. /\ q.status = req[r].status /\ q.tokens = req[r].tokens /\ q.prompt = req[r].prompt
        /\ q.computed = req[r].computed /\ q.placeholders = req[r].placeholders
        /\ q.discard = req[r].discard
    BY <1>1 DEF Record
  <2>3. req' = [req EXCEPT ![r] = q] /\ UNCHANGED <<batches, raised>>
    BY <1>4 DEF Queue
  <2> HIDE DEF q
  <2>4. FrameOK(q, MaxTokens[r], InFirst(r), InSecond(r), CoreSchedules)
    BY <2>1, <2>2 DEF FrameOK
  <2> QED BY <1>4, <2>3, <2>4, CallFrames
<1>5. CASE AddRequest(r)
  <2>1. /\ req' = [req EXCEPT ![r] = Arrived] /\ UNCHANGED <<batches, raised>>
        /\ sent' = [sent EXCEPT ![r] = 1] /\ sent[r] = 0
    BY <1>5 DEF AddRequest
  <2>2. ~InFirst(r) /\ ~InSecond(r)
    BY <2>1 DEF FramesInv, FramesKnown, InFirst, InSecond
  <2>3. Frames(InFirst(r), InSecond(r)) = 0
    BY <2>2 DEF Frames
  <2>4. FrameOK(Arrived, MaxTokens[r], InFirst(r), InSecond(r), CoreSchedules)
    BY <2>2, <2>3, AbsentRecord DEF FrameOK
  <2>5. \A s \in Req : sent'[s] = 0 => sent[s] = 0
    BY <1>2, <2>1
  <2> QED BY <2>1, <2>4, <2>5, CallFrames
<1>6. CASE SendTurn(r)
  <2>1. \A s \in Req : sent'[s] = 0 => sent[s] = 0
    BY <1>2, <1>3, <1>6 DEF SendTurn
  <2>2. CASE ~Idle(r) \/ IsPending(r)
    BY <1>4, <1>6, <2>1, <2>2 DEF SendTurn, MaySend
  <2>3. CASE Idle(r) /\ ~IsPending(r)
    <3>1. req' = [req EXCEPT ![r] = Resume(req[r])] /\ UNCHANGED <<batches, raised>>
      BY <1>6, <2>3 DEF SendTurn
    <3>2. FrameOK(req[r], MaxTokens[r], InFirst(r), InSecond(r), CoreSchedules)
      BY <2>3 DEF FramesInv, EveryFrame, Live, Idle
    <3>3. FrameOK(Resume(req[r]), MaxTokens[r], InFirst(r), InSecond(r), CoreSchedules)
      BY <1>1, <2>3, <3>2, ResumeRecord DEF FrameOK, Idle
    <3> QED BY <2>1, <3>1, <3>3, CallFrames
  <2> QED BY <2>2, <2>3
<1>7. CASE CloseSession(r)
  <2>1. \A s \in Req : sent'[s] = 0 => sent[s] = 0
    BY <1>2, <1>3, <1>7 DEF CloseSession
  <2>2. CASE ~Idle(r) \/ IsPending(r)
    BY <1>4, <1>7, <2>1, <2>2 DEF CloseSession, MaySend
  <2>3. CASE Idle(r) /\ ~IsPending(r)
    BY <1>7, <2>1, <2>3, FinishFrames DEF CloseSession
  <2> QED BY <2>2, <2>3
<1>8. CASE Abort(r)
  <2>1. \A s \in Req : sent'[s] = 0 => sent[s] = 0
    BY <1>2, <1>3, <1>8 DEF Abort
  <2>2. CASE IsPending(r)
    <3>1. UNCHANGED <<req, batches, raised>>
      BY <1>8, <2>2 DEF Abort
    <3>2. \A s \in Req : Live(s)' => FrameOK(req'[s], MaxTokens[s], InFirst(s), InSecond(s), CoreSchedules)
      BY <3>1 DEF FramesInv, EveryFrame, Live
    <3> QED BY <2>1, <3>1, <3>2, FramesStay DEF FramesInv
  <2>3. CASE ~IsPending(r)
    BY <1>8, <2>1, <2>3, FinishFrames DEF Abort
  <2> QED BY <2>2, <2>3
<1> QED BY <1>5, <1>6, <1>7, <1>8

\* and a reset.
LEMMA ResetFrames ==
  ASSUME FramesInv, ResetPrefixCache, ~raised, phase = "input", UNCHANGED phase
  PROVE  FramesKnown' /\ EveryFrame'
<1>1. /\ UNCHANGED <<batches, raised, sent>>
      /\ \A r \in Req : req'[r] = IF r \in Range(running) THEN ForcePreempted(req[r]) ELSE req[r]
  BY DEF ResetPrefixCache
<1>2. \A r \in Range(running) : r \in Req /\ req[r].status = "RUNNING"
  BY RangeOfSeq DEF FramesInv, Inv, CoreInv, Typed, RunningOnly
<1>3. CoreSchedules /\ \A r \in Req : ~InSecond(r)
  BY DEF FramesInv, FramesKnown, CoreSchedules, InSecond
<1>4. ASSUME NEW r \in Req, Live(r)'
      PROVE  FrameOK(req'[r], MaxTokens[r], InFirst(r), InSecond(r), CoreSchedules)
  <2>1. Live(r)
    BY <1>1, <1>2, <1>4 DEF Live
  <2>2. FrameOK(req[r], MaxTokens[r], InFirst(r), InSecond(r), CoreSchedules) /\ req[r] \in Record
    BY <2>1 DEF FramesInv, EveryFrame, Inv, CoreInv, Typed
  <2>3. CASE r \in Range(running)
    <3>1. InFirst(r) \in BOOLEAN /\ InSecond(r) = FALSE /\ CoreSchedules = TRUE
      BY <1>3 DEF InFirst, InSecond, CoreSchedules
    <3>2. FrameOK(req[r], MaxTokens[r], InFirst(r), FALSE, TRUE)
      BY <2>2, <3>1, Zenon
    <3>3. FrameOK(ForcePreempted(req[r]), MaxTokens[r], InFirst(r), FALSE, TRUE)
      BY <1>2, <2>2, <2>3, <3>1, <3>2, ForcePreemptedFrame
    <3> QED BY <1>1, <2>3, <3>1, <3>3, Zenon
  <2>4. CASE r \notin Range(running)
    BY <1>1, <2>2, <2>4
  <2> QED BY <2>3, <2>4
<1> QED BY <1>1, <1>4, FramesStay DEF FramesInv
-----------------------------------------------------------------------------
\* A step behind at most one other.
LEMMA ScheduleFrames ==
  ASSUME Async, FramesInv, ~raised, phase = "input",
         NEW order, NEW p, NEW k, NEW ids, MaySchedule(order, p, k, ids),
         SchedulePlan(order, p, k, ids), UNCHANGED <<sent, raised>>,
         phase' = IF Len(batches') < Depth /\ HasRequests' THEN "input" ELSE "result"
  PROVE  FramesKnown' /\ EveryFrame'
<1> DEFINE n == Len(batches)
           C == Range(Chosen(p, k))
           V == Range(Victims(p))
           b == NewBatch(order, p, k, ids)
<1>1. CoreInv /\ batches \in Seq(BatchRecord) /\ FramesKnown /\ EveryFrame /\ Depth = 2
  BY DepthAssumption DEF FramesInv, Inv, CoreInv, Typed
<1>2. /\ n \in Nat /\ DOMAIN batches = 1 .. n /\ DOMAIN batches' = 1 .. n + 1
      /\ Len(batches') = n + 1
      /\ \A i \in 1 .. n : batches'[i] = batches[i]
      /\ batches'[n + 1] = b
  <2>1. batches' = Append(batches, b) /\ b \in BatchRecord
    BY <1>1, SchedulePlanUnfolded, NewBatchTyped
  <2> HIDE DEF b
  <2> QED BY <1>1, <2>1, AppendBatch, LenProperties
<1>3. n \in {0, 1}
  BY <1>1, <1>2 DEF FramesKnown, CoreSchedules
<1>4. C \subseteq LiveOnes /\ C \cap V = {}
      /\ \A r \in C : req[r].status = "RUNNING" => Schedulable(req[r], MaxTokens[r])
  <2>1. /\ Range(Wanting(p)) \subseteq {r \in Req : Schedulable(req[r], MaxTokens[r])}
    <3>1. Kept(p) \in Seq(Req)
      BY <1>1, SplitRunning DEF MaySchedule
    <3> QED BY <3>1, OnlyProperties DEF Wanting
  <2>2. \A r \in Range(First(k)) : req[r].status # "RUNNING"
    BY <1>1, ChosenProperties
  <2>3. /\ C \cap V = {} /\ C = Range(Wanting(p)) \cup Range(First(k))
        /\ \A r \in C : r \in Req /\ req[r].status \in {"RUNNING", "WAITING", "PREEMPTED"}
    BY <1>1, ChosenProperties
  <2> HIDE DEF C, V
  <2>4. C \subseteq LiveOnes
    BY <2>3 DEF LiveOnes, Live
  <2> QED BY <2>1, <2>2, <2>3, <2>4
<1>5. \A r : IsScheduled(b, r) <=> r \in C
  BY DEF IsScheduled, NewBatch, NewEntry, Range
<1> HIDE DEF n, C, V, b
<1>6. FramesKnown'
  <2>1. \A r \in C : sent[r] # 0
    BY <1>1, <1>4 DEF CoreInv, ClientsKnown, LiveOnes
  <2>2. DOMAIN batches' \subseteq 1 .. 2
    BY <1>2, <1>3
  <2>3. 2 \in DOMAIN batches' => phase' = "result"
    BY <1>1, <1>2, <1>3
  <2>4. \A j \in DOMAIN batches' : j \in DOMAIN batches \/ j = n + 1
    BY <1>2
  <2>5. \A j \in DOMAIN batches' : \A r \in Req : IsScheduled(batches'[j], r) => sent'[r] # 0
    BY <1>1, <1>2, <1>5, <2>1, <2>4 DEF FramesKnown
  <2> QED BY <2>2, <2>3, <2>5 DEF FramesKnown, CoreSchedules
<1>7. ASSUME NEW r \in Req
      PROVE  /\ InSecond(r) = FALSE /\ CoreSchedules = TRUE
             /\ InFirst(r) \in BOOLEAN /\ InFirst(r)' \in BOOLEAN /\ InSecond(r)' \in BOOLEAN
             /\ CoreSchedules' \in BOOLEAN /\ (CoreSchedules' => ~InFirst(r))
             /\ r \in C => Frames(InFirst(r)', InSecond(r)') = Frames(InFirst(r), FALSE) + 1
             /\ r \notin C => InFirst(r)' = InFirst(r) /\ InSecond(r)' = FALSE
  <2>1. /\ InSecond(r) = FALSE /\ CoreSchedules = TRUE
        /\ InFirst(r) \in BOOLEAN /\ InFirst(r)' \in BOOLEAN /\ InSecond(r)' \in BOOLEAN
        /\ CoreSchedules' \in BOOLEAN
    BY <1>2, <1>3 DEF InFirst, InSecond, CoreSchedules
  <2>2. CASE n = 0
    <3>1. 1 \notin DOMAIN batches /\ 1 \in DOMAIN batches' /\ 2 \notin DOMAIN batches' /\ batches'[1] = b
      BY <1>2, <2>2
    <3>2. InFirst(r) = FALSE /\ InFirst(r)' = (r \in C) /\ InSecond(r)' = FALSE
      BY <1>5, <3>1 DEF InFirst, InSecond
    <3>3. r \in C => InFirst(r)' = TRUE
      BY <3>2
    <3>4. r \in C => Frames(InFirst(r)', InSecond(r)') = Frames(InFirst(r), FALSE) + 1
      BY <3>2, <3>3, FramesValues, Zenon
    <3> QED BY <2>1, <3>2, <3>4
  <2>3. CASE n = 1
    <3>1. /\ 1 \in DOMAIN batches /\ 1 \in DOMAIN batches' /\ 2 \in DOMAIN batches'
          /\ batches'[1] = batches[1] /\ batches'[2] = b
      BY <1>2, <2>3
    <3>2. InFirst(r)' = InFirst(r) /\ InSecond(r)' = (r \in C)
      BY <1>5, <3>1 DEF InFirst, InSecond
    <3>3. CoreSchedules' = FALSE
      BY <1>1, <1>2, <2>3 DEF CoreSchedules
    <3>4. r \in C => InSecond(r)' = TRUE
      BY <3>2
    <3>5. r \in C => Frames(InFirst(r)', InSecond(r)') = Frames(InFirst(r), FALSE) + 1
      BY <2>1, <3>2, <3>4, FramesValues, Zenon
    <3>6. r \notin C => InSecond(r)' = FALSE
      BY <2>1, <3>2
    <3> QED BY <2>1, <3>2, <3>3, <3>5, <3>6, Zenon
  <2> QED BY <1>3, <2>2, <2>3
<1>8. ASSUME NEW r \in Req, Live(r)'
      PROVE  FrameOK(req'[r], MaxTokens[r], InFirst(r)', InSecond(r)', CoreSchedules')
  <2>1. req[r] \in Record /\ MaxTokens[r] \in Nat
    BY <1>1, Sizes DEF CoreInv, Typed
  <2>2. Live(r)
    BY <1>1, <1>4, <1>8, ScheduledRequests DEF C, V, Live, LiveOnes
  <2>3. FrameOK(req[r], MaxTokens[r], InFirst(r), FALSE, TRUE)
    BY <1>1, <1>7, <2>2, Zenon DEF EveryFrame
  <2>4. CASE r \in C
    <3>1. req'[r] = Scheduled(req[r], Ids(ids, r)) /\ Ids(ids, r) \in Seq(Block)
          /\ req[r].status \in {"RUNNING", "WAITING", "PREEMPTED"}
      BY <1>1, <2>4, ScheduledRequests, IdsProperties, ChosenProperties DEF C
    <3>2. /\ InFirst(r) \in BOOLEAN /\ InFirst(r)' \in BOOLEAN /\ InSecond(r)' \in BOOLEAN
          /\ CoreSchedules' \in BOOLEAN /\ (CoreSchedules' => ~InFirst(r))
          /\ Frames(InFirst(r)', InSecond(r)') = Frames(InFirst(r), FALSE) + 1
      BY <1>7, <2>4, Zenon
    <3>3. req[r].status = "RUNNING" => Schedulable(req[r], MaxTokens[r])
      BY <1>4, <2>4
    <3>4. FrameOK(Scheduled(req[r], Ids(ids, r)), MaxTokens[r], InFirst(r)', InSecond(r)',
                  CoreSchedules')
      BY <2>1, <2>3, <3>1, <3>2, <3>3, ScheduledFrame
    <3> QED BY <3>1, <3>4, Zenon
  <2>5. CASE r \in V
    <3>1. req'[r] = Preempted(req[r]) /\ req[r].status = "RUNNING" /\ r \notin C
      BY <1>1, <1>4, <2>5, ScheduledRequests DEF V
    <3>2. FrameOK(req'[r], MaxTokens[r], InFirst(r), FALSE, CoreSchedules')
      BY <1>7, <2>1, <2>3, <3>1, PreemptedFrame
    <3> QED BY <1>7, <3>1, <3>2, Zenon
  <2>6. CASE r \notin C /\ r \notin V
    <3>1. req'[r] = req[r]
      BY <1>1, <2>6, ScheduledRequests DEF C, V
    <3>2. FrameOK(req[r], MaxTokens[r], InFirst(r), FALSE, CoreSchedules')
      BY <2>3 DEF FrameOK
    <3> QED BY <1>7, <2>6, <3>1, <3>2, Zenon
  <2> QED BY <2>4, <2>5, <2>6
<1> QED BY <1>6, <1>8 DEF EveryFrame

\* An answer goes to each request of the step that is left;
LEMMA OutputsAreScheduled ==
  ASSUME CoreInv, batches # <<>>, NEW b, b = Head(batches), NEW r \in Req
  PROVE  r \in Range(Outputs(b)) <=> IsScheduled(b, r) /\ AfterAck(b, r).status # "ABSENT"
<1> DEFINE ids == [k \in DOMAIN b.sched |-> b.sched[k].req]
           S == {s \in Req : AfterAck(b, s).status # "ABSENT"}
<1>1. b.sched \in Seq(SchedEntry)
  BY OldestBatch DEF BatchRecord
<1>2. ids \in Seq(Req)
  <2>1. DOMAIN b.sched = 1 .. Len(b.sched) /\ Len(b.sched) \in Nat
        /\ \A k \in DOMAIN b.sched : b.sched[k] \in SchedEntry
    BY <1>1, LenProperties, ElementOfSeq
  <2>2. \A k \in DOMAIN b.sched : b.sched[k].req \in Req
    BY <2>1 DEF SchedEntry
  <2> QED BY <2>1, <2>2
<1>3. Outputs(b) = Only(ids, S)
  BY DEF Outputs
<1>4. r \in Range(ids) <=> IsScheduled(b, r)
  BY DEF Range, IsScheduled
<1>5. r \in S <=> AfterAck(b, r).status # "ABSENT"
  OBVIOUS
<1> HIDE DEF ids, S
<1>6. Range(Outputs(b)) = Range(ids) \cap S
  BY <1>2, <1>3, OnlyProperties
<1> QED BY <1>4, <1>5, <1>6

\* and an answered transition changes no count of answers.
LEMMA AckCounts ==
  ASSUME NEW b, NEW r \in Req, req[r] \in Record, r \notin AckFinishes(b)
  PROVE  /\ AfterAck(b, r).placeholders = req[r].placeholders
         /\ AfterAck(b, r).discard = req[r].discard
<1>1. AfterAck(b, r).placeholders = req[r].placeholders
  BY DEF AfterAck, Committed, Resume, Record
<1>2. AfterAck(b, r).discard = req[r].discard
  BY DEF AfterAck, Committed, Resume, Record
<1> QED BY <1>1, <1>2

\* The answer of the oldest step, when only the length stops a turn.
LEMMA UpdateFrames ==
  ASSUME Async, FramesInv, phase = "result", phase' = "input", batches # <<>>,
         NEW b, b = Head(batches), ~UpdateRaises(b, {}), AfterUpdate(b, {}),
         batches' = Tail(batches), UNCHANGED <<sent, raised>>
  PROVE  FramesKnown' /\ EveryFrame'
<1>1. CoreInv /\ FramesKnown /\ EveryFrame
  BY DEF FramesInv, Inv
<1>2. /\ b = batches[1] /\ 1 \in DOMAIN batches /\ DOMAIN batches \subseteq 1 .. 2
      /\ \A i \in DOMAIN batches' : i + 1 \in DOMAIN batches /\ batches'[i] = batches[i + 1]
      /\ \A i \in DOMAIN batches : i # 1 => i - 1 \in DOMAIN batches'
      /\ batches' \in Seq(BatchRecord)
  BY <1>1, OldestBatch DEF FramesKnown
<1>3. DOMAIN batches' \subseteq {1} /\ 2 \notin DOMAIN batches' /\ (1 \in DOMAIN batches' <=> 2 \in DOMAIN batches)
      /\ (1 \in DOMAIN batches' => batches'[1] = batches[2])
  <2>1. DOMAIN batches' \subseteq Nat
    BY <1>2, LenProperties
  <2>2. \A i \in DOMAIN batches' : i \in Nat /\ i + 1 \in 1 .. 2 /\ i + 1 \in DOMAIN batches
    BY <1>2, <2>1
  <2>3. \A i \in DOMAIN batches' : i = 0 \/ i = 1
    BY <2>2
  <2>4. 0 \notin DOMAIN batches'
    BY <1>2, LenProperties
  <2>5. 2 \notin DOMAIN batches' /\ DOMAIN batches' \subseteq {1}
    <3>1. \A i \in DOMAIN batches' : i = 1
      BY <2>3, <2>4, Zenon
    <3>2. 2 # 1
      OBVIOUS
    <3> QED BY <3>1, <3>2, Zenon
  <2>6. 1 \in DOMAIN batches' <=> 2 \in DOMAIN batches
    BY <1>2, <2>2
  <2> QED BY <1>2, <2>5, <2>6
<1>4. FramesKnown'
  <2>1. \A i \in DOMAIN batches' : i = 1 /\ batches'[i] = batches[2] /\ 2 \in DOMAIN batches
    BY <1>3
  <2>2. DOMAIN batches' \subseteq 1 .. 2 /\ 2 \notin DOMAIN batches'
    <3>1. {1} \subseteq 1 .. 2
      OBVIOUS
    <3> QED BY <1>3, <3>1, Zenon
  <2>3. \A s \in Req : 2 \in DOMAIN batches /\ IsScheduled(batches[2], s) => sent[s] # 0
    BY <1>1 DEF FramesKnown
  <2>4. \A i \in DOMAIN batches' : \A s \in Req : IsScheduled(batches'[i], s) => sent'[s] # 0
    BY <2>1, <2>3
  <2> QED BY <2>2, <2>4 DEF FramesKnown
<1>5. ASSUME NEW r \in Req
      PROVE  /\ InFirst(r)' = InSecond(r) /\ InSecond(r)' = FALSE /\ CoreSchedules = FALSE
             /\ InFirst(r) <=> IsScheduled(b, r)
             /\ InSecond(r) \in BOOLEAN /\ InFirst(r) \in BOOLEAN
  <2>1. /\ InSecond(r) \in BOOLEAN /\ InFirst(r) \in BOOLEAN /\ CoreSchedules \in BOOLEAN
        /\ InSecond(r)' \in BOOLEAN /\ InFirst(r)' \in BOOLEAN
    BY DEF InFirst, InSecond, CoreSchedules
  <2>2. InFirst(r) <=> IsScheduled(b, r)
    BY <1>2 DEF InFirst
  <2>3. InFirst(r)' <=> InSecond(r)
    BY <1>3 DEF InFirst, InSecond
  <2>4. ~InSecond(r)' /\ ~CoreSchedules
    BY <1>3, Zenon DEF InSecond, CoreSchedules
  <2> QED BY <2>1, <2>2, <2>3, <2>4
<1>6. ASSUME NEW r \in Req, Live(r)'
      PROVE  FrameOK(req'[r], MaxTokens[r], InSecond(r), FALSE, CoreSchedules')
  <2> DEFINE q == req[r]
             m == MaxTokens[r]
  <2>1. Live(r) /\ r \notin Freed(b, {})
    BY <1>1, <1>6, UpdatedRequests, AbsentRecord DEF Live, LiveOnes
  <2>2. q \in Record /\ m \in Nat /\ q.status # "ABSENT"
    BY <1>1, <2>1, Sizes DEF CoreInv, Typed, Live
  <2>3. FrameOK(q, m, InFirst(r), InSecond(r), FALSE)
    BY <1>1, <1>5, <2>1, Zenon DEF EveryFrame
  <2>4. req'[r] = CASE r \in Resumed(b, {}) -> Resume(Popped(AfterToken(b, r)))
                    [] r \in Parked(b, {})  -> AsIdle(AfterToken(b, r))
                    [] OTHER                 -> AfterToken(b, r)
    BY <2>1, AfterUpdateRequests
  <2>5. CASE r \in Acked(b)
    <3>1. q.status = "IDLE" /\ r \notin AckFinishes(b)
      BY <1>1, <2>1, <2>5, AckedPlans DEF Idle, Freed
    <3>2. q.placeholders = 0 /\ q.discard = 0 /\ ~InFirst(r) /\ ~InSecond(r)
      <4>1. q.placeholders = 0 /\ q.discard = 0 /\ Frames(InFirst(r), InSecond(r)) = 0
        BY <2>3, <3>1 DEF FrameOK
      <4> QED BY <4>1 DEF Frames
    <3>3. r \notin Range(Outputs(b))
      BY <1>1, <1>5, <3>2, OutputsAreScheduled
    <3>4. req'[r] = AfterAck(b, r)
      BY <1>1, <2>4, <3>3, StoppedParts DEF AfterToken
    <3>5. /\ AfterAck(b, r).status \in {"IDLE", "WAITING"}
          /\ AfterAck(b, r).placeholders = 0 /\ AfterAck(b, r).discard = 0
      BY <1>1, <2>2, <3>1, <3>2, AfterAckRecord, AckCounts
    <3>6. Frames(InSecond(r), FALSE) = 0
      BY <3>2 DEF Frames
    <3> QED BY <3>4, <3>5, <3>6, WaitingFrame
  <2>6. CASE r \notin Acked(b)
    <3>1. AfterAck(b, r) = q
      BY <1>1, <2>6, AfterAckRecord
    <3>2. r \in Range(Outputs(b)) <=> InFirst(r)
      BY <1>1, <1>5, <2>2, <3>1, OutputsAreScheduled
    <3>3. CASE ~InFirst(r)
      <4>1. req'[r] = q
        BY <1>1, <2>4, <3>1, <3>2, <3>3, StoppedParts DEF AfterToken
      <4>2. FrameOK(q, m, InSecond(r), FALSE, TRUE)
        <5>1. FrameOK(q, m, FALSE, InSecond(r), FALSE)
          BY <1>5, <2>3, <3>3, Zenon
        <5> QED BY <1>5, <2>2, <5>1, ShiftedFrame
      <4> QED BY <4>1, <4>2 DEF FrameOK
    <3>4. ASSUME InFirst(r) PROVE FrameOK(q, m, TRUE, InSecond(r), FALSE)
      BY <1>5, <2>3, <3>4, Zenon
    <3>5. CASE InFirst(r) /\ ~(q.discard = 0 /\ LengthStop(Sampled(q), m))
      <4>1. AfterToken(b, r) = Sampled(q) /\ r \notin Stopped(b, {})
        BY <3>1, <3>2, <3>5 DEF AfterToken, Stopped
      <4>2. req'[r] = Sampled(q)
        BY <1>1, <2>4, <4>1, StoppedParts
      <4>3. FrameOK(Sampled(q), m, InSecond(r), FALSE, TRUE)
        BY <1>5, <2>2, <3>4, <3>5, SampledFrame
      <4> QED BY <4>2, <4>3 DEF FrameOK
    <3>6. CASE InFirst(r) /\ q.discard = 0 /\ LengthStop(Sampled(q), m)
      <4>1. AfterToken(b, r) = Sampled(q) /\ r \in Stopped(b, {})
        BY <3>1, <3>2, <3>6 DEF AfterToken, Stopped
      <4>2. ~InSecond(r) /\ Sampled(q).placeholders = 0 /\ Sampled(q).discard = 0
        BY <1>5, <2>2, <3>4, <3>6, StoppedFrame
      <4>3. r \in Resumed(b, {}) \/ r \in Parked(b, {})
        BY <2>1, <4>1 DEF Parked, Freed
      <4>4. req'[r].status # "RUNNING" /\ req'[r].placeholders = 0 /\ req'[r].discard = 0
        <5>1. AfterToken(b, r) \in Record
          BY <1>1, AfterTokenRecord
        <5>2. CASE r \in Resumed(b, {})
          <6>1. Popped(Sampled(q)) \in Record
            BY <1>1, <4>1, <5>1, <5>2, StoppedParts, PoppedRecord
          <6>2. /\ Popped(Sampled(q)).placeholders = Sampled(q).placeholders
                /\ Popped(Sampled(q)).discard = Sampled(q).discard
            BY <4>1, <5>1 DEF Popped, Record
          <6>3. req'[r] = Resume(Popped(Sampled(q)))
            BY <1>1, <2>4, <4>1, <5>2, StoppedParts
          <6> DEFINE popped == Popped(Sampled(q))
          <6> HIDE DEF popped
          <6>4. /\ Resume(popped).status = "WAITING" /\ Resume(popped).discard = popped.discard
                /\ Resume(popped).placeholders = popped.placeholders
            BY <6>1, ResumeRecord DEF popped
          <6> QED BY <4>2, <6>2, <6>3, <6>4 DEF popped
        <5>3. CASE r \notin Resumed(b, {})
          <6>1. req'[r] = AsIdle(Sampled(q))
            BY <2>4, <4>1, <4>3, <5>3
          <6> QED BY <4>1, <4>2, <5>1, <6>1 DEF AsIdle, Record
        <5> QED BY <5>2, <5>3
      <4>5. Frames(InSecond(r), FALSE) = 0
        BY <4>2 DEF Frames
      <4> QED BY <4>4, <4>5, WaitingFrame
    <3> QED BY <3>3, <3>5, <3>6
  <2> QED BY <2>5, <2>6
<1>7. \A r \in Req : Live(r)' =>
        FrameOK(req'[r], MaxTokens[r], InFirst(r)', InSecond(r)', CoreSchedules')
  BY <1>5, <1>6, Zenon
<1> QED BY <1>4, <1>7 DEF EveryFrame

\* What only keeps the core from scheduling.
LEMMA FramesWait ==
  ASSUME EveryFrame, UNCHANGED <<req, batches>>, CoreSchedules' = FALSE
  PROVE  EveryFrame'
<1> SUFFICES ASSUME NEW r \in Req, Live(r)
             PROVE  FrameOK(req[r], MaxTokens[r], InFirst(r), InSecond(r), FALSE)
  BY DEF EveryFrame, InFirst, InSecond, Live
<1>1. FrameOK(req[r], MaxTokens[r], InFirst(r), InSecond(r), CoreSchedules)
  BY DEF EveryFrame
<1> QED BY <1>1 DEF FrameOK

\* What raises in a step,
LEMMA RaisedFrames ==
  ASSUME FramesInv, Raise
  PROVE  FramesKnown' /\ EveryFrame'
<1>1. UNCHANGED <<req, sent, batches>> /\ raised' = TRUE
  BY DEF Raise
<1>2. FramesKnown'
  BY <1>1 DEF FramesInv, FramesKnown, CoreSchedules
<1>3. CoreSchedules' = FALSE
  BY <1>1 DEF CoreSchedules
<1> QED BY <1>1, <1>2, <1>3, FramesWait DEF FramesInv

\* the wait for a result,
LEMMA WaitingFrames ==
  ASSUME FramesInv, UNCHANGED <<req, sent, batches, raised>>, phase' = "result"
  PROVE  FramesKnown' /\ EveryFrame'
<1>1. CoreSchedules' = FALSE
  BY DEF CoreSchedules
<1>2. FramesKnown'
  BY <1>1 DEF FramesInv, FramesKnown
<1> QED BY <1>1, <1>2, FramesWait DEF FramesInv

\* and the worker, which answers a step without changing what it runs.
LEMMA WorkerFrames ==
  ASSUME FramesInv, NEW k \in DOMAIN batches, WorkerStep(k)
  PROVE  FramesKnown' /\ EveryFrame'
<1>1. /\ DOMAIN batches' = DOMAIN batches
      /\ \A i \in DOMAIN batches : batches'[i].sched = batches[i].sched
  BY WorkerBatch DEF FramesInv, Inv
<1>2. UNCHANGED <<req, sent, raised, phase>>
  BY DEF WorkerStep
<1>3. \A i \in DOMAIN batches : \A r : IsScheduled(batches'[i], r) <=> IsScheduled(batches[i], r)
  BY <1>1 DEF IsScheduled
<1>4. FramesKnown'
  BY <1>1, <1>2, <1>3 DEF FramesInv, FramesKnown, CoreSchedules
<1>5. \A r \in Req : InFirst(r)' = InFirst(r) /\ InSecond(r)' = InSecond(r)
  <2> SUFFICES ASSUME NEW r \in Req PROVE InFirst(r)' = InFirst(r) /\ InSecond(r)' = InSecond(r)
    OBVIOUS
  <2>1. /\ InSecond(r) \in BOOLEAN /\ InFirst(r) \in BOOLEAN
        /\ InSecond(r)' \in BOOLEAN /\ InFirst(r)' \in BOOLEAN
    BY DEF InFirst, InSecond
  <2>2. (InFirst(r)' <=> InFirst(r)) /\ (InSecond(r)' <=> InSecond(r))
    BY <1>1, <1>3 DEF InFirst, InSecond
  <2> QED BY <2>1, <2>2
<1>6. CoreSchedules' = CoreSchedules
  BY <1>2 DEF CoreSchedules
<1>7. \A r \in Req : Live(r)' <=> Live(r)
  BY <1>2 DEF Live
<1> QED BY <1>2, <1>4, <1>5, <1>6, <1>7, Zenon DEF FramesInv, EveryFrame

\* The count of the property is the one of the two steps.
LEMMA FramesCounted ==
  ASSUME FramesInv, NEW r \in Req, Live(r)
  PROVE  req[r].placeholders + req[r].discard =
           Cardinality({k \in DOMAIN batches : IsScheduled(batches[k], r)})
<1> DEFINE K == {k \in DOMAIN batches : IsScheduled(batches[k], r)}
<1>1. DOMAIN batches \subseteq 1 .. 2
  BY DEF FramesInv, FramesKnown
<1>2. K = {k \in {1} : InFirst(r)} \cup {k \in {2} : InSecond(r)}
  BY <1>1 DEF InFirst, InSecond
<1>3. Cardinality(K) = Frames(InFirst(r), InSecond(r))
  <2>1. /\ Cardinality({}) = 0 /\ Cardinality({1}) = 1 /\ Cardinality({2}) = 1
        /\ Cardinality({1, 2}) = 2
    <3>1. Cardinality({}) = 0
      BY FS_EmptySet
    <3>2. /\ Cardinality({1}) = 1 /\ Cardinality({2}) = 1 /\ IsFiniteSet({1})
      BY FS_Singleton
    <3>3. Cardinality({1} \cup {2}) = Cardinality({1}) + 1
      BY <3>2, FS_AddElement
    <3>4. {1} \cup {2} = {1, 2}
      OBVIOUS
    <3> QED BY <3>1, <3>2, <3>3, <3>4
  <2> HIDE DEF K
  <2>2. CASE InFirst(r) /\ InSecond(r)
    <3>1. K = {1, 2}
      BY <1>2, <2>2
    <3> QED BY <2>1, <2>2, <3>1 DEF Frames
  <2>3. CASE InFirst(r) /\ ~InSecond(r)
    <3>1. K = {1}
      BY <1>2, <2>3
    <3> QED BY <2>1, <2>3, <3>1 DEF Frames
  <2>4. CASE ~InFirst(r) /\ InSecond(r)
    <3>1. K = {2}
      BY <1>2, <2>4
    <3> QED BY <2>1, <2>4, <3>1 DEF Frames
  <2>5. CASE ~InFirst(r) /\ ~InSecond(r)
    <3>1. K = {}
      BY <1>2, <2>5
    <3> QED BY <2>1, <2>5, <3>1 DEF Frames
  <2> QED BY <2>2, <2>3, <2>4, <2>5
<1> QED BY <1>3 DEF FramesInv, EveryFrame, FrameOK

\* Every step keeps the frames, unless the model may stop a turn early.
LEMMA FramesKept ==
  ASSUME Async, ~EosStops, FramesInv, [Next]_vars
  PROVE  FramesInv'
<1>0. CoreInv /\ FramesKnown /\ EveryFrame /\ Inv'
  BY NextKeeps DEF FramesInv, Inv
<1>1. CASE ClientCall
  <2>1. ~raised /\ phase = "input" /\ UNCHANGED phase
    BY <1>1 DEF ClientCall
  <2> QED BY <1>0, <1>1, <2>1, ClientFrames, ResetFrames DEF ClientCall, FramesInv
<1>2. CASE AbortCall
  BY <1>0, <1>2, ClientFrames DEF AbortCall, FramesInv
<1>3. CASE ScheduleStep
  <2>1. /\ ~raised /\ phase = "input" /\ Schedule
        /\ phase' = IF Len(batches') < Depth /\ HasRequests' THEN "input" ELSE "result"
    BY <1>3 DEF ScheduleStep
  <2>2. CASE Raise
    BY <1>0, <2>2, RaisedFrames DEF FramesInv
  <2>3. CASE ~Raise
    <3>1. PICK order, p, k, ids :
            /\ MaySchedule(order, p, k, ids) /\ SchedulePlan(order, p, k, ids)
            /\ UNCHANGED <<sent, raised>>
      BY <2>1, <2>3, ScheduleCases
    <3> QED BY <1>0, <2>1, <3>1, ScheduleFrames DEF FramesInv
  <2> QED BY <2>2, <2>3
<1>4. CASE AwaitResult
  <2>1. UNCHANGED <<req, sent, batches, raised>> /\ phase' = "result"
    BY <1>4 DEF AwaitResult, schedVars
  <2> QED BY <1>0, <2>1, WaitingFrames DEF FramesInv
<1>5. CASE ExecuteModel
  <2>1. PICK k \in DOMAIN batches : WorkerStep(k)
    BY <1>5 DEF ExecuteModel
  <2> QED BY <1>0, <2>1, WorkerFrames DEF FramesInv
<1>6. CASE UpdateStep
  <2>1. batches # <<>> /\ UpdateFromOutput /\ phase = "result" /\ phase' = "input"
    BY <1>6 DEF UpdateStep, Awaited, FramesInv, Inv
  <2>2. CASE Raise
    BY <1>0, <2>2, RaisedFrames DEF FramesInv
  <2>3. CASE ~Raise
    <3>1. /\ ~UpdateRaises(Head(batches), {}) /\ AfterUpdate(Head(batches), {})
          /\ batches' = Tail(batches) /\ UNCHANGED <<sent, raised>>
      BY <2>1, <2>3 DEF UpdateFromOutput
    <3> QED BY <1>0, <2>1, <3>1, UpdateFrames DEF FramesInv
  <2> QED BY <2>2, <2>3
<1>7. CASE UNCHANGED vars
  BY <1>0, <1>7, FramesStay DEF vars, schedVars, FramesInv, EveryFrame, Live
<1> QED BY <1>1, <1>2, <1>3, <1>4, <1>5, <1>6, <1>7 DEF Next

\* At the start nothing is in flight.
LEMMA FramesInit ==
  ASSUME Init
  PROVE  FramesInv
<1>1. Inv
  BY CoreInit DEF Inv, Awaited, Init, SchedInit
<1>2. batches = <<>> /\ \A r \in Req : ~Live(r)
  BY AbsentRecord DEF Init, SchedInit, Live
<1> QED BY <1>1, <1>2 DEF FramesInv, FramesKnown, EveryFrame

(* A live request is owed as many answers as it expects or has to discard, *)
(* however steps, aborts, resets and eager clients interleave, as long as  *)
(* a turn ends by its length alone: when the model ends one with an answer *)
(* in flight, the count is wrong.                                          *)
THEOREM FramesAccountedHolds == ASSUME ~EosStops PROVE Spec => []FramesAccounted
<1>1. CASE ~Async
  <2>1. FramesAccounted
    BY <1>1 DEF FramesAccounted
  <2> QED BY <2>1, PTL
<1>2. CASE Async
  <2>1. Init => FramesInv
    BY FramesInit
  <2>2. FramesInv /\ [Next]_vars => FramesInv'
    BY <1>2, FramesKept
  <2>3. FramesInv => FramesAccounted
    BY FramesCounted DEF FramesAccounted
  <2> QED BY <2>1, <2>2, <2>3, PTL DEF Spec
<1> QED BY <1>1, <1>2
=============================================================================
