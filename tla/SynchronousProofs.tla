------------------------- MODULE SynchronousProofs --------------------------
(***************************************************************************)
(* What holds of synchronous scheduling: one step at a time, so that no    *)
(* call meets a step in flight.  At the end of the module, how much of it  *)
(* is true of steps scheduled ahead as well: no call raises while only the *)
(* length of a turn stops it, and no request is lost or queued twice while *)
(* clients wait for their answers too (README.md says what happens else).  *)
(***************************************************************************)
EXTENDS HierarchicalKVProofs

\* The sessions that wait for a client.
IdleOnes == {r \in Req : Idle(r)}

\* QueueMembership, with one conjunct per queue.
QueueSets ==
  /\ IsInjective(running) /\ IsInjective(waiting) /\ IsInjective(skipped)
  /\ Range(waiting) \cap Range(skipped) = {}
  /\ Range(running) = {r \in Req : req[r].status = "RUNNING"}
  /\ Range(waiting) \cup Range(skipped) =
       {r \in Req : req[r].status \in {"WAITING", "IDLE", "PREEMPTED"}}
  /\ Range(waiting) \cap {r \in Req : req[r].status = "IDLE"} = {}

\* numIdle counts them.
IdleCounted == numIdle = Cardinality(IdleOnes)

\* It is the same predicate, before and after a step.
LEMMA QueueMembershipIsSets ==
  /\ Typed => (QueueMembership <=> QueueSets /\ IdleCounted)
  /\ Typed' => (QueueMembership' <=> QueueSets' /\ IdleCounted')
<1>1. Typed => (QueueMembership <=> QueueSets /\ IdleCounted)
  <2> SUFFICES ASSUME Typed PROVE QueueMembership <=> QueueSets /\ IdleCounted
    OBVIOUS
  <2>1. waiting \in Seq(Req) /\ skipped \in Seq(Req)
    BY DEF Typed
  <2>2. /\ Range(skipped \o waiting) = Range(skipped) \cup Range(waiting)
        /\ IsInjective(skipped \o waiting) <=>
             IsInjective(skipped) /\ IsInjective(waiting) /\ Range(skipped) \cap Range(waiting) = {}
    BY <2>1, RangeConcatenation, ConcatInjective, ConcatInjectiveParts
  <2>3. (Range(skipped) \cap Range(waiting) = {}) <=> (Range(waiting) \cap Range(skipped) = {})
    OBVIOUS
  <2>4. Range(skipped) \cup Range(waiting) = Range(waiting) \cup Range(skipped)
    OBVIOUS
  <2> QED BY <2>2, <2>3, <2>4 DEF QueueMembership, QueueSets, IdleCounted, IdleOnes, Idle
<1>2. Typed' => (QueueMembership' <=> QueueSets' /\ IdleCounted')
  <2> SUFFICES ASSUME Typed' PROVE QueueMembership' <=> QueueSets' /\ IdleCounted'
    OBVIOUS
  <2>1. waiting' \in Seq(Req) /\ skipped' \in Seq(Req)
    BY DEF Typed
  <2>2. /\ Range(skipped' \o waiting') = Range(skipped') \cup Range(waiting')
        /\ IsInjective(skipped' \o waiting') <=>
             IsInjective(skipped') /\ IsInjective(waiting') /\ Range(skipped') \cap Range(waiting') = {}
    BY <2>1, RangeConcatenation, ConcatInjective, ConcatInjectiveParts
  <2>3. (Range(skipped') \cap Range(waiting') = {}) <=> (Range(waiting') \cap Range(skipped') = {})
    OBVIOUS
  <2>4. Range(skipped') \cup Range(waiting') = Range(waiting') \cup Range(skipped')
    OBVIOUS
  <2> QED BY <2>2, <2>3, <2>4 DEF QueueMembership, QueueSets, IdleCounted, IdleOnes, Idle
<1> QED BY <1>1, <1>2

(* Some idle sessions leave and others become idle.                         *)
LEMMA CountAfter ==
  ASSUME NEW I, IsFiniteSet(I), NEW A \in SUBSET I, NEW P, IsFiniteSet(P), P \cap I = {},
         NEW J, J = (I \ A) \cup P
  PROVE  Cardinality(J) = Cardinality(I) + Cardinality(P) - Cardinality(A)
<1>1. IsFiniteSet(A) /\ Cardinality(A) \in Nat /\ Cardinality(I) \in Nat /\ Cardinality(P) \in Nat
  BY FS_Subset, FS_CardinalityType
<1>2. IsFiniteSet(I \ A) /\ Cardinality(I \ A) = Cardinality(I) - Cardinality(I \cap A)
  BY FS_Difference
<1>3. I \cap A = A
  OBVIOUS
<1>4. Cardinality((I \ A) \cup P) = Cardinality(I \ A) + Cardinality(P) - Cardinality((I \ A) \cap P)
  BY <1>2, FS_Union
<1>5. Cardinality((I \ A) \cap P) = 0
  <2>1. (I \ A) \cap P = {}
    OBVIOUS
  <2> QED BY <2>1, FS_EmptySet
<1>6. Cardinality(I \ A) = Cardinality(I) - Cardinality(A)
  BY <1>2, <1>3
<1>7. Cardinality(J) = Cardinality(I) - Cardinality(A) + Cardinality(P) - 0
  BY <1>4, <1>5, <1>6
<1> QED BY <1>1, <1>7

\* They are finitely many.
LEMMA IdleFinite ==
  ASSUME CoreInv
  PROVE  IsFiniteSet(IdleOnes) /\ IdleOnes \in SUBSET LiveOnes
<1>1. IdleOnes \in SUBSET LiveOnes
  BY DEF IdleOnes, LiveOnes, Idle, Live
<1> QED BY <1>1, LiveFinite

\* finish_requests keeps the queues and the count.
LEMMA FinishQueues ==
  ASSUME CoreInv, QueueSets, IdleCounted, NEW S \in SUBSET Req, Finish(S)
  PROVE  QueueSets' /\ IdleCounted'
<1> DEFINE active == {r \in S : req[r].status = "RUNNING"}
<1>1. \A r \in Req : req'[r].status = IF r \in S THEN "ABSENT" ELSE req[r].status
  BY AbsentRecord DEF Finish
<1>2. /\ IsInjective(running') /\ Range(running') = Range(running) \ active
      /\ IsInjective(waiting') /\ Range(waiting') = Range(waiting) \ (S \ active)
      /\ IsInjective(skipped') /\ Range(skipped') = Range(skipped) \ (S \ active)
  BY WithoutSubset DEF CoreInv, Typed, QueueSets, Finish
<1>3. QueueSets'
  <2>1. Range(running') = {r \in Req : req'[r].status = "RUNNING"}
    BY <1>1, <1>2 DEF QueueSets
  <2>2. Range(waiting') \cap Range(skipped') = {}
    BY <1>2 DEF QueueSets
  <2>3. Range(waiting') \cup Range(skipped') = (Range(waiting) \cup Range(skipped)) \ (S \ active)
    BY <1>2
  <2>4. Range(waiting') \cup Range(skipped') =
           {r \in Req : req'[r].status \in {"WAITING", "IDLE", "PREEMPTED"}}
    BY <1>1, <2>3 DEF QueueSets
  <2>5. Range(waiting') \cap {r \in Req : req'[r].status = "IDLE"} = {}
    BY <1>1, <1>2 DEF QueueSets
  <2> HIDE DEF active
  <2> QED BY <1>2, <2>1, <2>2, <2>4, <2>5 DEF QueueSets
<1>4. IdleCounted'
  <2> DEFINE A == {r \in S : Idle(r)}
  <2>1. IdleOnes' = (IdleOnes \ A) \cup {}
    BY <1>1 DEF IdleOnes, Idle
  <2>2. A \in SUBSET IdleOnes
    BY DEF IdleOnes
  <2>3. numIdle' = numIdle - Cardinality(A)
    BY DEF Finish
  <2> HIDE DEF A
  <2>4. IsFiniteSet({}) /\ Cardinality({}) = 0
    BY FS_EmptySet
  <2>5. Cardinality(IdleOnes') = Cardinality(IdleOnes) + Cardinality({}) - Cardinality(A)
    BY <2>1, <2>2, <2>4, IdleFinite, CountAfter
  <2>6. Cardinality(A) \in Nat /\ Cardinality(IdleOnes) \in Nat
    BY <2>2, IdleFinite, FS_Subset, FS_CardinalityType
  <2> QED BY <2>3, <2>4, <2>5, <2>6 DEF IdleCounted
<1> QED BY <1>3, <1>4

\* So does a step that changes no status.
LEMMA SameStatusQueues ==
  ASSUME QueueSets, IdleCounted, UNCHANGED <<running, waiting, skipped, numIdle>>,
         \A r \in Req : req'[r].status = req[r].status
  PROVE  QueueSets' /\ IdleCounted'
<1>1. QueueSets'
  BY DEF QueueSets
<1>2. IdleOnes' = IdleOnes
  BY DEF IdleOnes, Idle
<1> QED BY <1>1, <1>2 DEF IdleCounted

\* The calls of clients keep them.
LEMMA ClientQueues ==
  ASSUME CoreInv, QueueSets, IdleCounted, NEW s \in Req,
         AddRequest(s) \/ SendTurn(s) \/ CloseSession(s) \/ Abort(s)
  PROVE  QueueSets' /\ IdleCounted'
<1>1. CASE AddRequest(s)
  <2>1. req'[s].status = "WAITING" /\ (\A r \in Req : r # s => req'[r] = req[r])
    BY <1>1, AbsentRecord DEF AddRequest, CoreInv, Typed
  <2>2. req[s].status = "ABSENT"
    BY <1>1, AbsentRecord DEF AddRequest, CoreInv, ClientsKnown
  <2>3. waiting' = Append(waiting, s) /\ UNCHANGED <<running, skipped, numIdle>>
    BY <1>1 DEF AddRequest
  <2>4. s \notin Range(waiting) /\ s \notin Range(skipped)
    BY <2>2 DEF QueueSets
  <2>5. IsInjective(waiting') /\ Range(waiting') = Range(waiting) \cup {s}
    BY <2>3, <2>4, AppendRange DEF QueueSets, CoreInv, Typed
  <2>6. QueueSets'
    <3>1. Range(running) = {r \in Req : req'[r].status = "RUNNING"}
      BY <2>1, <2>2 DEF QueueSets
    <3>2. Range(waiting') \cup Range(skipped) =
            {r \in Req : req'[r].status \in {"WAITING", "IDLE", "PREEMPTED"}}
      BY <2>1, <2>2, <2>5 DEF QueueSets
    <3>3. Range(waiting') \cap Range(skipped) = {}
      BY <2>4, <2>5 DEF QueueSets
    <3>4. Range(waiting') \cap {r \in Req : req'[r].status = "IDLE"} = {}
      BY <2>1, <2>2, <2>5 DEF QueueSets
    <3> QED BY <2>3, <2>5, <3>1, <3>2, <3>3, <3>4 DEF QueueSets
  <2>7. IdleOnes' = IdleOnes
    BY <2>1, <2>2 DEF IdleOnes, Idle
  <2> QED BY <2>3, <2>6, <2>7 DEF IdleCounted
<1>2. ASSUME NEW update, Queue(s, update) PROVE QueueSets' /\ IdleCounted'
  <2>1. /\ req' = [req EXCEPT ![s] = [req[s] EXCEPT !.updates = Append(req[s].updates, update)]]
        /\ UNCHANGED <<running, waiting, skipped, numIdle>>
    BY <1>2 DEF Queue, queues
  <2>2. \A r \in Req : req'[r].status = req[r].status
    BY <2>1 DEF CoreInv, Typed, Record
  <2> QED BY <2>1, <2>2, SameStatusQueues
<1>3. CASE SendTurn(s)
  <2>1. CASE ~Idle(s) \/ IsPending(s)
    BY <1>2, <1>3, <2>1 DEF SendTurn
  <2>2. CASE Idle(s) /\ ~IsPending(s)
    <3>1. /\ req' = [req EXCEPT ![s] = Resume(req[s])] /\ numIdle' = numIdle - 1
          /\ UNCHANGED <<running, waiting, skipped>>
      BY <1>3, <2>2 DEF SendTurn, queues
    <3>2. req[s].status = "IDLE" /\ req[s] \in Record
      BY <2>2 DEF Idle, CoreInv, Typed
    <3>3. Resume(req[s]).status = "WAITING"
      BY <3>2, ResumeRecord
    <3>4. \A r \in Req : req'[r] = IF r = s THEN Resume(req[s]) ELSE req[r]
      BY <3>1 DEF CoreInv, Typed
    <3>5. QueueSets'
      <4>1. {r \in Req : req'[r].status = "RUNNING"} = {r \in Req : req[r].status = "RUNNING"}
        BY <3>2, <3>3, <3>4
      <4>2. {r \in Req : req'[r].status \in {"WAITING", "IDLE", "PREEMPTED"}} =
              {r \in Req : req[r].status \in {"WAITING", "IDLE", "PREEMPTED"}}
        BY <3>2, <3>3, <3>4
      <4>3. {r \in Req : req'[r].status = "IDLE"} \subseteq {r \in Req : req[r].status = "IDLE"}
        BY <3>2, <3>3, <3>4
      <4> QED BY <3>1, <4>1, <4>2, <4>3 DEF QueueSets
    <3>6. IdleOnes' = (IdleOnes \ {s}) \cup {}
      BY <3>2, <3>3, <3>4 DEF IdleOnes, Idle
    <3>7. {s} \in SUBSET IdleOnes
      BY <2>2 DEF IdleOnes
    <3>8. IsFiniteSet({}) /\ Cardinality({}) = 0 /\ Cardinality({s}) = 1
      BY FS_EmptySet, FS_Singleton
    <3>9. Cardinality(IdleOnes') = Cardinality(IdleOnes) + Cardinality({}) - Cardinality({s})
      BY <3>6, <3>7, <3>8, IdleFinite, CountAfter
    <3>10. Cardinality(IdleOnes) \in Nat
      BY IdleFinite, FS_CardinalityType
    <3> QED BY <3>1, <3>5, <3>8, <3>9, <3>10 DEF IdleCounted
  <2> QED BY <2>1, <2>2
<1>4. CASE CloseSession(s)
  <2>1. CASE ~Idle(s) \/ IsPending(s)
    BY <1>2, <1>4, <2>1 DEF CloseSession
  <2>2. CASE Idle(s) /\ ~IsPending(s)
    <3>1. Finish({s}) /\ {s} \in SUBSET Req
      BY <1>4, <2>2 DEF CloseSession
    <3> QED BY <3>1, FinishQueues
  <2> QED BY <2>1, <2>2
<1>5. CASE Abort(s)
  <2>1. CASE IsPending(s)
    <3>1. UNCHANGED <<req, running, waiting, skipped, numIdle>>
      BY <1>5, <2>1 DEF Abort, queues
    <3> QED BY <3>1, SameStatusQueues
  <2>2. CASE ~IsPending(s)
    <3>1. Finish({s}) /\ {s} \in SUBSET Req
      BY <1>5, <2>2 DEF Abort
    <3> QED BY <3>1, FinishQueues
  <2> QED BY <2>1, <2>2
<1> QED BY <1>1, <1>3, <1>4, <1>5

\* A reset keeps them.
LEMMA ResetQueues ==
  ASSUME CoreInv, QueueSets, IdleCounted, ResetPrefixCache
  PROVE  QueueSets' /\ IdleCounted'
<1>1. \A r \in Req : req'[r] = IF r \in Range(running) THEN ForcePreempted(req[r]) ELSE req[r]
  BY DEF ResetPrefixCache
<1>2. \A r \in Req : r \in Range(running) => req[r].status = "RUNNING" /\ req'[r].status = "PREEMPTED"
  BY <1>1, PreemptedRecord DEF QueueSets, CoreInv, Typed
<1>3. /\ waiting' = running \o waiting /\ running' = <<>> /\ UNCHANGED <<skipped, numIdle>>
      /\ running \in Seq(Req) /\ waiting \in Seq(Req) /\ skipped \in Seq(Req)
  BY DEF ResetPrefixCache, CoreInv, Typed
<1>4. Range(running) \cap Range(waiting) = {} /\ Range(running) \cap Range(skipped) = {}
  BY DEF QueueSets
<1>5. IsInjective(waiting') /\ Range(waiting') = Range(running) \cup Range(waiting)
  BY <1>3, <1>4, ConcatInjective, RangeConcatenation DEF QueueSets
<1>6. IsInjective(running') /\ Range(running') = {}
  BY <1>3 DEF IsInjective, Range
<1>7. QueueSets'
  <2>1. Range(running') = {r \in Req : req'[r].status = "RUNNING"}
    BY <1>1, <1>2, <1>6 DEF QueueSets
  <2>2. Range(waiting') \cup Range(skipped') =
          {r \in Req : req'[r].status \in {"WAITING", "IDLE", "PREEMPTED"}}
    BY <1>1, <1>2, <1>3, <1>5 DEF QueueSets
  <2>3. Range(waiting') \cap {r \in Req : req'[r].status = "IDLE"} = {}
    BY <1>1, <1>2, <1>5 DEF QueueSets
  <2>4. Range(waiting') \cap Range(skipped') = {}
    BY <1>3, <1>4, <1>5 DEF QueueSets
  <2> QED BY <1>3, <1>5, <1>6, <2>1, <2>2, <2>3, <2>4 DEF QueueSets
<1>8. IdleOnes' = IdleOnes
  BY <1>1, <1>2 DEF IdleOnes, Idle
<1> QED BY <1>3, <1>7, <1>8 DEF IdleCounted
-----------------------------------------------------------------------------
(* Synchronous scheduling.                                                  *)
Counted(q, ph) ==
  /\ q.placeholders = 0 /\ q.discard = 0
  /\ q.status = "IDLE" => q.computed + 1 = q.tokens
  /\ q.status \in {"WAITING", "PREEMPTED"} => q.computed < q.tokens
  /\ q.status = "RUNNING" =>
       IF ph = "input" THEN q.computed + 1 = q.tokens ELSE q.computed = q.tokens

\* So is every request.
TokensCounted == \A r \in Req : Counted(req[r], phase)

\* A step schedules each running request once, and no other that lives.
Members(b) == [n \in DOMAIN b.sched |-> b.sched[n].req]

StepRuns ==
  \A k \in DOMAIN batches :
    /\ IsInjective(Members(batches[k]))
    /\ \A r \in Range(Members(batches[k])) : req[r].status \in {"RUNNING", "ABSENT"}
    /\ \A r \in Req : req[r].status = "RUNNING" => r \in Range(Members(batches[k]))

\* One step at a time, and none while clients are served.
Serial == Len(batches) <= 1 /\ (phase = "input" => batches = <<>>)

\* The inductive invariant of synchronous scheduling.
SyncInv ==
  /\ Inv /\ QueueSets /\ IdleCounted
  /\ Serial /\ TokensCounted /\ StepRuns /\ ~raised

\* A request that has just come has its prompt to compute.
LEMMA CountedNew ==
  ASSUME NEW ph
  PROVE  Counted(Absent, ph) /\ Counted(Arrived, ph)
BY Sizes DEF Counted, Absent, Arrived

\* A turn adds its tokens to a history it keeps.
LEMMA CountedResume ==
  ASSUME NEW q \in Record, q.placeholders = 0, q.discard = 0, q.computed + 1 = q.tokens, NEW ph
  PROVE  /\ Counted(Resume(q), ph)
         /\ Resume(q).prompt >= q.tokens - 1 + PromptTokens
<1>1. q.tokens \in Nat /\ q.computed \in Nat /\ q.prompt \in Nat
  BY RecordFields
<1>2. Smaller(q.tokens, Larger(q.computed, q.prompt)) \in Nat
      /\ Smaller(q.tokens, Larger(q.computed, q.prompt)) >= q.computed
  BY <1>1 DEF Smaller, Larger
<1>3. Resume(q).tokens > q.computed /\ Resume(q).prompt >= q.tokens - 1 + PromptTokens
  BY <1>1, <1>2, ResumeRecord, Sizes
<1> QED BY <1>1, <1>3, ResumeRecord DEF Counted

\* A preempted request has everything to compute.
LEMMA CountedPreempted ==
  ASSUME NEW q \in Record, q.placeholders = 0, q.discard = 0, q.computed + 1 = q.tokens, NEW ph
  PROVE  Counted(Preempted(q), ph) /\ Counted(ForcePreempted(q), ph)
<1>1. q.tokens \in Nat /\ q.computed \in Nat
  BY RecordFields
<1>2. /\ Preempted(q).status = "PREEMPTED" /\ Preempted(q).computed = 0
      /\ Preempted(q).tokens = q.tokens /\ Preempted(q).placeholders = 0 /\ Preempted(q).discard = 0
  BY DEF Preempted, Record
<1>3. /\ ForcePreempted(q).status = "PREEMPTED" /\ ForcePreempted(q).computed = 0
      /\ ForcePreempted(q).tokens = q.tokens /\ ForcePreempted(q).placeholders = 0
      /\ ForcePreempted(q).discard = 0
  BY DEF ForcePreempted, Preempted, Record
<1> QED BY <1>1, <1>2, <1>3 DEF Counted

\* Once scheduled, nothing is left to compute,
LEMMA CountedScheduled ==
  ASSUME ~Async, NEW q \in Record, q.placeholders = 0, q.discard = 0, NEW ids \in Seq(Block)
  PROVE  Counted(Scheduled(q, ids), "result")
<1>1. /\ q.tokens \in Nat /\ q.computed \in Nat
      /\ NewTokens(q) = q.tokens - q.computed
  BY RecordFields DEF NewTokens
<1>2. /\ Scheduled(q, ids).status = "RUNNING" /\ Scheduled(q, ids).discard = 0
      /\ Scheduled(q, ids).computed = q.computed + NewTokens(q)
      /\ Scheduled(q, ids).tokens = q.tokens /\ Scheduled(q, ids).placeholders = 0
  BY DEF Scheduled, Record
<1> QED BY <1>1, <1>2 DEF Counted

\* and once sampled, one token.
LEMMA CountedSampled ==
  ASSUME ~Async, NEW q \in Record, q.status = "RUNNING", Counted(q, "result")
  PROVE  /\ Counted(Sampled(q), "input") /\ Sampled(q).status = "RUNNING"
         /\ Sampled(q).computed + 1 = Sampled(q).tokens
         /\ Sampled(q).placeholders = 0 /\ Sampled(q).discard = 0
<1>1. q.tokens \in Nat /\ q.computed = q.tokens /\ q.discard = 0 /\ q.placeholders = 0
  BY RecordFields DEF Counted
<1>2. /\ Sampled(q).status = "RUNNING" /\ Sampled(q).computed = q.computed
      /\ Sampled(q).tokens = q.tokens + 1 /\ Sampled(q).placeholders = 0 /\ Sampled(q).discard = 0
  <2>1. (IF Async THEN 1 ELSE 0) = 0
    OBVIOUS
  <2>2. Sampled(q) = [q EXCEPT !.tokens = q.tokens + 1,
                               !.placeholders = q.placeholders - (IF Async THEN 1 ELSE 0)]
    <3>1. ~(q.discard > 0)
      BY <1>1
    <3> QED BY <3>1 DEF Sampled
  <2>3. Sampled(q) = [q EXCEPT !.tokens = q.tokens + 1, !.placeholders = q.placeholders - 0]
    BY <2>1, <2>2
  <2> QED BY <1>1, <2>3 DEF Record
<1> QED BY <1>1, <1>2 DEF Counted

(* Client calls.                                                            *)
LEMMA NothingInFlight ==
  ASSUME batches = <<>>, UNCHANGED <<batches, phase>>
  PROVE  Serial' /\ StepRuns'
<1>1. batches' = <<>> /\ Len(batches') = 0 /\ DOMAIN batches' = {}
  BY EmptySeq
<1> QED BY <1>1 DEF Serial, StepRuns

\* Client calls keep the invariant.
LEMMA SyncClient ==
  ASSUME ~Async, SyncInv, ClientCall
  PROVE  /\ Serial' /\ TokensCounted' /\ StepRuns'
         /\ QueueSets' /\ IdleCounted' /\ ~raised'
<1>1. /\ CoreInv /\ QueueSets /\ IdleCounted /\ ~raised /\ UNCHANGED phase
      /\ phase = "input" /\ batches = <<>>
  BY DEF SyncInv, Inv, ClientCall, Serial
<1>2. \A r \in Req : req[r] \in Record /\ Counted(req[r], "input")
  BY <1>1 DEF CoreInv, Typed, SyncInv, TokensCounted
<1>3. CASE \E s \in Req : AddRequest(s) \/ SendTurn(s) \/ CloseSession(s)
  <2>1. PICK s \in Req : AddRequest(s) \/ SendTurn(s) \/ CloseSession(s)
    BY <1>3
  <2>2. QueueSets' /\ IdleCounted'
    BY <1>1, <2>1, ClientQueues
  <2>3. UNCHANGED <<batches, raised>>
    BY <2>1 DEF AddRequest, SendTurn, CloseSession, Queue, Finish
  <2>4. \A r \in Req : Counted(req'[r], "input")
    <3>1. CASE AddRequest(s)
      <4>1. \A r \in Req : req'[r] = IF r = s THEN Arrived ELSE req[r]
        BY <1>1, <3>1 DEF AddRequest, CoreInv, Typed
      <4> QED BY <1>2, <4>1, CountedNew
    <3>2. ASSUME NEW update, Queue(s, update) PROVE \A r \in Req : Counted(req'[r], "input")
      <4>1. req' = [req EXCEPT ![s] = [req[s] EXCEPT !.updates = Append(req[s].updates, update)]]
        BY <3>2 DEF Queue
      <4>2. \A r \in Req : /\ req'[r].status = req[r].status /\ req'[r].tokens = req[r].tokens
                           /\ req'[r].computed = req[r].computed
                           /\ req'[r].placeholders = req[r].placeholders
                           /\ req'[r].discard = req[r].discard
        BY <1>1, <1>2, <4>1 DEF CoreInv, Typed, Record
      <4> QED BY <1>2, <4>2 DEF Counted
    <3>3. ASSUME Finish({s}) PROVE \A r \in Req : Counted(req'[r], "input")
      <4>1. \A r \in Req : req'[r] = IF r = s THEN Absent ELSE req[r]
        BY <3>3 DEF Finish
      <4> QED BY <1>2, <4>1, CountedNew
    <3>4. CASE SendTurn(s)
      <4>1. CASE ~Idle(s) \/ IsPending(s)
        BY <3>2, <3>4, <4>1 DEF SendTurn
      <4>2. CASE Idle(s) /\ ~IsPending(s)
        <5>1. \A r \in Req : req'[r] = IF r = s THEN Resume(req[s]) ELSE req[r]
          BY <1>1, <3>4, <4>2 DEF SendTurn, CoreInv, Typed
        <5>2. /\ req[s].computed + 1 = req[s].tokens
              /\ req[s].placeholders = 0 /\ req[s].discard = 0
          BY <1>2, <4>2 DEF Idle, Counted
        <5> QED BY <1>2, <5>1, <5>2, CountedResume
      <4> QED BY <4>1, <4>2
    <3>5. CASE CloseSession(s)
      BY <3>2, <3>3, <3>5 DEF CloseSession
    <3> QED BY <2>1, <3>1, <3>4, <3>5
  <2>5. TokensCounted'
    BY <1>1, <2>4 DEF TokensCounted
  <2> QED BY <1>1, <2>2, <2>3, <2>5, NothingInFlight
<1>4. CASE ResetPrefixCache
  <2>1. QueueSets' /\ IdleCounted'
    BY <1>1, <1>4, ResetQueues
  <2>2. UNCHANGED <<batches, raised>>
    BY <1>4 DEF ResetPrefixCache
  <2>3. \A r \in Req : Counted(req'[r], "input")
    <3> SUFFICES ASSUME NEW r \in Req PROVE Counted(req'[r], "input")
      OBVIOUS
    <3>1. req'[r] = IF r \in Range(running) THEN ForcePreempted(req[r]) ELSE req[r]
      BY <1>4 DEF ResetPrefixCache
    <3>2. r \in Range(running) => req[r].status = "RUNNING"
      BY <1>1 DEF QueueSets
    <3>3. r \in Range(running) => /\ req[r].computed + 1 = req[r].tokens
                                  /\ req[r].placeholders = 0 /\ req[r].discard = 0
      BY <1>2, <3>2 DEF Counted
    <3> QED BY <1>2, <3>1, <3>3, CountedPreempted
  <2>4. TokensCounted'
    BY <1>1, <2>3 DEF TokensCounted
  <2> QED BY <1>1, <2>1, <2>2, <2>4, NothingInFlight
<1> QED BY <1>3, <1>4 DEF ClientCall

\* So does an abort, also of a request in a step.
LEMMA SyncAbort ==
  ASSUME ~Async, SyncInv, AbortCall
  PROVE  /\ Serial' /\ TokensCounted' /\ StepRuns'
         /\ QueueSets' /\ IdleCounted' /\ ~raised'
<1>1. CoreInv /\ QueueSets /\ IdleCounted /\ ~raised /\ UNCHANGED phase
  BY DEF SyncInv, Inv, AbortCall
<1>2. PICK s \in Req : Abort(s)
  BY DEF AbortCall
<1>3. QueueSets' /\ IdleCounted'
  BY <1>1, <1>2, ClientQueues
<1>4. UNCHANGED <<batches, raised>>
  BY <1>2 DEF Abort, Finish
<1>5. \A r \in Req : req'[r] = req[r] \/ req'[r] = Absent
  BY <1>2 DEF Abort, Finish
<1>6. TokensCounted'
  BY <1>1, <1>5, CountedNew DEF SyncInv, TokensCounted
<1>7. Serial'
  BY <1>1, <1>4 DEF SyncInv, Serial
<1>8. StepRuns'
  <2>1. \A r \in Req : /\ req[r].status \in {"RUNNING", "ABSENT"} => req'[r].status \in {"RUNNING", "ABSENT"}
                       /\ req'[r].status = "RUNNING" => req[r].status = "RUNNING"
    BY <1>5, AbsentRecord
  <2>2. \A k \in DOMAIN batches : Range(Members(batches[k])) \subseteq Req
    <3> SUFFICES ASSUME NEW k \in DOMAIN batches PROVE Range(Members(batches[k])) \subseteq Req
      OBVIOUS
    <3>1. batches[k] \in BatchRecord
      BY <1>1, LenProperties, ElementOfSeq DEF CoreInv, Typed
    <3>2. \A n \in DOMAIN batches[k].sched : batches[k].sched[n] \in SchedEntry
      BY <3>1, LenProperties, ElementOfSeq DEF BatchRecord
    <3> QED BY <3>2 DEF Range, Members, SchedEntry
  <2> QED BY <1>4, <2>1, <2>2 DEF SyncInv, StepRuns
<1> QED BY <1>1, <1>3, <1>4, <1>6, <1>7, <1>8
-----------------------------------------------------------------------------
\* Between steps.
LEMMA SyncWaits ==
  ASSUME ~Async, SyncInv, phase = "input"
  PROVE  /\ CoreInv /\ QueueSets /\ IdleCounted /\ ~raised /\ batches = <<>>
         /\ \A r \in Req : /\ req[r] \in Record /\ Counted(req[r], "input")
                           /\ req[r].tokens \in Nat /\ req[r].computed \in Nat
                           /\ req[r].placeholders = 0 /\ req[r].discard = 0
         /\ Depth = 1
<1>1. CoreInv /\ QueueSets /\ IdleCounted /\ ~raised /\ batches = <<>>
  BY DEF SyncInv, Inv, Serial
<1>2. \A r \in Req : req[r] \in Record /\ Counted(req[r], "input")
  BY <1>1 DEF CoreInv, Typed, SyncInv, TokensCounted
<1>3. \A r \in Req : /\ req[r].tokens \in Nat /\ req[r].computed \in Nat
                     /\ req[r].placeholders = 0 /\ req[r].discard = 0
  BY <1>2, RecordFields DEF Counted
<1>4. Depth = 1
  BY DepthAssumption
<1> QED BY <1>1, <1>2, <1>3, <1>4

\* What waits, waits once.
QueuedApart ==
  /\ IsInjective(waiting) /\ IsInjective(skipped) /\ Range(waiting) \cap Range(skipped) = {}
  /\ \A r \in Range(waiting) \cup Range(skipped) :
       r \in Req /\ req[r].status \in {"WAITING", "IDLE", "PREEMPTED"}

\* The admitted requests wait, and each is admitted once.
LEMMA FirstProperties ==
  ASSUME CoreInv, QueuedApart, NEW k \in 0 .. Len(Candidates)
  PROVE  /\ IsInjective(First(k))
         /\ \A r \in Range(First(k)) : r \in Req /\ req[r].status \in {"WAITING", "PREEMPTED"}
<1>1. waiting \in Seq(Req) /\ skipped \in Seq(Req)
  BY DEF CoreInv, Typed
<1>2. Range(skipped) \cap Range(waiting) = {} /\ IsInjective(skipped) /\ IsInjective(waiting)
  BY DEF QueuedApart
<1>3. /\ skipped \o waiting \in Seq(Req) /\ IsInjective(skipped \o waiting)
      /\ Range(skipped \o waiting) = Range(skipped) \cup Range(waiting)
  BY <1>1, <1>2, ConcatInjective, ConcatProperties, RangeConcatenation
<1>4. /\ Candidates \in Seq(Req) /\ IsInjective(Candidates)
      /\ Range(Candidates) \subseteq (Range(skipped) \cup Range(waiting)) \cap {r \in Req : ~Idle(r)}
  BY <1>3, OnlyProperties, ZenonT(30) DEF Candidates
<1>5. \A r \in Range(Candidates) : r \in Req /\ req[r].status \in {"WAITING", "PREEMPTED"}
  BY <1>4 DEF QueuedApart, Idle
<1>6. Len(Candidates) \in Nat
  BY <1>4, LenProperties
<1> DEFINE n == Len(Candidates) - k
<1>7. n \in 0 .. Len(Candidates) /\ Len(Candidates) - n = k
  BY <1>6
<1> HIDE DEF n
<1>8. LET front == SubSeq(Candidates, 1, Len(Candidates) - n)
          back  == SubSeq(Candidates, Len(Candidates) - n + 1, Len(Candidates))
      IN IsInjective(front) /\ Range(front) \cup Range(back) = Range(Candidates)
  BY <1>4, <1>7, SplitProperties
<1>9. IsInjective(First(k)) /\ Range(First(k)) \subseteq Range(Candidates)
  BY <1>7, <1>8 DEF First
<1> QED BY <1>5, <1>9

\* schedule() finds nothing to raise about:
LEMMA SyncAdmits ==
  ASSUME ~Async, SyncInv, phase = "input",
         NEW p \in 0 .. Len(running), NEW k \in 0 .. Len(Candidates)
  PROVE  ~ScheduleRaises(p, k)
<1>1. CoreInv /\ QueueSets
  BY SyncWaits
<1>2. \A r \in Range(Victims(p)) : ~IsPending(r)
  BY <1>1, SplitRunning
<1>3. /\ IsInjective(First(k))
      /\ \A r \in Range(First(k)) : r \in Req /\ req[r].status \in {"WAITING", "PREEMPTED"}
  BY <1>1, FirstProperties DEF QueueSets, QueuedApart
<1>4. \A r \in Range(First(k)) : ~(NewTokens(req[r]) <= 0)
  BY <1>3, SyncWaits DEF Counted, NewTokens
<1> QED BY <1>2, <1>3, <1>4 DEF ScheduleRaises

\* it plans a step.
LEMMA SyncScheduleCases ==
  ASSUME ~Async, SyncInv, phase = "input", Schedule
  PROVE  \E order, p, k, ids : /\ MaySchedule(order, p, k, ids)
               /\ SchedulePlan(order, p, k, ids) /\ UNCHANGED <<deferred, numIdle, sent, raised>>
<1>1. PICK p \in 0 .. Len(running), k \in 0 .. Len(Candidates) :
       /\ IsNumPreempted(p) /\ IsNumAdmitted(p, k)
       /\ IF ScheduleRaises(p, k) THEN Raise
          ELSE \E order \in Orders(Demotable) :
                  \E ids \in Injection(Needed(p, k), BlocksIf(p)) :
                    /\ SchedulePlan(order, p, k, ids)
                    /\ UNCHANGED <<deferred, numIdle, sent, raised>>
  BY DEF Schedule, Needed, Chosen
<1>2. ~ScheduleRaises(p, k)
  BY SyncAdmits
<1> QED BY <1>1, <1>2 DEF MaySchedule

(* What becomes of the queues when a step is scheduled.                     *)
LEMMA ScheduleQueues ==
  ASSUME CoreInv, QueueSets, IdleCounted, NEW order, NEW p, NEW k, NEW ids,
         MaySchedule(order, p, k, ids), SchedulePlan(order, p, k, ids), UNCHANGED numIdle
  PROVE  QueueSets' /\ IdleCounted'
<1> DEFINE K == Range(Kept(p))
           V == Range(Victims(p))
           F == Range(First(k))
           C == Range(Chosen(p, k))
<1>1. /\ p \in 0 .. Len(running) /\ k \in 0 .. Len(Candidates)
      /\ Kept(p) \in Seq(Req) /\ IsInjective(Kept(p)) /\ Victims(p) \in Seq(Req)
      /\ K \cup V = Range(running) /\ K \cap V = {}
      /\ \A r \in K \cup V : r \in Req /\ req[r].status = "RUNNING"
  BY SplitRunning DEF MaySchedule
<1>2. IsInjective(Victims(p))
  <2>1. running \in Seq(Req) /\ IsInjective(running)
    BY DEF CoreInv, Typed, RunningOnly
  <2>2. LET front == SubSeq(running, 1, Len(running) - p)
            back  == SubSeq(running, Len(running) - p + 1, Len(running))
        IN IsInjective(back)
    BY <1>1, <2>1, SplitProperties
  <2> QED BY <2>2 DEF Victims
<1>3. /\ First(k) \in Seq(Req) /\ IsInjective(First(k)) /\ F \cap Range(running) = {}
      /\ C = Range(Wanting(p)) \cup F /\ Range(Wanting(p)) \subseteq K
      /\ \A r \in F : r \in Req /\ req[r].status \in {"WAITING", "PREEMPTED"}
      /\ \A r \in C : r \in Req
  BY ChosenProperties
<1>4. /\ running' = Kept(p) \o First(k)
      /\ waiting' = Victims(p) \o Without(waiting, F)
      /\ skipped' = Without(skipped, F)
  BY SchedulePlanUnfolded
<1>5. /\ \A r \in V : req'[r] = Preempted(req[r])
      /\ \A r \in C : req'[r] = Scheduled(req[r], Ids(ids, r))
      /\ \A r \in Req \ (V \cup C) : req'[r] = req[r]
  BY ScheduledRequests
<1>6. \A r \in V : req'[r].status = "PREEMPTED"
  BY <1>1, <1>5, PreemptedRecord DEF CoreInv, Typed
<1>7. \A r \in C : req'[r].status = "RUNNING"
  <2>1. \A r \in C : req[r] \in Record /\ Ids(ids, r) \in Seq(Block)
    BY <1>3, IdsProperties DEF CoreInv, Typed
  <2> QED BY <1>5, <2>1, ScheduledRecord
<1> HIDE DEF K, V, F, C
<1>8. \A r \in Req : /\ r \in V => req'[r].status = "PREEMPTED"
                     /\ r \in K \cup F => req'[r].status = "RUNNING"
                     /\ r \notin V \cup K \cup F => req'[r].status = req[r].status
  BY <1>1, <1>3, <1>5, <1>6, <1>7
<1>9. /\ IsInjective(running') /\ Range(running') = K \cup F
  <2>1. K \cap F = {}
    BY <1>1, <1>3
  <2> QED BY <1>1, <1>3, <1>4, <2>1, ConcatInjective, RangeConcatenation DEF K, F
<1>10. /\ Without(waiting, F) \in Seq(Req) /\ IsInjective(Without(waiting, F))
       /\ Range(Without(waiting, F)) = Range(waiting) \ F
       /\ IsInjective(skipped') /\ Range(skipped') = Range(skipped) \ F
  BY <1>4, WithoutSubset DEF CoreInv, Typed, QueueSets
<1>11. IsInjective(waiting') /\ Range(waiting') = V \cup (Range(waiting) \ F)
  <2>1. V \cap (Range(waiting) \ F) = {}
    BY <1>1 DEF QueueSets
  <2>2. V \cap Range(Without(waiting, F)) = {}
    BY <1>10, <2>1
  <2>3. IsInjective(waiting')
    BY <1>1, <1>2, <1>4, <1>10, <2>2, ConcatInjective DEF V
  <2>4. Range(waiting') = V \cup Range(Without(waiting, F))
    BY <1>1, <1>4, <1>10, RangeConcatenation DEF V
  <2> QED BY <1>10, <2>3, <2>4
<1>12. Range(running') = {r \in Req : req'[r].status = "RUNNING"}
  <2>1. \A r \in Req : req'[r].status = "RUNNING" <=> r \in K \cup F
    BY <1>1, <1>3, <1>8 DEF QueueSets
  <2> QED BY <1>1, <1>3, <1>9, <2>1
<1>13. Range(waiting') \cup Range(skipped') =
          {r \in Req : req'[r].status \in {"WAITING", "IDLE", "PREEMPTED"}}
  <2>1. \A r \in Req : req'[r].status \in {"WAITING", "IDLE", "PREEMPTED"} <=>
                         r \in V \cup ((Range(waiting) \cup Range(skipped)) \ F)
    BY <1>1, <1>3, <1>8 DEF QueueSets
  <2>2. V \cup ((Range(waiting) \cup Range(skipped)) \ F) \subseteq Req
    BY <1>1 DEF QueueSets
  <2> QED BY <1>10, <1>11, <2>1, <2>2
<1>14. Range(waiting') \cap Range(skipped') = {}
  <2>1. V \cap Range(skipped) = {}
    BY <1>1 DEF QueueSets
  <2> QED BY <1>10, <1>11, <2>1 DEF QueueSets
<1>15. Range(waiting') \cap {r \in Req : req'[r].status = "IDLE"} = {}
  BY <1>8, <1>11 DEF QueueSets
<1>16. QueueSets'
  BY <1>9, <1>10, <1>11, <1>12, <1>13, <1>14, <1>15 DEF QueueSets
<1>17. IdleOnes' = IdleOnes
  <2>1. \A r \in Req : req'[r].status = "IDLE" <=> req[r].status = "IDLE"
    BY <1>1, <1>3, <1>8
  <2> QED BY <2>1 DEF IdleOnes, Idle
<1> QED BY <1>16, <1>17 DEF IdleCounted
-----------------------------------------------------------------------------
\* The step has every running request, and leaves none of them anything to
\* compute.
LEMMA SyncSchedule ==
  ASSUME ~Async, SyncInv, ScheduleStep
  PROVE  /\ Serial' /\ TokensCounted' /\ StepRuns'
         /\ QueueSets' /\ IdleCounted' /\ ~raised'
<1>1. phase = "input" /\ Schedule
      /\ phase' = IF Len(batches') < Depth /\ HasRequests' THEN "input" ELSE "result"
  BY DEF ScheduleStep
<1>2. /\ CoreInv /\ QueueSets /\ IdleCounted /\ ~raised /\ batches = <<>> /\ Depth = 1
      /\ \A r \in Req : /\ req[r] \in Record /\ Counted(req[r], "input")
                        /\ req[r].tokens \in Nat /\ req[r].computed \in Nat
                        /\ req[r].placeholders = 0 /\ req[r].discard = 0
  BY <1>1, SyncWaits
<1>3. PICK order, p, k, ids : /\ MaySchedule(order, p, k, ids) /\ SchedulePlan(order, p, k, ids)
                              /\ UNCHANGED <<numIdle, raised>>
  BY <1>1, SyncScheduleCases
<1>4. QueueSets' /\ IdleCounted' /\ ~raised'
  BY <1>2, <1>3, ScheduleQueues
<1> DEFINE b == NewBatch(order, p, k, ids)
           C == Chosen(p, k)
<1>5. /\ b \in BatchRecord /\ batches' = Append(batches, b)
      /\ DOMAIN batches' = 1 .. Len(batches) + 1 /\ batches' \in Seq(BatchRecord)
      /\ batches'[Len(batches) + 1] = b
  BY <1>2, <1>3, NewBatchTyped, SchedulePlanUnfolded, AppendBatch DEF CoreInv, Typed
<1>6. Len(batches) = 0
  BY <1>2, EmptySeq
<1> HIDE DEF b
<1>7. DOMAIN batches' = {1} /\ batches'[1] = b
  BY <1>5, <1>6
<1>8. Len(batches') = 1
  BY <1>5, <1>6, AppendProperties DEF CoreInv, Typed
<1>9. phase' = "result"
  BY <1>1, <1>2, <1>8
<1>10. Serial'
  BY <1>8, <1>9 DEF Serial
<1>11. /\ C \in Seq(Req) /\ IsInjective(C)
       /\ \A r \in Range(C) : r \in Req
       /\ Range(Wanting(p)) \subseteq Range(C)
  BY <1>2, <1>3, ChosenProperties
<1>12. /\ Range(Kept(p)) \cup Range(Victims(p)) = Range(running)
       /\ Kept(p) \in Seq(Req)
       /\ \A r \in Range(Victims(p)) : r \in Req /\ req[r].status = "RUNNING"
  BY <1>2, <1>3, SplitRunning DEF MaySchedule
<1>13. /\ \A r \in Range(Victims(p)) : req'[r] = Preempted(req[r])
       /\ \A r \in Range(C) : req'[r] = Scheduled(req[r], Ids(ids, r)) /\ Ids(ids, r) \in Seq(Block)
       /\ \A r \in Req \ (Range(Victims(p)) \cup Range(C)) : req'[r] = req[r]
  BY <1>2, <1>3, ScheduledRequests, IdsProperties
<1> HIDE DEF C
<1>14. \A r \in Req : req[r].status = "RUNNING" => r \in Range(Victims(p)) \cup Range(C)
  <2> SUFFICES ASSUME NEW r \in Range(Kept(p)), r \in Req, req[r].status = "RUNNING"
               PROVE  r \in Range(C)
    BY <1>2, <1>12 DEF QueueSets
  <2>1. NewTokens(req[r]) > 0
    BY <1>2 DEF NewTokens, Counted
  <2>2. Schedulable(req[r], MaxTokens[r])
    BY <1>2, <2>1 DEF Schedulable
  <2>3. r \in Range(Wanting(p))
    BY <1>12, <2>2, OnlyProperties DEF Wanting
  <2> QED BY <1>11, <2>3
<1>15. \A r \in Range(Victims(p)) : Counted(req'[r], "result")
  <2> SUFFICES ASSUME NEW r \in Range(Victims(p)) PROVE Counted(Preempted(req[r]), "result")
    BY <1>13
  <2>1. r \in Req /\ req[r].computed + 1 = req[r].tokens
    BY <1>2, <1>12 DEF Counted
  <2> QED BY <1>2, <2>1, CountedPreempted
<1>16. \A r \in Range(C) : Counted(req'[r], "result")
  BY <1>2, <1>11, <1>13, CountedScheduled
<1>17. \A r \in Req \ (Range(Victims(p)) \cup Range(C)) : Counted(req'[r], "result")
  BY <1>2, <1>13, <1>14 DEF Counted
<1>18. TokensCounted'
  BY <1>9, <1>15, <1>16, <1>17 DEF TokensCounted
<1>19. Members(b) = C
  <2>1. /\ DOMAIN b.sched = DOMAIN C /\ \A n \in DOMAIN C : b.sched[n].req = C[n]
    BY DEF b, NewBatch, NewEntry, C
  <2>2. C = [n \in DOMAIN C |-> C[n]]
    BY <1>11, LenProperties
  <2> QED BY <2>1, <2>2 DEF Members
<1>20. \A r \in Range(C) : req'[r].status = "RUNNING"
  BY <1>2, <1>11, <1>13, ScheduledRecord
<1>21. \A r \in Req : req'[r].status = "RUNNING" => r \in Range(C)
  <2>1. \A r \in Range(Victims(p)) : req'[r].status = "PREEMPTED"
    BY <1>2, <1>12, <1>13, PreemptedRecord
  <2> QED BY <1>13, <1>14, <2>1
<1>22. StepRuns'
  BY <1>7, <1>11, <1>19, <1>20, <1>21 DEF StepRuns
<1> QED BY <1>4, <1>10, <1>18, <1>22
-----------------------------------------------------------------------------
\* While the core waits for a result.
LEMMA SyncAnswer ==
  ASSUME ~Async, SyncInv, phase = "result"
  PROVE  /\ CoreInv /\ QueueSets /\ IdleCounted /\ ~raised
         /\ batches # <<>> /\ Tail(batches) = <<>>
         /\ \A r \in Req : /\ req[r] \in Record /\ Counted(req[r], "result")
                           /\ req[r].tokens \in Nat /\ req[r].computed \in Nat
                           /\ req[r].placeholders = 0 /\ req[r].discard = 0
<1>1. CoreInv /\ QueueSets /\ IdleCounted /\ ~raised /\ batches # <<>> /\ Len(batches) <= 1
  BY DEF SyncInv, Inv, Serial, Awaited
<1>2. Tail(batches) = <<>>
  <2>1. batches \in Seq(BatchRecord)
    BY <1>1 DEF CoreInv, Typed
  <2>2. Len(batches) = 1
    <3> DEFINE n == Len(batches)
    <3>1. n \in Nat /\ n # 0 /\ n <= 1
      BY <1>1, <2>1, LenProperties, EmptySeq
    <3> HIDE DEF n
    <3>2. n = 1
      BY <3>1
    <3> QED BY <3>2 DEF n
  <2>3. Len(Tail(batches)) = 0 /\ Tail(batches) \in Seq(BatchRecord)
    BY <1>1, <2>1, <2>2, HeadTailProperties
  <2> QED BY <2>3, EmptySeq
<1>3. \A r \in Req : req[r] \in Record /\ Counted(req[r], "result")
  BY <1>1 DEF CoreInv, Typed, SyncInv, TokensCounted
<1>4. \A r \in Req : /\ req[r].tokens \in Nat /\ req[r].computed \in Nat
                     /\ req[r].placeholders = 0 /\ req[r].discard = 0
  BY <1>3, RecordFields DEF Counted
<1> QED BY <1>1, <1>2, <1>3, <1>4

(* A synchronous step answers every running request, once, and no other.    *)
LEMMA SyncOutputs ==
  ASSUME ~Async, SyncInv, phase = "result", NEW b, b = Head(batches)
  PROVE  /\ Outputs(b) \in Seq(Req) /\ IsInjective(Outputs(b))
         /\ Range(Outputs(b)) = {r \in Req : req[r].status = "RUNNING"}
         /\ \A r \in Range(Outputs(b)) : r \notin Acked(b) /\ ~IsPending(r) /\ AfterAck(b, r) = req[r]
<1>1. CoreInv /\ batches # <<>>
  BY SyncAnswer
<1>2. b = batches[1] /\ 1 \in DOMAIN batches /\ b \in BatchRecord
  BY <1>1, OldestBatch
<1> DEFINE S == {r \in Req : AfterAck(b, r).status # "ABSENT"}
<1>3. /\ IsInjective(Members(b))
      /\ \A r \in Range(Members(b)) : req[r].status \in {"RUNNING", "ABSENT"}
      /\ \A r \in Req : req[r].status = "RUNNING" => r \in Range(Members(b))
  BY <1>2 DEF SyncInv, StepRuns
<1>4. Outputs(b) = Only(Members(b), S)
  BY DEF Outputs, Members
<1>5. Members(b) \in Seq(Req)
  <2>1. b.sched \in Seq(SchedEntry)
    BY <1>2 DEF BatchRecord
  <2>2. DOMAIN b.sched = 1 .. Len(b.sched) /\ Len(b.sched) \in Nat
        /\ \A n \in DOMAIN b.sched : b.sched[n] \in SchedEntry
    BY <2>1, LenProperties, ElementOfSeq
  <2>3. \A n \in DOMAIN b.sched : b.sched[n].req \in Req
    BY <2>2 DEF SchedEntry
  <2> QED BY <2>2, <2>3 DEF Members
<1> HIDE DEF S
<1>6. /\ Outputs(b) \in Seq(Req) /\ IsInjective(Outputs(b))
      /\ Range(Outputs(b)) = Range(Members(b)) \cap S
  BY <1>3, <1>4, <1>5, OnlyProperties
<1>7. \A r \in Req : req[r].status \in {"RUNNING", "ABSENT"} =>
         r \notin Acked(b) /\ ~IsPending(r) /\ AfterAck(b, r) = req[r]
  BY <1>1, AckedPlans, AfterAckRecord DEF Idle, CoreInv, PlansParked
<1>8. \A r \in Req : req[r].status \in {"RUNNING", "ABSENT"} => (r \in S <=> req[r].status = "RUNNING")
  BY <1>7 DEF S
<1>9. Range(Members(b)) \subseteq Req
  BY <1>5, RangeOfSeq
<1>10. \A r \in Range(Outputs(b)) : r \in Req /\ req[r].status = "RUNNING"
  BY <1>3, <1>6, <1>8, <1>9
<1>11. \A r \in Req : req[r].status = "RUNNING" => r \in Range(Outputs(b))
  BY <1>3, <1>6, <1>8
<1>12. Range(Outputs(b)) = {r \in Req : req[r].status = "RUNNING"}
  BY <1>10, <1>11
<1> QED BY <1>6, <1>7, <1>10, <1>12

\* update_from_output() finds nothing to raise about.
LEMMA SyncUpdates ==
  ASSUME ~Async, SyncInv, phase = "result", NEW b, b = Head(batches), NEW eos
  PROVE  ~UpdateRaises(b, eos)
<1>1. CoreInv /\ batches # <<>> /\ \A r \in Req : req[r] \in Record /\ Counted(req[r], "result")
  BY SyncAnswer
<1>2. \A t \in Moved(b) : CommitOK(req[t.req], t.plan)
  BY <1>1, AckedPlans
<1>3. \A n \in DOMAIN b.trans : pending[b.trans[n].req] = b.trans[n].plan
  BY <1>1, OldestBatch DEF CoreInv, PlansInFlight
<1>4. \A r \in Ended(b, eos) \cup Resumed(b, eos) : ~IsPending(r)
  BY <1>1, StoppedParts, SyncOutputs
<1>5. \A r \in Req : ~(AfterToken(b, r).placeholders < 0)
  <2> SUFFICES ASSUME NEW r \in Req PROVE ~(AfterToken(b, r).placeholders < 0)
    OBVIOUS
  <2>1. CASE r \in Range(Outputs(b))
    <3>1. AfterToken(b, r) = Sampled(req[r]) /\ req[r].status = "RUNNING"
      BY <2>1, SyncOutputs DEF AfterToken
    <3>2. Sampled(req[r]).placeholders = 0
      BY <1>1, <3>1, CountedSampled
    <3> QED BY <3>1, <3>2
  <2>2. CASE r \notin Range(Outputs(b))
    <3>1. AfterToken(b, r) = AfterAck(b, r) /\ AfterAck(b, r) \in Record
      BY <1>1, <2>2, AfterAckRecord DEF AfterToken
    <3> QED BY <3>1, RecordFields
  <2> QED BY <2>1, <2>2
<1> QED BY <1>2, <1>3, <1>4, <1>5 DEF UpdateRaises

(* What a demotion's answer makes of an idle session.                       *)
LEMMA SyncAcked ==
  ASSUME ~Async, SyncInv, phase = "result", NEW b, b = Head(batches), NEW r \in Req,
         r \notin Range(Outputs(b))
  PROVE  /\ Counted(AfterAck(b, r), "input")
         /\ Idle(r) /\ AfterAck(b, r).status = "WAITING" =>
              AfterAck(b, r).prompt >= req[r].tokens - 1 + PromptTokens
<1>1. CoreInv /\ batches # <<>> /\ req[r] \in Record /\ Counted(req[r], "result")
      /\ req[r].placeholders = 0 /\ req[r].discard = 0
  BY SyncAnswer
<1>2. req[r].status # "RUNNING"
  BY SyncOutputs
<1>3. CASE r \notin Acked(b)
  <2>1. AfterAck(b, r) = req[r]
    BY <1>1, <1>3, AfterAckRecord
  <2> QED BY <1>1, <1>2, <2>1 DEF Counted, Idle
<1>4. CASE r \in AckFinishes(b)
  <2>1. AfterAck(b, r) = Absent /\ Absent.status = "ABSENT"
    BY <1>1, <1>4, AfterAckRecord, AbsentRecord
  <2> QED BY <2>1, CountedNew
<1>5. CASE r \in Acked(b) /\ r \notin AckFinishes(b)
  <2> DEFINE q == AfterMove(b, r)
  <2>1. q \in Record /\ q.updates = req[r].updates /\ q.status = req[r].status
    BY <1>1, AfterMoveRecord
  <2>2. /\ q.tokens = req[r].tokens /\ q.computed = req[r].computed
        /\ q.placeholders = req[r].placeholders /\ q.discard = req[r].discard
    BY <1>1, CommittedRecord DEF AfterMove
  <2>3. Idle(r) /\ req[r].computed + 1 = req[r].tokens
    BY <1>1, <1>5, AckedPlans DEF Idle, Counted
  <2>4. AfterAck(b, r) = IF r \in AckPops(b) THEN Resume(Popped(q)) ELSE q
    BY <1>5 DEF AfterAck, AfterMove, HasMoved, Popped
  <2> HIDE DEF q
  <2>5. CASE r \in AckPops(b)
    <3>1. Popped(q) \in Record
      BY <1>1, <2>1, <2>5, AckedPlans, PoppedRecord
    <3>2. /\ Popped(q).tokens = q.tokens /\ Popped(q).computed = q.computed
          /\ Popped(q).placeholders = q.placeholders /\ Popped(q).discard = q.discard
      BY <2>1 DEF Popped, Record
    <3>3. /\ Counted(Resume(Popped(q)), "input")
          /\ Resume(Popped(q)).prompt >= Popped(q).tokens - 1 + PromptTokens
      BY <1>1, <2>2, <2>3, <3>1, <3>2, CountedResume
    <3> QED BY <2>2, <2>4, <2>5, <3>2, <3>3
  <2>6. CASE r \notin AckPops(b)
    BY <1>1, <2>1, <2>2, <2>3, <2>4, <2>6 DEF Counted, Idle
  <2> QED BY <2>5, <2>6
<1> QED BY <1>3, <1>4, <1>5
-----------------------------------------------------------------------------
(* Every request is ready for the next step once its answer is in.          *)
LEMMA SyncCounts ==
  ASSUME ~Async, SyncInv, phase = "result", NEW b, b = Head(batches), NEW eos,
         AfterUpdate(b, eos), NEW r \in Req
  PROVE  /\ Counted(req'[r], "input")
         /\ Idle(r) /\ req'[r].status = "WAITING" =>
              req'[r].prompt >= req[r].tokens - 1 + PromptTokens
<1>1. CoreInv /\ batches # <<>> /\ req[r] \in Record /\ Counted(req[r], "result") /\ ~UpdateRaises(b, eos)
  BY SyncAnswer, SyncUpdates
<1>2. req'[r] =
              CASE r \in Freed(b, eos)   -> Absent
                [] r \in Resumed(b, eos) -> Resume(Popped(AfterToken(b, r)))
                [] r \in Parked(b, eos)  -> AsIdle(AfterToken(b, r))
                [] OTHER                 -> AfterToken(b, r)
  BY AfterUpdateRequests
<1>3. CASE r \in Freed(b, eos)
  <2>1. req'[r] = Absent /\ Absent.status = "ABSENT"
    BY <1>1, <1>3, UpdatedRequests, AbsentRecord
  <2> QED BY <2>1, CountedNew
<1>4. CASE r \notin Freed(b, eos) /\ r \notin Range(Outputs(b))
  <2>1. AfterToken(b, r) = AfterAck(b, r) /\ r \notin Resumed(b, eos) /\ r \notin Parked(b, eos)
    BY <1>1, <1>4, StoppedParts DEF AfterToken
  <2>2. req'[r] = AfterAck(b, r)
    BY <1>2, <1>4, <2>1
  <2> QED BY <1>4, <2>2, SyncAcked
<1>5. CASE r \notin Freed(b, eos) /\ r \in Range(Outputs(b))
  <2> DEFINE q == Sampled(req[r])
  <2>1. AfterToken(b, r) = q /\ req[r].status = "RUNNING"
    BY <1>5, SyncOutputs DEF AfterToken
  <2>2. AfterToken(b, r) \in Record
    BY <1>1, AfterTokenRecord
  <2>3. /\ q \in Record /\ Counted(q, "input") /\ q.status = "RUNNING"
        /\ q.computed + 1 = q.tokens /\ q.placeholders = 0 /\ q.discard = 0
    BY <1>1, <2>1, <2>2, CountedSampled
  <2>4. ~Idle(r)
    BY <2>1 DEF Idle
  <2> HIDE DEF q
  <2>5. CASE r \in Resumed(b, eos)
    <3>1. req'[r] = Resume(Popped(q)) /\ q.updates # <<>>
      BY <1>1, <1>2, <1>5, <2>1, <2>5, StoppedParts
    <3>2. Popped(q) \in Record
      BY <2>3, <3>1, PoppedRecord
    <3>3. /\ Popped(q).tokens = q.tokens /\ Popped(q).computed = q.computed
          /\ Popped(q).placeholders = q.placeholders /\ Popped(q).discard = q.discard
      BY <2>3 DEF Popped, Record
    <3>4. Counted(Resume(Popped(q)), "input")
      BY <2>3, <3>2, <3>3, CountedResume
    <3> QED BY <2>4, <3>1, <3>4
  <2>6. CASE r \in Parked(b, eos)
    <3>1. req'[r] = AsIdle(q)
      BY <1>1, <1>2, <1>5, <2>1, <2>6, StoppedParts
    <3>2. /\ AsIdle(q).status = "IDLE" /\ AsIdle(q).tokens = q.tokens
          /\ AsIdle(q).computed = q.computed /\ AsIdle(q).placeholders = q.placeholders
          /\ AsIdle(q).discard = q.discard
      BY <2>3 DEF AsIdle, Record
    <3> QED BY <2>3, <2>4, <3>1, <3>2 DEF Counted
  <2>7. CASE r \notin Resumed(b, eos) /\ r \notin Parked(b, eos)
    BY <1>2, <1>5, <2>1, <2>3, <2>4, <2>7
  <2> QED BY <2>5, <2>6, <2>7
<1> QED BY <1>3, <1>4, <1>5

(* The queues after an answer: what stopped leaves the running queue, and   *)
(* goes where its new status says.                                          *)
LEMMA SyncRequeues ==
  ASSUME ~Async, SyncInv, phase = "result", NEW b, b = Head(batches), NEW eos,
         AfterUpdate(b, eos)
  PROVE  QueueSets' /\ IdleCounted'
<1> DEFINE O == Range(Outputs(b))
           X == Stopped(b, eos)
           E == Ended(b, eos)
           R == Resumed(b, eos)
           P == Parked(b, eos)
           A == AckFinishes(b)
           W == AckPops(b)
<1>1. CoreInv /\ QueueSets /\ IdleCounted /\ batches # <<>> /\ ~UpdateRaises(b, eos)
  BY SyncAnswer, SyncUpdates
<1>2. /\ Outputs(b) \in Seq(Req) /\ IsInjective(Outputs(b))
      /\ O = {r \in Req : req[r].status = "RUNNING"}
      /\ \A r \in O : AfterAck(b, r) = req[r]
  BY SyncOutputs
<1>3. /\ X \subseteq O /\ E \subseteq X /\ R \subseteq X /\ P \subseteq X
      /\ P \cap (E \cup R) = {} /\ R \cap E = {} /\ X = E \cup R \cup P
  BY <1>1, StoppedParts DEF Parked
<1>4. /\ A \subseteq Req /\ W \subseteq Req
      /\ \A r \in A \cup W : req[r].status = "IDLE"
  BY <1>1, AckedPlans DEF Idle
<1>5. LeftRunning(b, eos) = X
  BY <1>2, <1>3 DEF LeftRunning
<1>6. AckedRunning(b) = {} /\ AckedIdle(b) = A \cup W
  BY <1>4 DEF AckedRunning, AckedIdle, Idle
<1>7. /\ running' = Without(running, X \cup {})
      /\ waiting' = Without(Without(waiting, A) \o Only(Outputs(b), R), X \ X)
      /\ skipped' = Without(skipped, A) \o Only(Outputs(b), P)
      /\ numIdle' = numIdle + Cardinality(P) - Cardinality(A \cup W)
  BY <1>5, <1>6, AfterUpdateUnfolded
<1>8. \A r \in Req : req'[r].status =
        IF r \in A \cup E THEN "ABSENT"
        ELSE IF r \in R THEN "WAITING"
        ELSE IF r \in P THEN "IDLE"
        ELSE IF r \in W THEN "WAITING" ELSE req[r].status
  <2> SUFFICES ASSUME NEW r \in Req
               PROVE  req'[r].status = IF r \in A \cup E THEN "ABSENT"
                        ELSE IF r \in R THEN "WAITING"
                        ELSE IF r \in P THEN "IDLE"
                        ELSE IF r \in W THEN "WAITING" ELSE req[r].status
    OBVIOUS
  <2>1. CASE r \in A \cup E
    BY <1>1, <2>1, UpdatedRequests, AbsentRecord DEF Freed
  <2>2. CASE r \notin A \cup E
    <3>1. req'[r].status = CASE r \in R -> "WAITING"
                             [] r \in P -> "IDLE"
                             [] OTHER   -> AfterAck(b, r).status
      BY <1>1, <2>2, UpdatedRequests DEF Freed
    <3>2. AfterAck(b, r).status = IF r \in W THEN "WAITING" ELSE req[r].status
      BY <1>1, <2>2, AfterAckRecord
    <3>3. ~(r \in R /\ r \in P)
      BY <1>3
    <3> HIDE DEF A, E, R, P, W
    <3> QED BY <2>2, <3>1, <3>2, <3>3
  <2> QED BY <2>1, <2>2
<1> HIDE DEF O, X, E, R, P, A, W
<1>9. /\ Only(Outputs(b), R) \in Seq(Req) /\ IsInjective(Only(Outputs(b), R))
      /\ Range(Only(Outputs(b), R)) = R
      /\ Only(Outputs(b), P) \in Seq(Req) /\ IsInjective(Only(Outputs(b), P))
      /\ Range(Only(Outputs(b), P)) = P
  <2>1. O \cap R = R /\ O \cap P = P
    BY <1>3
  <2> QED BY <1>2, <2>1, OnlyProperties DEF O
<1>10. /\ running \in Seq(Req) /\ waiting \in Seq(Req) /\ skipped \in Seq(Req)
       /\ IsInjective(running) /\ IsInjective(waiting) /\ IsInjective(skipped)
       /\ Range(running) = O
  BY <1>1, <1>2 DEF CoreInv, Typed, QueueSets
<1>11. IsInjective(running') /\ Range(running') = O \ X
  BY <1>7, <1>10, WithoutSubset
<1>12. /\ Without(waiting, A) \in Seq(Req) /\ IsInjective(Without(waiting, A))
       /\ Range(Without(waiting, A)) = Range(waiting) \ A
       /\ Without(skipped, A) \in Seq(Req) /\ IsInjective(Without(skipped, A))
       /\ Range(Without(skipped, A)) = Range(skipped) \ A
  BY <1>10, WithoutSubset
<1>13. IsInjective(waiting') /\ Range(waiting') = (Range(waiting) \ A) \cup R
  <2>1. Range(waiting) \cap R = {}
    BY <1>1, <1>2, <1>3 DEF QueueSets
  <2>2. Range(Without(waiting, A)) \cap Range(Only(Outputs(b), R)) = {}
    BY <1>9, <1>12, <2>1
  <2> DEFINE s == Without(waiting, A) \o Only(Outputs(b), R)
  <2>3. s \in Seq(Req) /\ IsInjective(s) /\ Range(s) = (Range(waiting) \ A) \cup R
    BY <1>9, <1>12, <2>2, ConcatProperties, ConcatInjective, RangeConcatenation
  <2>4. waiting' = Without(s, X \ X)
    BY <1>7
  <2> HIDE DEF s
  <2> QED BY <2>3, <2>4, WithoutSubset
<1>14. IsInjective(skipped') /\ Range(skipped') = (Range(skipped) \ A) \cup P
  <2>1. Range(skipped) \cap P = {}
    BY <1>1, <1>2, <1>3 DEF QueueSets
  <2>2. Range(Without(skipped, A)) \cap Range(Only(Outputs(b), P)) = {}
    BY <1>9, <1>12, <2>1
  <2> QED BY <1>7, <1>9, <1>12, <2>2, ConcatProperties, ConcatInjective, RangeConcatenation
<1>15. Range(running') = {r \in Req : req'[r].status = "RUNNING"}
  <2>1. \A r \in Req : req'[r].status = "RUNNING" <=> r \in O \ X
    BY <1>2, <1>3, <1>4, <1>8
  <2> QED BY <1>2, <1>11, <2>1
<1>16. Range(waiting') \cup Range(skipped') =
         {r \in Req : req'[r].status \in {"WAITING", "IDLE", "PREEMPTED"}}
  <2>1. /\ Range(waiting) \cup Range(skipped) \subseteq Req
        /\ \A r \in Req : req[r].status \in {"WAITING", "IDLE", "PREEMPTED"} <=>
                            r \in Range(waiting) \cup Range(skipped)
    BY <1>1 DEF QueueSets
  <2>2. \A r \in Req : req'[r].status \in {"WAITING", "IDLE", "PREEMPTED"} <=>
                         r \in ((Range(waiting) \cup Range(skipped)) \ A) \cup R \cup P
    BY <1>2, <1>3, <1>4, <1>8, <2>1
  <2>3. Range(waiting') \cup Range(skipped') = ((Range(waiting) \cup Range(skipped)) \ A) \cup R \cup P
    BY <1>13, <1>14
  <2> QED BY <1>2, <1>3, <2>1, <2>2, <2>3
<1>17. Range(waiting') \cap Range(skipped') = {}
  <2>1. Range(waiting) \cap Range(skipped) = {} /\ Range(waiting) \cap O = {} /\ Range(skipped) \cap O = {}
    BY <1>1, <1>2 DEF QueueSets
  <2> QED BY <1>3, <1>13, <1>14, <2>1
<1>18. Range(waiting') \cap {r \in Req : req'[r].status = "IDLE"} = {}
  <2>1. /\ Range(waiting) \subseteq Req /\ Range(waiting) \cap O = {}
        /\ \A r \in Range(waiting) : req[r].status # "IDLE"
    BY <1>1, <1>2 DEF QueueSets
  <2> QED BY <1>2, <1>3, <1>4, <1>8, <1>13, <2>1
<1>19. QueueSets'
  BY <1>11, <1>13, <1>14, <1>15, <1>16, <1>17, <1>18 DEF QueueSets
<1>20. IdleOnes' = (IdleOnes \ (A \cup W)) \cup P
  <2>1. \A r \in Req : req'[r].status = "IDLE" <=> (req[r].status = "IDLE" /\ r \notin A \cup W) \/ r \in P
    BY <1>2, <1>3, <1>4, <1>8
  <2> QED BY <1>2, <1>3, <2>1 DEF IdleOnes, Idle
<1>21. A \cup W \in SUBSET IdleOnes /\ P \cap IdleOnes = {}
  BY <1>2, <1>3, <1>4 DEF IdleOnes, Idle
<1>22. IsFiniteSet(P) /\ Cardinality(P) \in Nat
  BY <1>1, StoppedParts, LiveFinite DEF P
<1>23. IsFiniteSet(IdleOnes) /\ Cardinality(IdleOnes) \in Nat /\ Cardinality(A \cup W) \in Nat
  BY <1>1, <1>21, IdleFinite, FS_Subset, FS_CardinalityType
<1>24. Cardinality(IdleOnes') = Cardinality(IdleOnes) + Cardinality(P) - Cardinality(A \cup W)
  BY <1>20, <1>21, <1>22, <1>23, CountAfter
<1> QED BY <1>1, <1>7, <1>19, <1>24 DEF IdleCounted
-----------------------------------------------------------------------------
\* It holds at the start.
LEMMA SyncInit ==
  ASSUME Init
  PROVE  SyncInv
<1> USE DEF Init, SchedInit
<1>1. Inv
  BY CoreInit DEF Inv, Awaited
<1>2. \A r \in Req : req[r] = Absent /\ Absent.status = "ABSENT"
  BY AbsentRecord
<1>3. Range(running) = {} /\ Range(waiting) = {} /\ Range(skipped) = {}
  BY DEF Range
<1>4. QueueSets
  BY <1>2, <1>3 DEF QueueSets, IsInjective
<1>5. IdleCounted
  <2>1. IdleOnes = {}
    BY <1>2 DEF IdleOnes, Idle
  <2> QED BY <2>1, FS_EmptySet DEF IdleCounted
<1>6. Serial /\ StepRuns
  <2>1. Len(batches) = 0 /\ DOMAIN batches = {}
    OBVIOUS
  <2> QED BY <2>1 DEF Serial, StepRuns
<1>7. TokensCounted
  BY <1>2, CountedNew DEF TokensCounted
<1> QED BY <1>1, <1>4, <1>5, <1>6, <1>7 DEF SyncInv

\* update_from_output() keeps the invariant.
LEMMA SyncUpdate ==
  ASSUME ~Async, SyncInv, UpdateStep
  PROVE  /\ Serial' /\ TokensCounted' /\ StepRuns'
         /\ QueueSets' /\ IdleCounted' /\ ~raised'
<1>1. phase = "result" /\ phase' = "input" /\ UpdateFromOutput
  BY DEF UpdateStep
<1>2. ~raised /\ Tail(batches) = <<>>
  BY <1>1, SyncAnswer
<1>3. PICK eos \in SUBSET IF EosStops THEN Range(Outputs(Head(batches))) ELSE {} :
        IF UpdateRaises(Head(batches), eos) THEN Raise
        ELSE /\ AfterUpdate(Head(batches), eos)
             /\ batches' = Tail(batches)
             /\ UNCHANGED <<sent, raised>>
  BY <1>1 DEF UpdateFromOutput
<1>4. /\ AfterUpdate(Head(batches), eos) /\ batches' = <<>> /\ UNCHANGED raised
  BY <1>1, <1>2, <1>3, SyncUpdates
<1>5. QueueSets' /\ IdleCounted'
  BY <1>1, <1>4, SyncRequeues
<1>6. TokensCounted'
  BY <1>1, <1>4, SyncCounts DEF TokensCounted
<1>7. Serial' /\ StepRuns'
  <2>1. Len(batches') = 0 /\ DOMAIN batches' = {}
    BY <1>4
  <2> QED BY <1>4, <2>1 DEF Serial, StepRuns
<1> QED BY <1>2, <1>4, <1>5, <1>6, <1>7

\* So does the worker.
LEMMA SyncWorker ==
  ASSUME ~Async, SyncInv, ExecuteModel
  PROVE  /\ Serial' /\ TokensCounted' /\ StepRuns'
         /\ QueueSets' /\ IdleCounted' /\ ~raised'
<1>1. PICK k \in DOMAIN batches : WorkerStep(k)
  BY DEF ExecuteModel
<1>2. CoreInv /\ batches \in Seq(BatchRecord)
  BY DEF SyncInv, Inv, CoreInv, Typed
<1>3. /\ batches' \in Seq(BatchRecord) /\ DOMAIN batches' = DOMAIN batches
      /\ \A i \in DOMAIN batches : batches'[i].sched = batches[i].sched
  BY <1>1, <1>2, WorkerBatch
<1>4. UNCHANGED <<req, running, waiting, skipped, numIdle, raised, phase>>
  BY <1>1 DEF WorkerStep, queues
<1>5. QueueSets' /\ IdleCounted'
  BY <1>4, SameStatusQueues DEF SyncInv
<1>6. TokensCounted'
  BY <1>4 DEF SyncInv, TokensCounted
<1>7. Serial'
  <2>1. Len(batches') = Len(batches)
    BY <1>2, <1>3, LenProperties
  <2>2. batches = <<>> => batches' = <<>>
    BY <1>2, <1>3, <2>1, EmptySeq
  <2> QED BY <1>4, <2>1, <2>2 DEF SyncInv, Serial
<1>8. StepRuns'
  <2>1. \A i \in DOMAIN batches : Members(batches'[i]) = Members(batches[i])
    BY <1>3 DEF Members
  <2> QED BY <1>3, <1>4, <2>1 DEF SyncInv, StepRuns
<1> QED BY <1>4, <1>5, <1>6, <1>7, <1>8 DEF SyncInv

\* Every step keeps it.
LEMMA SyncNext ==
  ASSUME ~Async, SyncInv, [Next]_vars
  PROVE  SyncInv'
<1>1. Inv'
  BY NextKeeps DEF SyncInv
<1>2. CASE AwaitResult
  BY <1>2 DEF AwaitResult, SyncInv, Serial
<1>3. CASE UNCHANGED vars
  <2>1. UNCHANGED <<req, running, waiting, skipped, numIdle, raised, batches, phase>>
    BY <1>3 DEF vars, schedVars, queues
  <2>2. QueueSets' /\ IdleCounted'
    BY <2>1, SameStatusQueues DEF SyncInv
  <2>3. Serial' /\ TokensCounted' /\ StepRuns' /\ ~raised'
    BY <2>1 DEF SyncInv, Serial, TokensCounted, StepRuns
  <2> QED BY <1>1, <2>2, <2>3 DEF SyncInv
<1>4. CASE ClientCall \/ AbortCall \/ ScheduleStep \/ ExecuteModel \/ UpdateStep
  <2>1. /\ Serial' /\ TokensCounted' /\ StepRuns'
        /\ QueueSets' /\ IdleCounted' /\ ~raised'
    BY <1>4, SyncClient, SyncAbort, SyncSchedule, SyncWorker, SyncUpdate
  <2> QED BY <1>1, <2>1 DEF SyncInv
<1> QED BY <1>2, <1>3, <1>4 DEF Next

(* The invariant of synchronous scheduling holds, resets included.         *)
THEOREM SyncInvariant == ASSUME ~Async PROVE Spec => []SyncInv
<1>1. Init => SyncInv
  BY SyncInit
<1>2. SyncInv /\ [Next]_vars => SyncInv'
  BY SyncNext
<1> QED BY <1>1, <1>2, PTL DEF Spec

(* No sequence of legal calls makes the synchronous scheduler raise.       *)
THEOREM SyncNeverRaises == ASSUME ~Async PROVE Spec => []NeverRaises
<1>1. SyncInv => NeverRaises
  BY DEF SyncInv, NeverRaises
<1> QED BY <1>1, SyncInvariant, PTL

(* A live request is in the one queue its status says, once, and the count *)
(* that lets the engine sleep is exact.                                    *)
THEOREM SyncQueues == ASSUME ~Async PROVE Spec => []QueueMembership
<1>1. SyncInv => QueueMembership
  BY QueueMembershipIsSets DEF SyncInv, Inv, CoreInv
<1> QED BY <1>1, SyncInvariant, PTL

\* A count that is exact is no less than 0, and all else has its type.
LEMMA IdleTyped ==
  ASSUME CoreInv, IdleCounted
  PROVE  TypeOK
<1>1. Typed
  BY DEF CoreInv
<1>2. numIdle \in Nat
  BY IdleFinite, FS_CardinalityType DEF IdleCounted
<1>3. DOMAIN pending = Req /\ \A r \in Req : IsPlan(pending[r])
  BY <1>1, PlanIsFinite DEF Typed
<1> QED BY <1>1, <1>2, <1>3 DEF TypeOK, Typed

(* Every variable has its type; the count of idle sessions is no less than *)
(* 0.                                                                      *)
THEOREM SyncTyped == ASSUME ~Async PROVE Spec => []TypeOK
<1>1. SyncInv => TypeOK
  BY IdleTyped DEF SyncInv, Inv
<1> QED BY <1>1, SyncInvariant, PTL

\* Only a turn sent to it and a turn taken from its queue make an idle
\* session wait.
LEMMA SyncHistory ==
  ASSUME ~Async, SyncInv, Next, NEW r \in Req, Idle(r), req'[r].status = "WAITING"
  PROVE  req'[r].prompt >= req[r].tokens - 1 + PromptTokens
<1>1. CoreInv /\ QueueSets /\ req[r] \in Record /\ req[r].status = "IDLE"
      /\ req[r].computed + 1 = req[r].tokens /\ req[r].placeholders = 0 /\ req[r].discard = 0
  BY DEF SyncInv, Inv, CoreInv, Typed, TokensCounted, Counted, Idle
<1>2. req'[r] # req[r]
  BY <1>1
<1>3. CASE ClientCall
  <2>1. ASSUME ResetPrefixCache PROVE FALSE
    <3>1. r \notin Range(running)
      BY <1>1 DEF QueueSets
    <3> QED BY <1>2, <2>1, <3>1 DEF ResetPrefixCache
  <2>2. PICK s \in Req : AddRequest(s) \/ SendTurn(s) \/ CloseSession(s)
    BY <1>3, <2>1 DEF ClientCall
  <2>3. ASSUME NEW update, Queue(s, update) PROVE FALSE
    <3>1. req' = [req EXCEPT ![s] = [req[s] EXCEPT !.updates = Append(req[s].updates, update)]]
      BY <2>3 DEF Queue
    <3>2. req'[r].status = req[r].status
      BY <1>1, <3>1 DEF CoreInv, Typed, Record
    <3> QED BY <1>1, <3>2
  <2>4. ASSUME Finish({s}) PROVE FALSE
    <3>1. req'[r] = IF r = s THEN Absent ELSE req[r]
      BY <2>4 DEF Finish
    <3> QED BY <1>2, <3>1, AbsentRecord
  <2>5. ~AddRequest(s)
    <3> SUFFICES ASSUME AddRequest(s) PROVE FALSE
      OBVIOUS
    <3>1. ~Live(s) /\ req' = [req EXCEPT ![s] = Arrived]
      BY <1>1 DEF AddRequest, CoreInv, ClientsKnown
    <3> QED BY <1>1, <1>2, <3>1 DEF Live, CoreInv, Typed
  <2>6. CASE SendTurn(s)
    <3>1. req' = [req EXCEPT ![s] = Resume(req[s])]
      BY <2>3, <2>6 DEF SendTurn
    <3>2. req'[r] = Resume(req[r])
      BY <1>1, <1>2, <3>1 DEF CoreInv, Typed
    <3> QED BY <1>1, <3>2, CountedResume
  <2>7. ~CloseSession(s)
    BY <2>3, <2>4 DEF CloseSession
  <2> QED BY <2>2, <2>5, <2>6, <2>7
<1>4. CASE AbortCall
  <2>1. PICK s \in Req : Abort(s)
    BY <1>4 DEF AbortCall
  <2>2. req'[r] = req[r] \/ req'[r] = Absent
    BY <2>1 DEF Abort, Finish
  <2> QED BY <1>2, <2>2, AbsentRecord
<1>5. CASE ScheduleStep
  <2>1. PICK order, p, k, ids : MaySchedule(order, p, k, ids) /\ SchedulePlan(order, p, k, ids)
    BY <1>5, SyncScheduleCases DEF ScheduleStep
  <2>2. r \notin Range(Victims(p)) \cup Range(Chosen(p, k))
    BY <1>1, <2>1, ScheduledRequests, ChosenProperties
  <2> QED BY <1>1, <1>2, <2>1, <2>2, ScheduledRequests
<1>6. CASE AwaitResult
  BY <1>2, <1>6 DEF AwaitResult, schedVars
<1>7. CASE ExecuteModel
  BY <1>2, <1>7 DEF ExecuteModel, WorkerStep
<1>8. CASE UpdateStep
  <2>1. phase = "result" /\ UpdateFromOutput
    BY <1>8 DEF UpdateStep
  <2>2. PICK eos \in SUBSET IF EosStops THEN Range(Outputs(Head(batches))) ELSE {} :
          IF UpdateRaises(Head(batches), eos) THEN Raise
          ELSE AfterUpdate(Head(batches), eos)
    BY <2>1 DEF UpdateFromOutput
  <2>3. AfterUpdate(Head(batches), eos)
    BY <2>1, <2>2, SyncUpdates
  <2> QED BY <2>1, <2>3, SyncCounts
<1> QED BY <1>3, <1>4, <1>5, <1>6, <1>7, <1>8 DEF Next

(* A turn loses nothing that its session had computed but the last token.  *)
THEOREM SyncTurnsKeepHistory == ASSUME ~Async PROVE Spec => TurnKeepsHistory
<1>1. SyncInv /\ [Next]_vars =>
        [\A r \in Req : Idle(r) /\ req'[r].status = "WAITING" =>
           req'[r].prompt >= req[r].tokens - 1 + PromptTokens]_vars
  BY SyncHistory
<1> QED BY <1>1, SyncInvariant, PTL DEF Spec, TurnKeepsHistory
-----------------------------------------------------------------------------
(* The worker.  Without resets of the prefix cache, its tables, its WARM   *)
(* copies and the contents of both pools are the ones the scheduler counts *)
(* on, so that attention reads a request's own tokens.  (A reset leaves a  *)
(* session's WARM copies behind, see README.md, and two steps in flight    *)
(* need an invariant that relates three views instead of two.)             *)

(* What a number of tokens fills of a logical block, and how many blocks   *)
(* it needs.                                                               *)
LEMMA BelowProperties ==
  ASSUME NEW n \in Nat, NEW i \in Nat \ {0}
  PROVE  /\ Below(n, i) \in 0 .. BlockSize
         /\ Below(n, i) > 0 <=> i <= CeilDiv(n)
         /\ Below(n, i) = BlockSize <=> i * BlockSize <= n
<1>1. BlockSize \in Nat \ {0}
  BY Sizes
<1>2. i * BlockSize \in Nat /\ (i - 1) * BlockSize = i * BlockSize - BlockSize
  BY <1>1
<1>3. n + BlockSize - 1 \in Int
  BY <1>1
<1>4. i <= CeilDiv(n) <=> i * BlockSize <= n + BlockSize - 1
  BY <1>1, <1>3, AtMostQuotient DEF CeilDiv
<1>5. Below(n, i) = Larger(0, Smaller(BlockSize, n - (i * BlockSize - BlockSize)))
  BY <1>2 DEF Below
<1> DEFINE x == i * BlockSize
<1>6. Below(n, i) = Larger(0, Smaller(BlockSize, n - (x - BlockSize)))
  BY <1>5
<1>7. x \in Nat /\ (i <= CeilDiv(n) <=> x <= n + BlockSize - 1)
  BY <1>2, <1>4
<1> HIDE DEF x
<1>8. /\ Below(n, i) \in 0 .. BlockSize
      /\ Below(n, i) > 0 <=> x <= n + BlockSize - 1
      /\ Below(n, i) = BlockSize <=> x <= n
  BY <1>1, <1>6, <1>7 DEF Larger, Smaller
<1> QED BY <1>7, <1>8 DEF x

\* More tokens fill no less of it.
LEMMA BelowGrows ==
  ASSUME NEW m \in Nat, NEW n \in Nat, m <= n, NEW i \in Nat \ {0}
  PROVE  /\ Below(m, i) <= Below(n, i)
         /\ CeilDiv(m) <= CeilDiv(n)
<1>1. BlockSize \in Nat \ {0} /\ (i - 1) * BlockSize \in Int
  BY Sizes
<1>2. Below(m, i) <= Below(n, i)
  <2> DEFINE x == (i - 1) * BlockSize
  <2>1. /\ Below(m, i) = Larger(0, Smaller(BlockSize, m - x))
        /\ Below(n, i) = Larger(0, Smaller(BlockSize, n - x))
    BY DEF Below
  <2>2. x \in Int
    BY <1>1
  <2> HIDE DEF x
  <2> QED BY <1>1, <2>1, <2>2 DEF Larger, Smaller
<1>3. CeilDiv(m) <= CeilDiv(n)
  <2>1. CeilDiv(m) \in Nat
    BY CeilDivType
  <2>2. CeilDiv(m) * BlockSize <= m + BlockSize - 1
    BY <1>1, <2>1, AtMostQuotient DEF CeilDiv
  <2>3. CeilDiv(m) * BlockSize \in Int
    BY <1>1, <2>1
  <2>4. CeilDiv(m) * BlockSize <= n + BlockSize - 1
    BY <1>1, <2>2, <2>3
  <2> QED BY <1>1, <2>1, <2>4, AtMostQuotient DEF CeilDiv
<1> QED BY <1>2, <1>3

(* The batch is made of the entries of the schedule: the n-th place is     *)
(* taken.                                                                  *)
LEMMA BatchOfEntries ==
  ASSUME NEW b \in BatchRecord, NEW n \in DOMAIN b.sched
  PROVE  /\ DOMAIN Batch(b) = DOMAIN b.sched
         /\ \E k \in DOMAIN b.sched : Batch(b)[n] = b.sched[k]
<1> DEFINE D == DOMAIN b.sched
           upto(k) == {j \in D : \/ b.sched[j].num < b.sched[k].num
                                 \/ b.sched[j].num = b.sched[k].num /\ j <= k}
           place == [k \in D |-> Cardinality(upto(k))]
           N == Len(b.sched)
<1>1. /\ D = 1 .. N /\ N \in Nat
      /\ \A k \in D : b.sched[k].num \in Nat
  <2>1. b.sched \in Seq(SchedEntry)
    BY DEF BatchRecord
  <2>2. \A k \in D : b.sched[k] \in SchedEntry
    BY <2>1, ElementOfSeq
  <2> QED BY <2>1, <2>2, LenProperties DEF SchedEntry
<1> HIDE DEF N
<1>2. IsFiniteSet(D) /\ Cardinality(D) = N
  BY <1>1, FS_Interval
<1> HIDE DEF D
<1>3. \A k \in D : /\ upto(k) \in SUBSET D /\ k \in upto(k)
                   /\ IsFiniteSet(upto(k)) /\ Cardinality(upto(k)) \in Nat
                   /\ Cardinality(upto(k)) <= N
  <2> SUFFICES ASSUME NEW k \in D
               PROVE  /\ upto(k) \in SUBSET D /\ k \in upto(k)
                      /\ IsFiniteSet(upto(k)) /\ Cardinality(upto(k)) \in Nat
                      /\ Cardinality(upto(k)) <= N
    OBVIOUS
  <2>1. upto(k) \in SUBSET D /\ k \in upto(k)
    BY <1>1
  <2> HIDE DEF upto
  <2> QED BY <1>2, <2>1, FS_Subset, FS_CardinalityType
<1>4. \A k \in D : Cardinality(upto(k)) \in 1 .. N
  <2> SUFFICES ASSUME NEW k \in D PROVE Cardinality(upto(k)) \in 1 .. N
    OBVIOUS
  <2> HIDE DEF upto
  <2>1. Cardinality(upto(k)) # 0
    BY <1>3, FS_EmptySet
  <2> QED BY <1>1, <1>3, <2>1
<1>5. \A k, l \in D : Cardinality(upto(k)) = Cardinality(upto(l)) => k = l
  <2>1. ASSUME NEW k \in D, NEW l \in D, k # l, l \notin upto(k)
        PROVE  Cardinality(upto(k)) < Cardinality(upto(l))
    <3>1. upto(k) \in SUBSET upto(l)
      BY <1>1, <2>1
    <3>2. l \in upto(l) /\ l \notin upto(k)
      BY <1>3, <2>1
    <3> HIDE DEF upto
    <3>3. Cardinality(upto(k)) <= Cardinality(upto(l)) /\ Cardinality(upto(k)) # Cardinality(upto(l))
      BY <1>3, <3>1, <3>2, FS_Subset
    <3> QED BY <1>3, <3>3
  <2>2. \A k, l \in D : k # l => l \notin upto(k) \/ k \notin upto(l)
    BY <1>1
  <2> HIDE DEF upto
  <2> QED BY <1>3, <2>1, <2>2
<1>6. \E k \in D : Cardinality(upto(k)) = n
  <2>1. place \in [D -> 1 .. N]
    BY <1>4
  <2>2. \A k, l \in D : place[k] = place[l] => k = l
    <3> HIDE DEF upto
    <3> QED BY <1>5
  <2> HIDE DEF place
  <2>3. place \in Injection(D, 1 .. N)
    BY <2>1, <2>2, Fun_IsInj
  <2>4. IsFiniteSet(1 .. N) /\ Cardinality(1 .. N) = N
    BY <1>1, FS_Interval
  <2>5. place \in Surjection(D, 1 .. N)
    BY <1>2, <2>3, <2>4, FS_Injection
  <2>6. n \in 1 .. N
    BY <1>1 DEF D
  <2> HIDE DEF upto
  <2>7. \A m \in 1 .. N : \E k \in D : place[k] = m
    BY <2>5, Fun_SurjectionProperties
  <2>8. PICK k \in D : place[k] = n
    BY <2>6, <2>7
  <2> QED BY <2>8 DEF place
<1>7. Batch(b) = [m \in D |-> b.sched[CHOOSE k \in D : Cardinality(upto(k)) = m]]
  BY DEF Batch, D
<1> HIDE DEF upto
<1>8. n \in D
  BY DEF D
<1> QED BY <1>6, <1>7, <1>8 DEF D

-----------------------------------------------------------------------------
\* Of a finite set of numbers, counting those below and those up to one.
LEMMA CountBelow ==
  ASSUME NEW K, K \subseteq Int, IsFiniteSet(K), NEW i \in K
  PROVE  /\ Cardinality({j \in K : j < i}) \in Nat
         /\ Cardinality({j \in K : j <= i}) = Cardinality({j \in K : j < i}) + 1
<1> DEFINE B == {j \in K : j < i}
<1>1. B \in SUBSET K /\ i \notin B
  OBVIOUS
<1>2. {j \in K : j <= i} = B \cup {i}
  <2>1. \A j \in K : j <= i <=> j < i \/ j = i
    OBVIOUS
  <2> QED BY <2>1
<1> HIDE DEF B
<1>3. IsFiniteSet(B) /\ Cardinality(B) \in Nat
  BY <1>1, FS_Subset, FS_CardinalityType
<1>4. Cardinality(B \cup {i}) = Cardinality(B) + 1
  BY <1>1, <1>3, FS_AddElement
<1> QED BY <1>2, <1>3, <1>4 DEF B

(* The n-th new logical block has a free slot, and no other one has it.    *)
LEMMA SlotForNew ==
  ASSUME NEW t, DOMAIN t.plan \subseteq Int, IsFiniteSet(DOMAIN t.plan),
         Cardinality(NewEntries(t)) <= Cardinality(FreeSlots)
  PROVE  /\ \A i \in NewEntries(t) : SlotFor(t, i) \in FreeSlots
         /\ \A i, j \in NewEntries(t) : SlotFor(t, i) = SlotFor(t, j) => i = j
<1> DEFINE K == NewEntries(t)
           F == FreeSlots
           lowK(i) == Cardinality({j \in K : j < i})
           lowF(s) == Cardinality({u \in F : u < s})
           upK(i) == Cardinality({j \in K : j <= i})
           upF(s) == Cardinality({u \in F : u <= s})
<1>1. K \subseteq Int /\ IsFiniteSet(K)
  <2>1. K \in SUBSET DOMAIN t.plan
    BY DEF NewEntries
  <2> QED BY <2>1, FS_Subset
<1>2. F \subseteq Int /\ IsFiniteSet(F)
  <2>1. WarmCapacity \in Nat
    BY WarmAssumption
  <2>2. F \in SUBSET (0 .. WarmCapacity - 1) /\ IsFiniteSet(0 .. WarmCapacity - 1)
    BY <2>1, FS_Interval DEF FreeSlots, WarmSlot
  <2>3. F \subseteq Int
    BY DEF FreeSlots, WarmSlot
  <2> HIDE DEF F
  <2> QED BY <2>2, <2>3, FS_Subset
<1>3. \A i \in K : SlotFor(t, i) = CHOOSE s \in F : lowF(s) = lowK(i)
  BY DEF SlotFor
<1>4. Cardinality(K) <= Cardinality(F)
  OBVIOUS
<1> HIDE DEF K, F
<1>5. /\ Cardinality(K) \in Nat /\ (\A i \in K : upK(i) \in 1 .. Cardinality(K))
      /\ \A i, j \in K : upK(i) = upK(j) => i = j
  BY <1>1, RankIsBijection
<1>6. Cardinality(F) \in Nat /\ \A n \in 1 .. Cardinality(F) : \E s \in F : upF(s) = n
  BY <1>2, RankIsBijection
<1>7. \A i \in K : lowK(i) \in Nat /\ upK(i) = lowK(i) + 1
  BY <1>1, CountBelow
<1>8. \A s \in F : lowF(s) \in Nat /\ upF(s) = lowF(s) + 1
  BY <1>2, CountBelow
<1> HIDE DEF lowK, lowF, upK, upF
<1>9. \A i \in K : \E s \in F : lowF(s) = lowK(i)
  <2> SUFFICES ASSUME NEW i \in K PROVE \E s \in F : lowF(s) = lowK(i)
    OBVIOUS
  <2>1. upK(i) \in 1 .. Cardinality(F)
    BY <1>4, <1>5, <1>6
  <2>2. PICK s \in F : upF(s) = upK(i)
    BY <1>6, <2>1
  <2> QED BY <1>7, <1>8, <2>2
<1>10. \A i \in K : SlotFor(t, i) \in F /\ lowF(SlotFor(t, i)) = lowK(i)
  BY <1>3, <1>9
<1>11. \A i, j \in K : SlotFor(t, i) = SlotFor(t, j) => i = j
  BY <1>5, <1>7, <1>10
<1> QED BY <1>10, <1>11 DEF K, F

-----------------------------------------------------------------------------
(* The step the worker has still to run, if there is one: synchronous      *)
(* scheduling has one at a time.                                           *)
Step == batches[1]
Owed == batches # <<>> /\ ~Step.done
Taken(r) == Owed /\ IsScheduled(Step, r)
Cleared == IF Owed THEN Step.finished \cup Step.preempted ELSE {}

\* The row and the WARM copies a request will have when it has been run.
Row(r) ==
  IF Owed THEN NewRow(Step, r, IF r \in Cleared THEN <<>> ELSE table[r])
  ELSE table[r]
Copies(r) == IF r \in Cleared THEN <<>> ELSE residency[r]

\* How many of its tokens have been written.
Reached(r) == IF Taken(r) THEN Entry(Step, r).start ELSE req[r].computed

\* The WARM copies made that the scheduler does not know of.
HasArrived(r) ==
  /\ batches # <<>>
  /\ \E n \in DOMAIN Step.results :
       Step.results[n] = "SUCCESS" /\ Step.trans[n].req = r
Arriving(r) == IF HasArrived(r) THEN DOMAIN pending[r] ELSE {}

Part(n, r, i) == [req |-> r, idx |-> i, upto |-> Below(n, i)]
Writes(e, i) == Below(e.start + e.num, i) > Below(e.start, i)

Slots == [slot : WarmSlot, source : Block]
WorkerTyped ==
  /\ table \in [Req -> Seq(Block \cup {NullBlock})]
  /\ DOMAIN residency = Req
  /\ \A r \in Req : /\ DOMAIN residency[r] \subseteq Nat \ {0}
                    /\ residency[r] \in [DOMAIN residency[r] -> Slots]
  /\ DOMAIN hot = Block /\ DOMAIN warm = WarmSlot

\* Every WARM slot a request owns holds a complete block of it.
CopiesComplete ==
  \A r \in Req : \A i \in DOMAIN residency[r] :
    warm[residency[r][i].slot] = [req |-> r, idx |-> i, upto |-> BlockSize]

\* The worker's view of one request is the scheduler's.
RowAgrees(r) ==
  Live(r) =>
    /\ DOMAIN Row(r) = DOMAIN req[r].blocks
    /\ \A i \in DOMAIN Row(r) :
         req[r].blocks[i] # NullBlock => Row(r)[i] = req[r].blocks[i]
CopiesAgree(r) ==
  r \notin finishedIds => DOMAIN Copies(r) = WarmIndices(req[r]) \cup Arriving(r)
HotAgrees(r) ==
  \A i \in DOMAIN req[r].blocks :
    req[r].blocks[i] # NullBlock /\ Below(Reached(r), i) > 0 =>
      hot[req[r].blocks[i]] = Part(Reached(r), r, i)

\* Only complete blocks are planned or in WARM, and none is missing.
TiersComplete(r) ==
  /\ IsPending(r) => pending[r] = DemotionPlan(req[r])
  /\ CeilDiv(req[r].computed) <= Len(req[r].blocks)
  /\ \A i \in WarmIndices(req[r]) : i * BlockSize <= req[r].computed

\* What is gone does not come back.
Gone(r) ==
  /\ r \in finishedIds => ~Live(r)
  /\ Owed /\ r \in Step.finished => ~Live(r)
  /\ Owed /\ r \in Step.preempted => req[r].status \in {"PREEMPTED", "ABSENT"}
  /\ r \in Cleared => ~Taken(r)
  /\ sent[r] = 0 => /\ table[r] = <<>> /\ residency[r] = <<>>
                    /\ r \notin finishedIds /\ r \notin Cleared /\ ~Taken(r)

Agrees(r) == RowAgrees(r) /\ CopiesAgree(r) /\ HotAgrees(r) /\ TiersComplete(r) /\ Gone(r)

\* What an entry of the step reads is there, and what it writes is its own.
Ready(e) ==
  /\ \A i \in 1 .. CeilDiv(e.start + e.num) : i \in DOMAIN Row(e.req)
  /\ \A i \in DOMAIN Row(e.req) :
       /\ Below(e.start, i) > 0 /\ i \notin DOMAIN Copies(e.req) =>
            Row(e.req)[i] # NullBlock /\ hot[Row(e.req)[i]] = Part(e.start, e.req, i)
       /\ Writes(e, i) => Row(e.req)[i] # NullBlock /\ i \notin DOMAIN Copies(e.req)
  /\ Live(e.req) => e.start + e.num = req[e.req].computed
  /\ ~Live(e.req) =>
       \A i \in DOMAIN Row(e.req) : Writes(e, i) => Row(e.req)[i] \in freeBlocks
StepReady == Owed => \A k \in DOMAIN Step.sched : Ready(Step.sched[k])
Apart(d, e) ==
  \A i \in DOMAIN Row(d.req), j \in DOMAIN Row(e.req) :
    Writes(d, i) /\ Writes(e, j) /\ Row(d.req)[i] = Row(e.req)[j] => d.req = e.req /\ i = j
WritesApart ==
  Owed => \A k, l \in DOMAIN Step.sched : Apart(Step.sched[k], Step.sched[l])

\* The warm-slot table is the residency of the requests it was made for.
SlotsOfRequest(r) == [i \in DOMAIN residency[r] |-> residency[r][i].slot]
TableFits ==
  \A n \in DOMAIN slotTable :
    slotTable[n].req \in Req /\ slotTable[n].slots = SlotsOfRequest(slotTable[n].req)

\* No answer is "STALE", and when the step has been run all have come.
Answered ==
  batches # <<>> =>
    /\ "STALE" \notin Range(Step.results)
    /\ Len(Step.results) <= Len(Step.trans)
    /\ Step.done => Len(Step.results) = Len(Step.trans)

WorkerInv ==
  /\ WorkerTyped /\ CopiesComplete /\ (\A r \in Req : Agrees(r))
  /\ StepReady /\ WritesApart /\ TableFits /\ Answered

-----------------------------------------------------------------------------
\* The step that is owed is one.
LEMMA StepTyped ==
  ASSUME CoreInv, batches # <<>>
  PROVE  /\ 1 \in DOMAIN batches /\ Step \in BatchRecord
         /\ Step.sched \in Seq(SchedEntry) /\ Step.trans \in Seq(Transition)
         /\ DOMAIN Step.sched = 1 .. Len(Step.sched) /\ Len(Step.sched) \in Nat
         /\ \A k \in DOMAIN Step.sched :
              Step.sched[k] \in SchedEntry /\ Step.sched[k].req \in Req
<1>1. batches \in Seq(BatchRecord)
  BY DEF CoreInv, Typed
<1>2. 1 \in DOMAIN batches
  BY <1>1, LenProperties, EmptySeq
<1>3. Step \in BatchRecord
  BY <1>1, <1>2, ElementOfSeq DEF Step
<1>4. Step.sched \in Seq(SchedEntry) /\ Step.trans \in Seq(Transition)
  BY <1>3 DEF BatchRecord
<1>5. \A k \in DOMAIN Step.sched : Step.sched[k] \in SchedEntry
  BY <1>4, ElementOfSeq
<1> QED BY <1>2, <1>3, <1>4, <1>5, LenProperties DEF SchedEntry

\* A step of the scheduler's that leaves the owed one alone leaves the view.
LEMMA ViewKept ==
  ASSUME UNCHANGED <<workerVars, batches>>
  PROVE  /\ Owed' = Owed /\ Step' = Step /\ Cleared' = Cleared
         /\ \A r : /\ Taken(r)' = Taken(r) /\ Row(r)' = Row(r) /\ Copies(r)' = Copies(r)
                   /\ HasArrived(r)' = HasArrived(r)
<1>1. Step' = Step /\ table' = table /\ residency' = residency /\ batches' = batches
  BY DEF Step, workerVars
<1>2. Owed' = Owed
  BY <1>1 DEF Owed
<1>3. Cleared' = Cleared
  BY <1>1, <1>2 DEF Cleared
<1>4. \A r : Taken(r)' = Taken(r)
  BY <1>1, <1>2 DEF Taken
<1>5. \A r : Copies(r)' = Copies(r)
  BY <1>1, <1>3 DEF Copies
<1>6. \A r : HasArrived(r)' = HasArrived(r)
  BY <1>1 DEF HasArrived
<1>7. \A r : Row(r)' = Row(r)
  BY <1>1, <1>2, <1>3 DEF Row
<1> QED BY <1>1, <1>2, <1>3, <1>4, <1>5, <1>6, <1>7

\* A request the worker has not heard of has no row and no copy.
LEMMA UntouchedRow ==
  ASSUME NEW r \in Req, Gone(r), sent[r] = 0
  PROVE  Row(r) = <<>> /\ Copies(r) = <<>>
<1>1. table[r] = <<>> /\ residency[r] = <<>> /\ r \notin Cleared /\ ~Taken(r)
  BY DEF Gone
<1>2. Owed => ~IsScheduled(Step, r)
  BY <1>1 DEF Taken
<1> QED BY <1>1, <1>2 DEF Row, Copies, NewRow

(* Calls that free some requests and leave the blocks and the computed     *)
(* tokens of all others keep the worker's invariant.                       *)
LEMMA CallKeepsWorker ==
  ASSUME CoreInv, CoreInv', WorkerInv, UNCHANGED <<workerVars, batches, pending>>,
         NEW S \in SUBSET Req, \A r \in S : Live(r) /\ ~IsPending(r) /\ req'[r] = Absent,
         \A r \in Req \ S :
           /\ req'[r].blocks = req[r].blocks /\ req'[r].computed = req[r].computed
           /\ Live(r)' => Live(r) \/ sent[r] = 0
           /\ Live(r) => Live(r)'
           /\ \/ req'[r].status = req[r].status
              \/ req[r].status \in {"IDLE", "ABSENT"},
         finishedIds' = finishedIds \cup S,
         \A r \in Req : sent'[r] = 0 => sent[r] = 0,
         freeBlocks' = freeBlocks \cup UNION {HeldBlocks(req[r]) : r \in S}
  PROVE  WorkerInv'
<1>1. /\ Owed' = Owed /\ Step' = Step /\ Cleared' = Cleared
      /\ \A r : /\ Taken(r)' = Taken(r) /\ Row(r)' = Row(r) /\ Copies(r)' = Copies(r)
                /\ HasArrived(r)' = HasArrived(r)
  BY ViewKept
<1>2. /\ table' = table /\ residency' = residency /\ slotTable' = slotTable
      /\ hot' = hot /\ warm' = warm /\ batches' = batches /\ pending' = pending
  BY DEF workerVars
<1>3. /\ \A r \in Req : req[r] \in Record /\ req'[r] \in Record
      /\ \A r \in Req : ~Live(r) => req[r] = Absent
      /\ \A r \in Req : ~Live(r)' => req'[r] = Absent
      /\ \A r \in Req : sent[r] = 0 => ~Live(r)
      /\ \A r \in Req : IsPending(r) => Idle(r)
  BY DEF CoreInv, Typed, ClientsKnown, PlansParked
<1>4. \A r \in Req : Arriving(r)' = Arriving(r)
  BY <1>1, <1>2 DEF Arriving
<1>5. \A r \in Req \ S : Reached(r)' = Reached(r)
  BY <1>1 DEF Reached
<1>6. ASSUME NEW r \in Req \ S PROVE Agrees(r)'
  <2>1. Agrees(r)
    BY DEF WorkerInv
  <2>2. RowAgrees(r)'
    <3>1. CASE Live(r)
      BY <1>1, <1>6, <2>1, <3>1 DEF Agrees, RowAgrees
    <3>2. CASE ~Live(r) /\ Live(r)'
      <4>1. sent[r] = 0 /\ req[r] = Absent
        BY <1>3, <1>6, <3>2
      <4>2. Row(r) = <<>> /\ req'[r].blocks = <<>>
        BY <1>6, <2>1, <4>1, UntouchedRow, AbsentRecord DEF Agrees
      <4> QED BY <1>1, <4>2 DEF RowAgrees
    <3> QED BY <3>1, <3>2 DEF RowAgrees
  <2>3. CopiesAgree(r)'
    <3>1. WarmIndices(req'[r]) = WarmIndices(req[r])
      BY <1>6 DEF WarmIndices
    <3> QED BY <1>1, <1>4, <1>6, <2>1, <3>1 DEF Agrees, CopiesAgree
  <2>4. HotAgrees(r)'
    BY <1>2, <1>5, <1>6, <2>1 DEF Agrees, HotAgrees
  <2>5. TiersComplete(r)'
    <3>1. /\ WarmIndices(req'[r]) = WarmIndices(req[r])
          /\ DemotionPlan(req'[r]) = DemotionPlan(req[r])
      BY <1>6 DEF WarmIndices, DemotionPlan
    <3> QED BY <1>2, <1>6, <2>1, <3>1 DEF Agrees, TiersComplete, IsPending
  <2>6. Gone(r)'
    <3>1. Gone(r)
      BY <2>1 DEF Agrees
    <3>2. r \in finishedIds' => ~Live(r)'
      BY <1>6, <3>1 DEF Gone
    <3>3. Owed' /\ r \in Step'.finished => ~Live(r)'
      <4>1. Owed /\ r \in Step.finished => r \in Cleared
        BY DEF Cleared
      <4> QED BY <1>1, <1>6, <3>1, <4>1 DEF Gone
    <3>4. Owed' /\ r \in Step'.preempted => req'[r].status \in {"PREEMPTED", "ABSENT"}
      <4>1. Owed /\ r \in Step.preempted => r \in Cleared /\ req[r].status \in {"PREEMPTED", "ABSENT"}
        BY <3>1 DEF Cleared, Gone
      <4>2. CASE req'[r].status = req[r].status
        BY <1>1, <4>1, <4>2
      <4>3. CASE Owed /\ r \in Step.preempted /\ req[r].status = "ABSENT"
        BY <1>6, <3>1, <4>1, <4>3 DEF Live, Gone
      <4> QED BY <1>1, <1>6, <4>1, <4>2, <4>3
    <3>5. r \in Cleared' => ~Taken(r)'
      BY <1>1, <3>1 DEF Gone
    <3>6. sent'[r] = 0 => /\ table'[r] = <<>> /\ residency'[r] = <<>>
                          /\ r \notin finishedIds' /\ r \notin Cleared' /\ ~Taken(r)'
      BY <1>1, <1>2, <1>6, <3>1 DEF Gone
    <3> QED BY <3>2, <3>3, <3>4, <3>5, <3>6 DEF Gone
  <2> QED BY <2>2, <2>3, <2>4, <2>5, <2>6 DEF Agrees
<1>7. ASSUME NEW r \in S PROVE Agrees(r)'
  <2>1. r \in Req /\ req'[r] = Absent /\ Live(r) /\ ~IsPending(r)
    OBVIOUS
  <2>2. ~Live(r)' /\ req'[r].blocks = <<>> /\ req'[r].computed = 0
    BY <2>1, AbsentRecord DEF Live, Absent
  <2>3. RowAgrees(r)' /\ CopiesAgree(r)' /\ HotAgrees(r)'
    BY <2>2 DEF RowAgrees, CopiesAgree, HotAgrees
  <2>4. TiersComplete(r)'
    <3>1. ~IsPending(r)' /\ WarmIndices(req'[r]) = {}
      BY <1>2, <2>1, <2>2 DEF IsPending, WarmIndices
    <3>2. CeilDiv(0) = 0
      BY Sizes DEF CeilDiv
    <3> QED BY <2>2, <3>1, <3>2 DEF TiersComplete
  <2>5. Gone(r)'
    <3>1. Gone(r) /\ sent'[r] # 0
      BY <1>3, <2>1 DEF WorkerInv, Agrees
    <3> QED BY <1>1, <2>1, <2>2, <3>1, AbsentRecord DEF Gone
  <2> QED BY <2>3, <2>4, <2>5 DEF Agrees
<1>8. StepReady'
  <2> SUFFICES ASSUME Owed, NEW k \in DOMAIN Step.sched PROVE Ready(Step.sched[k])'
    BY <1>1 DEF StepReady
  <2>0. PICK e : e = Step.sched[k]
    OBVIOUS
  <2>1. e.req \in Req /\ Step'.sched[k] = e /\ Taken(e.req)
    <3>1. e.req \in Req
      BY <2>0, StepTyped DEF Owed
    <3> QED BY <1>1, <2>0, <3>1 DEF Taken, IsScheduled
  <2>2. Ready(e) /\ Agrees(e.req)
    BY <2>0, <2>1 DEF WorkerInv, StepReady
  <2>3. sent[e.req] # 0
    BY <2>1, <2>2 DEF Agrees, Gone
  <2>4. Live(e.req)' => Live(e.req) /\ req'[e.req].computed = req[e.req].computed
    <3>1. CASE e.req \in S
      BY <3>1, AbsentRecord DEF Live
    <3>2. CASE e.req \notin S
      BY <2>1, <2>3, <3>2
    <3> QED BY <3>1, <3>2
  <2>5. ~Live(e.req)' =>
          \A i \in DOMAIN Row(e.req) : Writes(e, i) => Row(e.req)[i] \in freeBlocks'
    <3>1. CASE ~Live(e.req)
      BY <2>2, <3>1 DEF Ready
    <3>2. CASE Live(e.req) /\ e.req \notin S
      BY <2>1, <3>2
    <3>3. CASE Live(e.req) /\ e.req \in S
      <4> SUFFICES ASSUME NEW i \in DOMAIN Row(e.req), Writes(e, i) PROVE Row(e.req)[i] \in freeBlocks'
        OBVIOUS
      <4> DEFINE q == req[e.req]
      <4>1. Row(e.req)[i] # NullBlock /\ i \notin DOMAIN Copies(e.req)
        BY <2>2 DEF Ready
      <4>2. e.req \notin finishedIds
        BY <2>2, <3>3 DEF Agrees, Gone
      <4>3. i \notin WarmIndices(q) /\ i \in DOMAIN q.blocks
        BY <2>2, <3>3, <4>1, <4>2 DEF Agrees, CopiesAgree, RowAgrees
      <4>4. q.blocks[i] # NullBlock /\ Row(e.req)[i] = q.blocks[i]
        BY <2>2, <3>3, <4>3 DEF Agrees, RowAgrees, WarmIndices
      <4>5. Row(e.req)[i] \in HeldBlocks(q)
        BY <4>3, <4>4 DEF HeldBlocks
      <4> QED BY <3>3, <4>5
    <3> QED BY <3>1, <3>2, <3>3
  <2>6. Ready(e)'
    <3>1. /\ Row(e.req)' = Row(e.req) /\ Copies(e.req)' = Copies(e.req) /\ hot' = hot
      BY <1>1, <1>2
    <3>2. \A i \in 1 .. CeilDiv(e.start + e.num) : i \in DOMAIN Row(e.req)
      BY <2>2 DEF Ready
    <3>3. \A i \in DOMAIN Row(e.req) :
            /\ Below(e.start, i) > 0 /\ i \notin DOMAIN Copies(e.req) =>
                 Row(e.req)[i] # NullBlock /\ hot[Row(e.req)[i]] = Part(e.start, e.req, i)
            /\ Writes(e, i) => Row(e.req)[i] # NullBlock /\ i \notin DOMAIN Copies(e.req)
      BY <2>2 DEF Ready
    <3>4. Live(e.req) => e.start + e.num = req[e.req].computed
      BY <2>2 DEF Ready
    <3> QED BY <2>4, <2>5, <3>1, <3>2, <3>3, <3>4 DEF Ready
  <2> QED BY <2>1, <2>6
<1>9. WritesApart'
  <2>1. WritesApart
    BY DEF WorkerInv
  <2>2. \A d, e : Apart(d, e) => Apart(d, e)'
    BY <1>1 DEF Apart
  <2> SUFFICES ASSUME Owed, NEW k \in DOMAIN Step.sched, NEW l \in DOMAIN Step.sched
               PROVE  Apart(Step.sched[k], Step.sched[l])'
    BY <1>1 DEF WritesApart
  <2>3. PICK d, e : d = Step.sched[k] /\ e = Step.sched[l]
    OBVIOUS
  <2>4. Apart(d, e)'
    BY <2>1, <2>2, <2>3 DEF WritesApart
  <2> QED BY <1>1, <2>3, <2>4
<1>10. WorkerTyped' /\ CopiesComplete' /\ TableFits' /\ Answered'
  BY <1>1, <1>2 DEF WorkerInv, WorkerTyped, CopiesComplete, TableFits, SlotsOfRequest, Answered
<1>11. \A r \in Req : Agrees(r)'
  BY <1>6, <1>7
<1> QED BY <1>8, <1>9, <1>10, <1>11 DEF WorkerInv

-----------------------------------------------------------------------------
\* A request finds its entry in a step that has it once.
LEMMA EntryOf ==
  ASSUME NEW b, IsInjective(Members(b)), NEW k \in DOMAIN b.sched
  PROVE  IsScheduled(b, b.sched[k].req) /\ Entry(b, b.sched[k].req) = b.sched[k]
<1>1. DOMAIN Members(b) = DOMAIN b.sched /\ \A j \in DOMAIN b.sched : Members(b)[j] = b.sched[j].req
  BY DEF Members
<1>2. \A j \in DOMAIN b.sched : b.sched[j].req = b.sched[k].req => j = k
  BY <1>1 DEF IsInjective
<1>3. (CHOOSE j \in DOMAIN b.sched : b.sched[j].req = b.sched[k].req) = k
  BY <1>2
<1> QED BY <1>3 DEF IsScheduled, Entry

\* What the worker owes when a step has been scheduled, and what it held.
LEMMA ScheduledView ==
  ASSUME CoreInv, batches = <<>>, NEW order, NEW p, NEW k, NEW ids,
         MaySchedule(order, p, k, ids), SchedulePlan(order, p, k, ids), UNCHANGED workerVars
  PROVE  /\ ~Owed /\ Cleared = {}
         /\ \A r : /\ Row(r) = table[r] /\ Copies(r) = residency[r] /\ ~Taken(r)
                   /\ Reached(r) = req[r].computed /\ ~HasArrived(r)
         /\ Owed' /\ Step' = NewBatch(order, p, k, ids) /\ batches' # <<>>
         /\ Cleared' = finishedIds \cup Range(Victims(p))
         /\ \A r : Copies(r)' = IF r \in Cleared' THEN <<>> ELSE residency[r]
         /\ \A r : ~HasArrived(r)'
         /\ IsInjective(Members(Step'))
         /\ DOMAIN Step'.sched = DOMAIN Chosen(p, k)
         /\ \A n \in DOMAIN Chosen(p, k) : Step'.sched[n] = NewEntry(ids, Chosen(p, k)[n])
         /\ \A r : Taken(r)' <=> r \in Range(Chosen(p, k))
         /\ \A r \in Range(Chosen(p, k)) :
              /\ Entry(Step', r) = NewEntry(ids, r)
              /\ Row(r)' = (IF req[r].status # "RUNNING" THEN req[r].blocks
                            ELSE IF r \in Cleared' THEN <<>> ELSE table[r]) \o Ids(ids, r)
         /\ \A r : r \notin Range(Chosen(p, k)) =>
              Row(r)' = IF r \in Cleared' THEN <<>> ELSE table[r]
<1> DEFINE b == NewBatch(order, p, k, ids)
           C == Chosen(p, k)
<1>1. ~Owed /\ Cleared = {}
  BY DEF Owed, Cleared
<1>2. \A r : /\ Row(r) = table[r] /\ Copies(r) = residency[r] /\ ~Taken(r)
             /\ Reached(r) = req[r].computed /\ ~HasArrived(r)
  BY <1>1 DEF Row, Copies, Taken, Reached, HasArrived
<1>3. batches' = Append(<<>>, b) /\ b \in BatchRecord
  BY SchedulePlanUnfolded, NewBatchTyped
<1>4. Step' = b /\ batches' # <<>>
  BY <1>3 DEF Step
<1>5. b.done = FALSE /\ b.results = <<>> /\ b.finished = finishedIds /\ b.preempted = Range(Victims(p))
      /\ b.sched = [n \in DOMAIN C |-> NewEntry(ids, C[n])]
  BY DEF NewBatch
<1>6. Owed' /\ Cleared' = finishedIds \cup Range(Victims(p))
  BY <1>4, <1>5 DEF Owed, Cleared
<1>7. table' = table /\ residency' = residency
  BY DEF workerVars
<1>8. \A r : Copies(r)' = IF r \in Cleared' THEN <<>> ELSE residency[r]
  BY <1>7 DEF Copies
<1>9. \A r : ~HasArrived(r)'
  BY <1>4, <1>5 DEF HasArrived
<1>10. IsInjective(C)
  BY ChosenProperties
<1> HIDE DEF C, b
<1>11. /\ DOMAIN b.sched = DOMAIN C
       /\ \A n \in DOMAIN C : b.sched[n] = NewEntry(ids, C[n]) /\ b.sched[n].req = C[n]
  BY <1>5 DEF NewEntry
<1>12. IsInjective(Members(b))
  <2>1. Members(b) = [n \in DOMAIN C |-> C[n]]
    BY <1>11 DEF Members
  <2> QED BY <1>10, <2>1 DEF IsInjective
<1>13. \A r : Taken(r)' <=> r \in Range(C)
  <2>1. \A r : Taken(r)' <=> IsScheduled(b, r)
    BY <1>4, <1>6 DEF Taken
  <2>2. \A r : IsScheduled(b, r) <=> \E n \in DOMAIN C : C[n] = r
    BY <1>11 DEF IsScheduled
  <2> QED BY <2>1, <2>2 DEF Range
<1>14. ASSUME NEW r \in Range(C)
       PROVE  /\ Entry(b, r) = NewEntry(ids, r) /\ IsScheduled(b, r)
              /\ Row(r)' = (IF req[r].status # "RUNNING" THEN req[r].blocks
                            ELSE IF r \in Cleared' THEN <<>> ELSE table[r]) \o Ids(ids, r)
  <2>1. PICK n \in DOMAIN C : C[n] = r
    BY DEF Range
  <2>2. Entry(b, r) = NewEntry(ids, r) /\ IsScheduled(b, r)
    BY <1>11, <1>12, <2>1, EntryOf
  <2>3. Row(r)' = NewRow(b, r, IF r \in Cleared' THEN <<>> ELSE table[r])
    BY <1>4, <1>6, <1>7 DEF Row
  <2>4. /\ NewEntry(ids, r).fresh <=> req[r].status # "RUNNING"
        /\ NewEntry(ids, r).ids = IF req[r].status # "RUNNING" THEN req[r].blocks \o Ids(ids, r)
                                  ELSE Ids(ids, r)
    BY DEF NewEntry
  <2> QED BY <2>2, <2>3, <2>4 DEF NewRow
<1>15. \A r : r \notin Range(C) => Row(r)' = IF r \in Cleared' THEN <<>> ELSE table[r]
  <2>1. \A r : r \notin Range(C) => ~IsScheduled(b, r)
    BY <1>4, <1>6, <1>13 DEF Taken
  <2> QED BY <1>4, <1>6, <1>7, <2>1 DEF Row, NewRow
<1> QED BY <1>1, <1>2, <1>4, <1>6, <1>8, <1>9, <1>11, <1>12, <1>13, <1>14, <1>15 DEF C, b

\* A request that is scheduled has blocks for all it will have computed.
LEMMA ScheduledEnough ==
  ASSUME NEW q \in Record, NEW i \in Seq(Block), Len(i) = BlocksNeeded(q)
  PROVE  /\ Scheduled(q, i).computed \in Nat
         /\ CeilDiv(Scheduled(q, i).computed) <= Len(Scheduled(q, i).blocks)
<1>1. /\ Scheduled(q, i).blocks = q.blocks \o i
      /\ Scheduled(q, i).computed = q.computed + NewTokens(q)
  BY ScheduledRecord
<1>2. q.computed + NewTokens(q) \in Nat /\ BlocksNeeded(q) \in Nat
  BY BlocksNeededType
<1>3. Len(q.blocks \o i) = Len(q.blocks) + Len(i) /\ Len(q.blocks) \in Nat
  <2>1. q.blocks \in Seq(Block \cup {NullBlock}) /\ i \in Seq(Block \cup {NullBlock})
    BY RecordFields, SeqMonotonic
  <2> QED BY <2>1, ConcatProperties, LenProperties
<1>4. CeilDiv(q.computed + NewTokens(q)) \in Nat
  BY <1>2, CeilDivType
<1> DEFINE c == CeilDiv(q.computed + NewTokens(q))
           l == Len(q.blocks)
<1>5. Len(i) = Larger(c - l, 0) /\ c \in Nat /\ l \in Nat
  BY <1>3, <1>4 DEF BlocksNeeded
<1>6. c <= l + Len(i)
  <2> HIDE DEF c, l
  <2> QED BY <1>5 DEF Larger
<1> QED BY <1>1, <1>2, <1>3, <1>6

-----------------------------------------------------------------------------
\* One list behind another.
LEMMA ConcatList ==
  ASSUME NEW T, NEW s \in Seq(T), NEW t \in Seq(T)
  PROVE  /\ DOMAIN (s \o t) = 1 .. Len(s) + Len(t) /\ Len(s \o t) = Len(s) + Len(t)
         /\ \A i \in 1 .. Len(s) + Len(t) :
              (s \o t)[i] = IF i <= Len(s) THEN s[i] ELSE t[i - Len(s)]
BY ConcatProperties, LenProperties

\* What stands in the list of a request that is scheduled.
LEMMA ScheduledList ==
  ASSUME NEW q \in Record, NEW ids \in Seq(Block)
  PROVE  LET s == Scheduled(q, ids).blocks IN
         /\ DOMAIN s = 1 .. Len(q.blocks) + Len(ids) /\ Len(s) = Len(q.blocks) + Len(ids)
         /\ Len(q.blocks) \in Nat /\ Len(ids) \in Nat /\ DOMAIN q.blocks = 1 .. Len(q.blocks)
         /\ \A i \in DOMAIN s :
              s[i] = IF i <= Len(q.blocks) THEN q.blocks[i] ELSE ids[i - Len(q.blocks)]
<1>1. q.blocks \in Seq(Block \cup {NullBlock}) /\ ids \in Seq(Block \cup {NullBlock})
  BY RecordFields, SeqMonotonic
<1>2. Scheduled(q, ids).blocks = q.blocks \o ids
  BY ScheduledRecord
<1> QED BY <1>1, <1>2, ConcatProperties, LenProperties

\* So for the row of one that agreed.
LEMMA RowGrows ==
  ASSUME NEW q \in Record, NEW ids \in Seq(Block), NEW row \in Seq(Block \cup {NullBlock}),
         DOMAIN row = DOMAIN q.blocks,
         \A i \in DOMAIN row : q.blocks[i] # NullBlock => row[i] = q.blocks[i]
  PROVE  /\ DOMAIN (row \o ids) = DOMAIN Scheduled(q, ids).blocks
         /\ \A i \in DOMAIN (row \o ids) :
              Scheduled(q, ids).blocks[i] # NullBlock =>
                (row \o ids)[i] = Scheduled(q, ids).blocks[i]
<1>1. q.blocks \in Seq(Block \cup {NullBlock}) /\ ids \in Seq(Block \cup {NullBlock})
  BY RecordFields, SeqMonotonic
<1>2. Len(row) = Len(q.blocks) /\ Len(row) \in Nat /\ Len(ids) \in Nat
      /\ DOMAIN row = 1 .. Len(row)
  BY <1>1, LenProperties
<1>3. Scheduled(q, ids).blocks = q.blocks \o ids
  BY ScheduledRecord
<1>4. /\ DOMAIN (row \o ids) = 1 .. Len(row) + Len(ids)
      /\ DOMAIN (q.blocks \o ids) = 1 .. Len(row) + Len(ids)
      /\ \A i \in 1 .. Len(row) + Len(ids) :
           /\ (row \o ids)[i] = IF i <= Len(row) THEN row[i] ELSE ids[i - Len(row)]
           /\ (q.blocks \o ids)[i] = IF i <= Len(row) THEN q.blocks[i] ELSE ids[i - Len(row)]
  <2>1. /\ DOMAIN (row \o ids) = 1 .. Len(row) + Len(ids)
        /\ \A i \in 1 .. Len(row) + Len(ids) :
             (row \o ids)[i] = IF i <= Len(row) THEN row[i] ELSE ids[i - Len(row)]
    BY <1>1, ConcatList
  <2>2. /\ DOMAIN (q.blocks \o ids) = 1 .. Len(row) + Len(ids)
        /\ \A i \in 1 .. Len(row) + Len(ids) :
             (q.blocks \o ids)[i] = IF i <= Len(row) THEN q.blocks[i] ELSE ids[i - Len(row)]
    BY <1>1, <1>2, ConcatProperties, LenProperties
  <2> QED BY <2>1, <2>2
<1> QED BY <1>2, <1>3, <1>4

(* A step that is scheduled is in every request's favour: what a running   *)
(* or an admitted request had is where it was, what is new is behind it,   *)
(* and who is preempted starts again.                                      *)
LEMMA ScheduleAgrees ==
  ASSUME CoreInv, CoreInv', WorkerInv, batches = <<>>,
         NEW order, NEW p, NEW k, NEW ids,
         MaySchedule(order, p, k, ids), SchedulePlan(order, p, k, ids),
         UNCHANGED workerVars, UNCHANGED sent, NEW r \in Req
  PROVE  /\ Agrees(r)'
         /\ r \in Range(Chosen(p, k)) =>
              DOMAIN Copies(r)' = WarmIndices(req[r]) /\ r \notin Cleared'
<1> DEFINE C == Range(Chosen(p, k))
           V == Range(Victims(p))
           new == Ids(ids, r)
<1>1. /\ ~Owed /\ Cleared = {}
      /\ Row(r) = table[r] /\ Copies(r) = residency[r] /\ ~Taken(r)
      /\ Reached(r) = req[r].computed /\ ~HasArrived(r)
      /\ Owed' /\ Cleared' = finishedIds \cup V /\ Step' = NewBatch(order, p, k, ids)
      /\ Copies(r)' = (IF r \in Cleared' THEN <<>> ELSE residency[r])
      /\ ~HasArrived(r)' /\ (Taken(r)' <=> r \in C)
      /\ r \in C => /\ Entry(Step', r) = NewEntry(ids, r)
                    /\ Row(r)' = (IF req[r].status # "RUNNING" THEN req[r].blocks
                                  ELSE IF r \in Cleared' THEN <<>> ELSE table[r]) \o new
      /\ r \notin C => Row(r)' = IF r \in Cleared' THEN <<>> ELSE table[r]
  BY ScheduledView
<1>2. /\ table' = table /\ residency' = residency /\ hot' = hot /\ sent' = sent
  BY DEF workerVars
<1>3. /\ req[r] \in Record /\ req'[r] \in Record
      /\ ~Live(r) => req[r] = Absent
      /\ sent[r] = 0 => ~Live(r)
      /\ r \in V => req'[r] = Preempted(req[r]) /\ req[r].status = "RUNNING"
      /\ r \in C => /\ req'[r] = Scheduled(req[r], new) /\ ~IsPending(r)
                    /\ req[r].status \in {"RUNNING", "WAITING", "PREEMPTED"}
                    /\ r \notin V /\ new \in Seq(Block) /\ NewTokens(req[r]) > 0
      /\ r \notin V /\ r \notin C => req'[r] = req[r]
      /\ IsPending(r) \/ r \in Demotable => req'[r] = req[r]
  BY ScheduledRequests, ChosenProperties, IdsProperties, SMTT(30) DEF CoreInv, Typed, ClientsKnown
<1>4. Agrees(r) /\ table[r] \in Seq(Block \cup {NullBlock})
  BY DEF WorkerInv, WorkerTyped
<1>5. /\ finishedIds' = {}
      /\ r \in Range(order) => r \in Demotable /\ pending'[r] = DemotionPlan(req[r])
      /\ r \notin Range(order) => pending'[r] = pending[r]
  BY SchedulePlans, SchedulePlanUnfolded
<1>6. RowAgrees(r) /\ CopiesAgree(r) /\ HotAgrees(r) /\ TiersComplete(r) /\ Gone(r)
  BY <1>4 DEF Agrees
<1> HIDE DEF C, V, new
<1>7. r \in C => r \notin Cleared'
  BY <1>1, <1>3, <1>6 DEF Gone, Live
<1>8. r \in V => req'[r].blocks = <<>> /\ req'[r].computed = 0 /\ req'[r].status = "PREEMPTED"
  <2>1. \A q \in Record : Preempted(q).computed = 0
    BY DEF Preempted, Record
  <2> QED BY <1>3, <2>1, PreemptedRecord
<1>9. r \notin finishedIds => DOMAIN residency[r] = WarmIndices(req[r])
  BY <1>1, <1>6 DEF CopiesAgree, Arriving
<1>10. Live(r) => /\ DOMAIN table[r] = DOMAIN req[r].blocks
                  /\ \A i \in DOMAIN table[r] : req[r].blocks[i] # NullBlock => table[r][i] = req[r].blocks[i]
  BY <1>1, <1>6 DEF RowAgrees
<1>11. CASE r \in C
  <2>1. /\ req'[r] = Scheduled(req[r], new) /\ new \in Seq(Block) /\ r \notin Cleared' /\ r \notin V
        /\ Live(r) /\ ~IsPending(r) /\ r \notin finishedIds
        /\ req[r].blocks \in Seq(Block \cup {NullBlock}) /\ req[r].computed \in Nat
    BY <1>1, <1>3, <1>7, <1>11, RecordFields DEF Live
  <2>2. RowAgrees(r)'
    <3>1. CASE req[r].status # "RUNNING"
      <4>1. Row(r)' = req[r].blocks \o new
        BY <1>1, <1>11, <3>1
      <4>2. /\ DOMAIN (req[r].blocks \o new) = DOMAIN Scheduled(req[r], new).blocks
            /\ \A i \in DOMAIN (req[r].blocks \o new) :
                 Scheduled(req[r], new).blocks[i] # NullBlock =>
                   (req[r].blocks \o new)[i] = Scheduled(req[r], new).blocks[i]
        BY <2>1, <1>3, RowGrows
      <4> QED BY <2>1, <4>1, <4>2 DEF RowAgrees
    <3>2. CASE req[r].status = "RUNNING"
      <4>1. Row(r)' = table[r] \o new
        BY <1>1, <1>11, <2>1, <3>2
      <4>2. /\ DOMAIN (table[r] \o new) = DOMAIN Scheduled(req[r], new).blocks
            /\ \A i \in DOMAIN (table[r] \o new) :
                 Scheduled(req[r], new).blocks[i] # NullBlock =>
                   (table[r] \o new)[i] = Scheduled(req[r], new).blocks[i]
        BY <1>3, <1>4, <1>10, <2>1, RowGrows
      <4> QED BY <2>1, <4>1, <4>2 DEF RowAgrees
    <3> QED BY <3>1, <3>2
  <2>3. WarmIndices(req'[r]) = WarmIndices(req[r])
    BY <1>3, <2>1, ScheduledBlocks
  <2>4. CopiesAgree(r)' /\ DOMAIN Copies(r)' = WarmIndices(req[r])
    BY <1>1, <1>9, <2>1, <2>3 DEF CopiesAgree, Arriving
  <2>5. HotAgrees(r)'
    <3>1. Reached(r)' = req[r].computed
      BY <1>1, <1>11 DEF Reached, NewEntry
    <3> SUFFICES ASSUME NEW i \in DOMAIN req'[r].blocks, req'[r].blocks[i] # NullBlock,
                        Below(req[r].computed, i) > 0
                 PROVE  hot[req'[r].blocks[i]] = Part(req[r].computed, r, i)
      BY <1>2, <3>1 DEF HotAgrees, Part
    <3> DEFINE l == Len(req[r].blocks)
    <3>2. /\ i \in 1 .. l + Len(new) /\ l \in Nat /\ Len(new) \in Nat
          /\ DOMAIN req[r].blocks = 1 .. l
          /\ req'[r].blocks[i] = IF i <= l THEN req[r].blocks[i] ELSE new[i - l]
      BY <1>3, <2>1, ScheduledList, SMTT(30)
    <3>3. i <= CeilDiv(req[r].computed)
      <4>1. i \in Nat \ {0}
        BY <3>2
      <4> QED BY <2>1, <4>1, BelowProperties
    <3>4. CeilDiv(req[r].computed) <= l /\ CeilDiv(req[r].computed) \in Nat
      BY <1>6, <2>1, CeilDivType DEF TiersComplete
    <3> HIDE DEF l
    <3>5. i \in DOMAIN req[r].blocks /\ req'[r].blocks[i] = req[r].blocks[i]
      BY <3>2, <3>3, <3>4
    <3> QED BY <1>1, <1>6, <3>5 DEF HotAgrees
  <2>6. TiersComplete(r)'
    <3>1. ~IsPending(r)'
      <4>1. r \notin Demotable
        BY <1>3, <1>11 DEF Demotable, Idle
      <4> QED BY <1>5, <2>1, <4>1 DEF IsPending
    <3>2. Len(new) = BlocksNeeded(req[r])
      <4>1. Need(r) \in Nat /\ Need(r) = BlocksNeeded(req[r])
        BY <1>3, BlocksNeededType DEF Need
      <4>2. DOMAIN new = 1 .. Need(r)
        BY DEF new, Ids
      <4> QED BY <2>1, <4>1, <4>2, LenProperties
    <3>3. CeilDiv(req'[r].computed) <= Len(req'[r].blocks)
      BY <1>3, <2>1, <3>2, ScheduledEnough
    <3>4. req'[r].computed >= req[r].computed /\ req'[r].computed \in Nat
      <4>1. req'[r].computed = req[r].computed + NewTokens(req[r])
        BY <1>3, <2>1, ScheduledRecord
      <4>2. NewTokens(req[r]) > 0 /\ NewTokens(req[r]) \in Int
        BY <1>3, <1>11, BlocksNeededType
      <4> QED BY <2>1, <4>1, <4>2
    <3>5. \A i \in WarmIndices(req'[r]) : i * BlockSize <= req'[r].computed
      <4> SUFFICES ASSUME NEW i \in WarmIndices(req[r]) PROVE i * BlockSize <= req'[r].computed
        BY <2>3
      <4>1. i * BlockSize <= req[r].computed
        BY <1>6 DEF TiersComplete
      <4>2. i \in Nat
        BY <2>1, LenProperties DEF WarmIndices
      <4>3. i * BlockSize \in Nat
        BY <4>2, Sizes
      <4> QED BY <2>1, <3>4, <4>1, <4>3
    <3> QED BY <3>1, <3>3, <3>5 DEF TiersComplete
  <2>7. Gone(r)'
    <3>1. sent'[r] # 0
      BY <1>2, <1>3, <2>1
    <3>2. r \notin finishedIds' /\ r \notin Cleared' /\ Owed'
      BY <1>1, <1>5, <2>1
    <3>3. r \notin Step'.finished /\ r \notin Step'.preempted
      BY <3>2 DEF Cleared
    <3> QED BY <3>1, <3>2, <3>3 DEF Gone
  <2> QED BY <2>1, <2>2, <2>4, <2>5, <2>6, <2>7 DEF Agrees, C
<1>12. CASE r \in V
  <2>1. r \notin C /\ r \in Cleared' /\ ~Taken(r)' /\ Live(r)
    BY <1>1, <1>3, <1>12 DEF Live
  <2>2. Row(r)' = <<>> /\ Copies(r)' = <<>>
    BY <1>1, <2>1
  <2>3. RowAgrees(r)' /\ HotAgrees(r)'
    BY <1>8, <1>12, <2>2 DEF RowAgrees, HotAgrees
  <2>4. CopiesAgree(r)'
    BY <1>1, <1>8, <1>12, <2>2 DEF CopiesAgree, WarmIndices, Arriving
  <2>5. ~IsPending(r)'
    <3>1. ~IsPending(r) /\ r \notin Demotable
      BY <1>3, <1>12, CoreInv DEF CoreInv, PlansParked, Demotable, Idle
    <3> QED BY <1>5, <3>1 DEF IsPending
  <2>6. TiersComplete(r)'
    <3>1. CeilDiv(0) = 0
      BY Sizes DEF CeilDiv
    <3> QED BY <1>8, <1>12, <2>5, <3>1 DEF TiersComplete, WarmIndices
  <2>7. Gone(r)'
    <3>1. sent'[r] # 0
      BY <1>2, <1>3, <2>1
    <3>2. r \notin finishedIds
      BY <1>6, <2>1 DEF Gone
    <3>3. Step'.finished = finishedIds
      BY <1>1 DEF NewBatch
    <3> QED BY <1>5, <1>8, <1>12, <2>1, <3>1, <3>2, <3>3 DEF Gone
  <2> QED BY <2>1, <2>3, <2>4, <2>6, <2>7 DEF Agrees, C
<1>13. CASE r \notin C /\ r \notin V
  <2>1. req'[r] = req[r] /\ ~Taken(r)' /\ Reached(r)' = req[r].computed
    BY <1>1, <1>3, <1>13 DEF Reached
  <2>2. Live(r) => r \notin Cleared'
    BY <1>1, <1>6, <1>13 DEF Gone
  <2>3. RowAgrees(r)'
    BY <1>1, <1>10, <1>13, <2>1, <2>2 DEF RowAgrees, Live
  <2>4. CopiesAgree(r)'
    <3>1. CASE r \in Cleared'
      <4>1. WarmIndices(req'[r]) = {}
        BY <1>3, <2>1, <2>2, <3>1, AbsentRecord DEF WarmIndices
      <4> QED BY <1>1, <3>1, <4>1 DEF CopiesAgree, Arriving
    <3>2. CASE r \notin Cleared'
      BY <1>1, <1>9, <2>1, <3>2 DEF CopiesAgree, Arriving
    <3> QED BY <3>1, <3>2
  <2>5. HotAgrees(r)'
    BY <1>1, <1>2, <1>6, <2>1 DEF HotAgrees
  <2>6. TiersComplete(r)'
    BY <1>5, <1>6, <2>1 DEF TiersComplete, IsPending
  <2>7. Gone(r)'
    <3>1. Step'.finished = finishedIds /\ Step'.preempted = V
      BY <1>1 DEF NewBatch, V
    <3>2. Live(r)' <=> Live(r)
      BY <2>1 DEF Live
    <3>3. sent'[r] = 0 => table'[r] = <<>> /\ residency'[r] = <<>> /\ r \notin Cleared'
      BY <1>1, <1>2, <1>6, <1>13 DEF Gone
    <3> QED BY <1>5, <1>6, <1>13, <2>1, <3>1, <3>2, <3>3 DEF Gone
  <2> QED BY <1>13, <2>3, <2>4, <2>5, <2>6, <2>7 DEF Agrees, C
<1> QED BY <1>11, <1>12, <1>13

-----------------------------------------------------------------------------
\* Where one block is held, for any two requests and places.
LEMMA HeldOnce ==
  ASSUME HotConservation, NEW r \in Req, NEW s \in Req,
         NEW i \in DOMAIN req[r].blocks, NEW j \in DOMAIN req[s].blocks,
         req[r].blocks[i] # NullBlock, req[r].blocks[i] = req[s].blocks[j]
  PROVE  r = s /\ i = j /\ req[r].blocks[i] \notin freeBlocks
<1>1. req[r].blocks[i] \in HeldBlocks(req[r]) /\ req[r].blocks[i] \in HeldBlocks(req[s])
  BY DEF HeldBlocks
<1>2. r = s
  BY <1>1 DEF HotConservation
<1>3. i = j
  BY <1>2 DEF HotConservation
<1>4. req[r].blocks[i] \notin freeBlocks
  BY <1>1 DEF HotConservation
<1> QED BY <1>2, <1>3, <1>4

\* The same after a step.
LEMMA HeldOnceAfter ==
  ASSUME HotConservation', NEW r \in Req, NEW s \in Req,
         NEW i \in DOMAIN req'[r].blocks, NEW j \in DOMAIN req'[s].blocks,
         req'[r].blocks[i] # NullBlock, req'[r].blocks[i] = req'[s].blocks[j]
  PROVE  r = s /\ i = j
<1>1. req'[r].blocks[i] \in HeldBlocks(req'[r]) /\ req'[r].blocks[i] \in HeldBlocks(req'[s])
  BY DEF HeldBlocks
<1>2. r = s
  BY <1>1 DEF HotConservation
<1>3. i = j
  BY <1>2 DEF HotConservation
<1> QED BY <1>2, <1>3

\* A block that is complete is not written any more.
LEMMA CompleteNotWritten ==
  ASSUME NEW e \in SchedEntry, NEW i \in Nat \ {0}, i * BlockSize <= e.start
  PROVE  ~Writes(e, i)
<1>1. e.start \in Nat /\ e.start + e.num \in Nat
  BY DEF SchedEntry
<1>2. Below(e.start, i) = BlockSize
  BY <1>1, BelowProperties
<1>3. Below(e.start + e.num, i) \in 0 .. BlockSize
  BY <1>1, BelowProperties
<1>4. BlockSize \in Nat
  BY Sizes
<1> QED BY <1>2, <1>3, <1>4 DEF Writes

(* What a scheduled step reads and writes is there: history where its      *)
(* request has it, and room of its own behind it.                          *)
LEMMA ScheduledReady ==
  ASSUME CoreInv, CoreInv', WorkerInv, batches = <<>>,
         NEW order, NEW p, NEW k, NEW ids,
         MaySchedule(order, p, k, ids), SchedulePlan(order, p, k, ids),
         UNCHANGED workerVars, UNCHANGED sent, NEW r \in Range(Chosen(p, k)),
         NEW e, e = NewEntry(ids, r)
  PROVE  /\ Ready(e)' /\ r \in Req /\ e.req = r
         /\ \A i \in DOMAIN Row(r)' : Writes(e, i) =>
              /\ i \in DOMAIN req'[r].blocks /\ req'[r].blocks[i] # NullBlock
              /\ Row(r)'[i] = req'[r].blocks[i]
<1>1. /\ r \in Req /\ req'[r] = Scheduled(req[r], Ids(ids, r)) /\ Ids(ids, r) \in Seq(Block)
      /\ req[r] \in Record /\ req[r].computed \in Nat
  <2>1. /\ r \in Req /\ req'[r] = Scheduled(req[r], Ids(ids, r)) /\ Ids(ids, r) \in Seq(Block)
    BY ScheduledRequests, IdsProperties
  <2> QED BY <2>1, RecordFields DEF CoreInv, Typed
<1>2. Agrees(r)' /\ DOMAIN Copies(r)' = WarmIndices(req[r])
  BY <1>1, ScheduleAgrees
<1>3. /\ e.req = r /\ e.start = req[r].computed /\ e.num = NewTokens(req[r])
  BY DEF NewEntry
<1>4. e.start \in Nat /\ e.start + e.num = req'[r].computed /\ e.start + e.num \in Nat
  BY <1>1, <1>3, ScheduledRecord, BlocksNeededType
<1>5. Live(r)' /\ Reached(r)' = e.start
  <2>1. Live(r)'
    BY <1>1, ScheduledRecord DEF Live
  <2>2. Taken(r)' /\ Entry(Step', r) = e
    BY ScheduledView
  <2> QED BY <2>1, <2>2 DEF Reached
<1>6. WarmIndices(req'[r]) = WarmIndices(req[r])
  BY <1>1, ScheduledBlocks
<1>7. /\ DOMAIN Row(r)' = DOMAIN req'[r].blocks
      /\ \A i \in DOMAIN Row(r)' : req'[r].blocks[i] # NullBlock => Row(r)'[i] = req'[r].blocks[i]
  BY <1>2, <1>5 DEF Agrees, RowAgrees
<1>8. /\ DOMAIN req'[r].blocks = 1 .. Len(req'[r].blocks) /\ Len(req'[r].blocks) \in Nat
      /\ CeilDiv(req'[r].computed) <= Len(req'[r].blocks) /\ CeilDiv(req'[r].computed) \in Nat
  <2>1. req'[r].blocks \in Seq(Block \cup {NullBlock})
    BY <1>1, ScheduledRecord
  <2>2. CeilDiv(req'[r].computed) <= Len(req'[r].blocks)
    BY <1>2 DEF Agrees, TiersComplete
  <2> QED BY <1>4, <2>1, <2>2, LenProperties, CeilDivType
<1>9. \A i \in 1 .. CeilDiv(e.start + e.num) : i \in DOMAIN Row(r)'
  BY <1>4, <1>7, <1>8
<1>10. \A i \in DOMAIN Row(r)' : i \notin DOMAIN Copies(r)' =>
          req'[r].blocks[i] # NullBlock /\ Row(r)'[i] = req'[r].blocks[i]
  BY <1>2, <1>6, <1>7 DEF WarmIndices
<1>11. \A i \in DOMAIN Row(r)' : Writes(e, i) => i \notin DOMAIN Copies(r)'
  <2> SUFFICES ASSUME NEW i \in DOMAIN Row(r)', i \in DOMAIN Copies(r)' PROVE ~Writes(e, i)
    OBVIOUS
  <2>1. i \in WarmIndices(req[r]) /\ i \in Nat \ {0}
    BY <1>2, <1>7, <1>8
  <2>2. i * BlockSize <= req[r].computed
    BY <1>1, <2>1 DEF WorkerInv, Agrees, TiersComplete
  <2>3. e \in SchedEntry
    <3>1. PICK n \in DOMAIN Chosen(p, k) : Chosen(p, k)[n] = r
      BY DEF Range
    <3>2. NewBatch(order, p, k, ids) \in BatchRecord
      BY NewBatchTyped
    <3>3. /\ NewBatch(order, p, k, ids).sched \in Seq(SchedEntry)
          /\ n \in DOMAIN NewBatch(order, p, k, ids).sched
          /\ NewBatch(order, p, k, ids).sched[n] = e
      BY <3>1, <3>2 DEF BatchRecord, NewBatch
    <3> QED BY <3>3, ElementOfSeq
  <2> QED BY <1>3, <2>1, <2>2, <2>3, CompleteNotWritten
<1>12. \A i \in DOMAIN Row(r)' : Below(e.start, i) > 0 /\ i \notin DOMAIN Copies(r)' =>
          hot'[Row(r)'[i]] = Part(e.start, r, i)
  BY <1>2, <1>5, <1>7, <1>10 DEF Agrees, HotAgrees
<1>13. Ready(e)'
  BY <1>3, <1>4, <1>5, <1>7, <1>9, <1>10, <1>11, <1>12, BlockAssumption DEF Ready
<1> QED BY <1>1, <1>3, <1>7, <1>10, <1>11, <1>13

(* schedule() keeps the worker's invariant.                                *)
LEMMA ScheduleKeepsWorker ==
  ASSUME CoreInv, CoreInv', WorkerInv, batches = <<>>,
         NEW order, NEW p, NEW k, NEW ids,
         MaySchedule(order, p, k, ids), SchedulePlan(order, p, k, ids),
         UNCHANGED workerVars, UNCHANGED sent
  PROVE  WorkerInv'
<1> DEFINE C == Chosen(p, k)
<1>1. /\ Owed' /\ IsInjective(Members(Step')) /\ DOMAIN Step'.sched = DOMAIN C
      /\ \A n \in DOMAIN C : Step'.sched[n] = NewEntry(ids, C[n])
      /\ Step' = NewBatch(order, p, k, ids)
  BY ScheduledView
<1>2. \A n \in DOMAIN C : C[n] \in Range(C)
  BY DEF Range
<1>3. \A r \in Req : Agrees(r)'
  BY ScheduleAgrees
<1>4. StepReady'
  <2> SUFFICES ASSUME NEW n \in DOMAIN C PROVE Ready(Step.sched[n])'
    BY <1>1 DEF StepReady
  <2>1. PICK e : e = NewEntry(ids, C[n])
    OBVIOUS
  <2>2. Ready(e)'
    BY <1>2, <2>1, ScheduledReady
  <2> QED BY <1>1, <2>1, <2>2
<1>5. WritesApart'
  <2> SUFFICES ASSUME NEW m \in DOMAIN C, NEW n \in DOMAIN C
               PROVE  Apart(Step.sched[m], Step.sched[n])'
    BY <1>1 DEF WritesApart
  <2>1. PICK r \in Range(C), s \in Range(C) : r = C[m] /\ s = C[n]
    BY <1>2
  <2>2. PICK d, e : d = NewEntry(ids, r) /\ e = NewEntry(ids, s)
    OBVIOUS
  <2>3. Step'.sched[m] = d /\ Step'.sched[n] = e
    BY <1>1, <2>1, <2>2
  <2> HIDE DEF C
  <2>4. /\ r \in Req /\ d.req = r
        /\ \A i \in DOMAIN Row(r)' : Writes(d, i) =>
              /\ i \in DOMAIN req'[r].blocks /\ req'[r].blocks[i] # NullBlock
              /\ Row(r)'[i] = req'[r].blocks[i]
    BY <2>1, <2>2, ScheduledReady DEF C
  <2>5. /\ s \in Req /\ e.req = s
        /\ \A i \in DOMAIN Row(s)' : Writes(e, i) =>
              /\ i \in DOMAIN req'[s].blocks /\ req'[s].blocks[i] # NullBlock
              /\ Row(s)'[i] = req'[s].blocks[i]
    BY <2>1, <2>2, ScheduledReady DEF C
  <2>6. ASSUME NEW i \in DOMAIN Row(r)', NEW j \in DOMAIN Row(s)', Writes(d, i), Writes(e, j),
               Row(r)'[i] = Row(s)'[j]
        PROVE  r = s /\ i = j
    <3>1. /\ i \in DOMAIN req'[r].blocks /\ req'[r].blocks[i] # NullBlock
          /\ Row(r)'[i] = req'[r].blocks[i]
      BY <2>4, <2>6
    <3>2. /\ j \in DOMAIN req'[s].blocks /\ Row(s)'[j] = req'[s].blocks[j]
      BY <2>5, <2>6
    <3>3. HotConservation'
      BY DEF CoreInv
    <3>4. req'[r].blocks[i] = req'[s].blocks[j] /\ r \in Req /\ s \in Req
      BY <2>4, <2>5, <2>6, <3>1, <3>2
    <3> QED BY <3>1, <3>2, <3>3, <3>4, HeldOnceAfter
  <2>7. Apart(d, e)'
    BY <2>4, <2>5, <2>6, BlockAssumption DEF Apart, Writes, Below
  <2> QED BY <2>3, <2>7
<1>6. WorkerTyped' /\ CopiesComplete' /\ TableFits'
  <2>1. /\ table' = table /\ residency' = residency /\ slotTable' = slotTable
        /\ hot' = hot /\ warm' = warm
    BY DEF workerVars
  <2> QED BY <2>1 DEF WorkerInv, WorkerTyped, CopiesComplete, TableFits, SlotsOfRequest
<1>7. Answered'
  <2>1. Step'.results = <<>> /\ Step'.trans \in Seq(Transition)
    <3>1. NewBatch(order, p, k, ids) \in BatchRecord
      BY NewBatchTyped
    <3> QED BY <1>1, <3>1 DEF NewBatch, BatchRecord
  <2>2. Len(Step'.trans) \in Nat /\ Range(Step'.results) = {} /\ Len(Step'.results) = 0
    BY <2>1, LenProperties DEF Range
  <2> QED BY <1>1, <2>2 DEF Answered, Owed
<1> QED BY <1>3, <1>4, <1>5, <1>6, <1>7 DEF WorkerInv

-----------------------------------------------------------------------------
\* The worker works on the one step there is.
LEMMA OneStep ==
  ASSUME SyncInv, batches # <<>>
  PROVE  DOMAIN batches = {1} /\ Head(batches) = Step /\ Len(batches) = 1
<1>1. batches \in Seq(BatchRecord) /\ Len(batches) <= 1
  BY DEF SyncInv, Inv, CoreInv, Typed, Serial
<1> DEFINE n == Len(batches)
<1>2. n \in Nat /\ n # 0 /\ n <= 1 /\ DOMAIN batches = 1 .. n
  BY <1>1, LenProperties, EmptySeq
<1> HIDE DEF n
<1>3. n = 1 /\ DOMAIN batches = {1}
  BY <1>2
<1> QED BY <1>1, <1>3, HeadTailProperties DEF n, Step

(* A transition whose turn it is: the worker has its session's row and the *)
(* copies the scheduler knows of, and the plan fits both.                  *)
LEMMA TransitionFits ==
  ASSUME SyncInv, WorkerInv, batches # <<>>, ~Step.done,
         NEW m \in DOMAIN Step.trans, m \notin DOMAIN Step.results,
         NEW t, t = Step.trans[m]
  PROVE  /\ t.req \in Req /\ Live(t.req) /\ t.req \notin finishedIds /\ sent[t.req] # 0
         /\ t.plan = pending[t.req] /\ IsPlan(t.plan) /\ t.plan = DemotionPlan(req[t.req])
         /\ ~Taken(t.req) /\ t.req \notin Cleared /\ ~HasArrived(t.req)
         /\ DOMAIN residency[t.req] = WarmIndices(req[t.req])
         /\ NewEntries(t) = DOMAIN t.plan /\ DOMAIN t.plan # {} /\ ~Stale(t)
         /\ \A i \in DOMAIN t.plan :
              /\ i \in Nat \ {0} /\ t.plan[i] \in Block
              /\ hot[t.plan[i]] = [req |-> t.req, idx |-> i, upto |-> BlockSize]
<1> DEFINE r == t.req
           q == req[t.req]
<1>1. CoreInv /\ PlansInFlight /\ PlansParked /\ Owed
  BY DEF SyncInv, Inv, CoreInv, Owed
<1>2. 1 \in DOMAIN batches /\ Step \in BatchRecord /\ t \in Transition
  <2>1. 1 \in DOMAIN batches /\ Step \in BatchRecord /\ Step.trans \in Seq(Transition)
    BY <1>1, StepTyped
  <2> QED BY <2>1, ElementOfSeq
<1>3. r \in Req /\ q \in Record
  BY <1>1, <1>2 DEF Transition, CoreInv, Typed
<1>4. t.plan # NoPlan /\ t.plan = pending[r]
  BY <1>1, <1>2 DEF PlansInFlight, Step
<1>5. IsPending(r) /\ Idle(r) /\ CommitOK(q, t.plan)
  BY <1>1, <1>3, <1>4 DEF IsPending, PlansParked
<1>6. Live(r) /\ sent[r] # 0
  BY <1>1, <1>3, <1>5 DEF Live, Idle, CoreInv, ClientsKnown
<1>7. Agrees(r)
  BY <1>3 DEF WorkerInv
<1>8. r \notin finishedIds /\ r \notin Cleared
  BY <1>1, <1>5, <1>6, <1>7 DEF Agrees, Gone, Cleared, Idle
<1>9. ~Taken(r)
  <2>1. \A s \in Range(Members(Step)) : req[s].status \in {"RUNNING", "ABSENT"}
    BY <1>2 DEF SyncInv, StepRuns, Step
  <2>2. IsScheduled(Step, r) => r \in Range(Members(Step))
    BY DEF IsScheduled, Members, Range
  <2> QED BY <1>5, <2>1, <2>2 DEF Taken, Idle
<1>10. ~HasArrived(r)
  <2> SUFFICES ASSUME NEW n \in DOMAIN Step.results, Step.trans[n].req = r PROVE FALSE
    BY DEF HasArrived
  <2>1. n \in DOMAIN Step.trans
    <3>1. Step.results \in Seq({"STALE", "CAPACITY", "SUCCESS"}) /\ Step.trans \in Seq(Transition)
      BY <1>2 DEF BatchRecord
    <3>2. Len(Step.results) <= Len(Step.trans)
      BY DEF WorkerInv, Answered
    <3> DEFINE x == Len(Step.results)
               y == Len(Step.trans)
    <3>3. n \in 1 .. x /\ x \in Nat /\ y \in Nat /\ DOMAIN Step.trans = 1 .. y /\ x <= y
      BY <3>1, <3>2, LenProperties
    <3> HIDE DEF x, y
    <3> QED BY <3>3
  <2>2. n = m
    BY <1>1, <1>2, <2>1 DEF PlansInFlight, Step
  <2> QED BY <2>2
<1>11. t.plan = DemotionPlan(q) /\ IsPlan(t.plan)
  BY <1>3, <1>4, <1>5, <1>7, DemotionPlanIsPlan DEF Agrees, TiersComplete
<1>12. DOMAIN residency[r] = WarmIndices(q)
  BY <1>7, <1>8, <1>10 DEF Agrees, CopiesAgree, Copies, Arriving
<1>13. DOMAIN t.plan \subseteq DOMAIN q.blocks \ WarmIndices(q) /\ DOMAIN t.plan # {}
  BY <1>3, <1>4, <1>11, DemotionPlanIsPlan
<1>14. NewEntries(t) = DOMAIN t.plan
  BY <1>12, <1>13 DEF NewEntries
<1>15. \A i \in DOMAIN t.plan : /\ i \in Nat \ {0} /\ t.plan[i] \in Block /\ t.plan[i] # NullBlock
                                /\ i \in DOMAIN q.blocks /\ q.blocks[i] = t.plan[i]
                                /\ i * BlockSize <= q.computed
  <2>1. \A i \in DOMAIN t.plan : i * BlockSize <= q.computed
    BY <1>11 DEF DemotionPlan
  <2> QED BY <1>5, <1>11, <2>1, BlockAssumption DEF IsPlan, CommitOK
<1>16. ~Stale(t)
  <2>1. Row(r) = table[r]
    BY <1>8, <1>9 DEF Row, Taken, NewRow
  <2>2. /\ DOMAIN table[r] = DOMAIN q.blocks
        /\ \A i \in DOMAIN table[r] : q.blocks[i] # NullBlock => table[r][i] = q.blocks[i]
    BY <1>6, <1>7, <2>1 DEF Agrees, RowAgrees
  <2>3. table[r] # <<>>
    <3>1. DOMAIN table[r] # {}
      BY <1>13, <1>15, <2>2
    <3> QED BY <3>1
  <2>4. \A i \in DOMAIN t.plan : /\ i \in DOMAIN table[r] /\ table[r][i] = t.plan[i]
                                 /\ i \notin DOMAIN residency[r]
    BY <1>12, <1>13, <1>15, <2>2
  <2> QED BY <2>3, <2>4 DEF Stale
<1>17. \A i \in DOMAIN t.plan : hot[t.plan[i]] = [req |-> r, idx |-> i, upto |-> BlockSize]
  <2> SUFFICES ASSUME NEW i \in DOMAIN t.plan
               PROVE  hot[t.plan[i]] = [req |-> r, idx |-> i, upto |-> BlockSize]
    OBVIOUS
  <2>1. Reached(r) = q.computed
    BY <1>9 DEF Reached
  <2>2. q.computed \in Nat /\ i \in Nat \ {0} /\ i * BlockSize <= q.computed
    BY <1>3, <1>15, RecordFields
  <2>3. Below(q.computed, i) = BlockSize /\ BlockSize > 0
    BY <2>2, BelowProperties, Sizes
  <2> QED BY <1>7, <1>15, <2>1, <2>3, ZenonT(30) DEF Agrees, HotAgrees, Part
<1> QED BY <1>3, <1>4, <1>6, <1>8, <1>9, <1>10, <1>11, <1>12, <1>13, <1>14, <1>15, <1>16, <1>17
-----------------------------------------------------------------------------
(* A migration that succeeds copies complete blocks into free slots.       *)
LEMMA MigrationCopies ==
  ASSUME SyncInv, WorkerInv, batches # <<>>, ~Step.done,
         NEW m \in DOMAIN Step.trans, m \notin DOMAIN Step.results,
         NEW t, t = Step.trans[m], Migrate(t), Verdict(t) = "SUCCESS"
  PROVE  /\ WorkerTyped' /\ CopiesComplete' /\ slotTable' = <<>>
         /\ DOMAIN residency'[t.req] = DOMAIN residency[t.req] \cup DOMAIN t.plan
         /\ \A r \in Req : r # t.req => residency'[r] = residency[r]
         /\ table' = table /\ hot' = hot
<1>1. /\ t.req \in Req /\ IsPlan(t.plan) /\ NewEntries(t) = DOMAIN t.plan /\ DOMAIN t.plan # {}
      /\ \A i \in DOMAIN t.plan :
           /\ i \in Nat \ {0} /\ t.plan[i] \in Block
           /\ hot[t.plan[i]] = [req |-> t.req, idx |-> i, upto |-> BlockSize]
  BY TransitionFits
<1>2. Cardinality(NewEntries(t)) <= Cardinality(FreeSlots)
  <2>1. ~(~Stale(t) /\ Cardinality(NewEntries(t)) > Cardinality(FreeSlots))
    BY DEF Verdict
  <2>2. ~Stale(t)
    BY TransitionFits
  <2>3. Cardinality(NewEntries(t)) \in Nat /\ Cardinality(FreeSlots) \in Nat
    <3>1. IsFiniteSet(NewEntries(t))
      BY <1>1 DEF IsPlan
    <3>2. FreeSlots \in SUBSET (0 .. WarmCapacity - 1) /\ IsFiniteSet(0 .. WarmCapacity - 1)
      BY WarmAssumption, FS_Interval DEF FreeSlots, WarmSlot
    <3>3. IsFiniteSet(FreeSlots)
      BY <3>2, FS_Subset
    <3> QED BY <3>1, <3>3, FS_CardinalityType
  <2> QED BY <2>1, <2>2, <2>3
<1>3. /\ \A i \in DOMAIN t.plan : SlotFor(t, i) \in FreeSlots
      /\ \A i, j \in DOMAIN t.plan : SlotFor(t, i) = SlotFor(t, j) => i = j
  <2>1. DOMAIN t.plan \subseteq Int /\ IsFiniteSet(DOMAIN t.plan)
    BY <1>1 DEF IsPlan
  <2> QED BY <1>1, <1>2, <2>1, SlotForNew
<1> DEFINE old == residency[t.req]
           new == [i \in DOMAIN old \cup DOMAIN t.plan |->
                     IF i \in DOMAIN old THEN old[i]
                     ELSE [slot |-> SlotFor(t, i), source |-> t.plan[i]]]
<1>4. /\ residency' = [residency EXCEPT ![t.req] = new]
      /\ warm' = [s \in WarmSlot |->
            IF \E i \in DOMAIN t.plan : SlotFor(t, i) = s
            THEN hot[t.plan[CHOOSE i \in DOMAIN t.plan : SlotFor(t, i) = s]]
            ELSE warm[s]]
      /\ slotTable' = <<>> /\ table' = table /\ hot' = hot
  BY <1>1 DEF Migrate
<1>5. WorkerTyped /\ DOMAIN residency = Req
  BY DEF WorkerInv, WorkerTyped
<1>6. residency'[t.req] = new /\ (\A r \in Req : r # t.req => residency'[r] = residency[r])
      /\ DOMAIN residency' = Req
  BY <1>1, <1>4, <1>5
<1>7. /\ DOMAIN new = DOMAIN old \cup DOMAIN t.plan
      /\ \A i \in DOMAIN old : new[i] = old[i]
      /\ \A i \in DOMAIN new : i \notin DOMAIN old =>
           i \in DOMAIN t.plan /\ new[i] = [slot |-> SlotFor(t, i), source |-> t.plan[i]]
  OBVIOUS
<1>8. \A i \in DOMAIN old : old[i] \in Slots /\ i \in Nat \ {0}
  BY <1>1, <1>5 DEF WorkerTyped
<1>9. \A i \in DOMAIN new : new[i] \in Slots /\ i \in Nat \ {0}
  <2>1. \A i \in DOMAIN t.plan : SlotFor(t, i) \in WarmSlot /\ t.plan[i] \in Block /\ i \in Nat \ {0}
    BY <1>1, <1>3 DEF FreeSlots
  <2>2. \A i \in DOMAIN t.plan : [slot |-> SlotFor(t, i), source |-> t.plan[i]] \in Slots
    BY <2>1 DEF Slots
  <2> SUFFICES ASSUME NEW i \in DOMAIN new PROVE new[i] \in Slots /\ i \in Nat \ {0}
    OBVIOUS
  <2> HIDE DEF new, old
  <2>3. CASE i \in DOMAIN old
    BY <1>7, <1>8, <2>3
  <2>4. CASE i \notin DOMAIN old
    <3>1. i \in DOMAIN t.plan /\ new[i] = [slot |-> SlotFor(t, i), source |-> t.plan[i]]
      BY <1>7, <2>4
    <3> QED BY <2>1, <2>2, <3>1
  <2> QED BY <2>3, <2>4
<1>10. new \in [DOMAIN new -> Slots] /\ DOMAIN new \subseteq Nat \ {0}
  BY <1>9
<1> HIDE DEF new, old
<1>11. WorkerTyped'
  BY <1>4, <1>5, <1>6, <1>10 DEF WorkerTyped
<1>12. ASSUME NEW r \in Req, NEW i \in DOMAIN residency[r]
       PROVE  warm'[residency[r][i].slot] = [req |-> r, idx |-> i, upto |-> BlockSize]
  <2>1. residency[r][i].slot \in WarmSlot /\ residency[r][i].slot \notin FreeSlots
    BY <1>5, <1>12 DEF WorkerTyped, Slots, FreeSlots, SlotsOf
  <2>2. warm'[residency[r][i].slot] = warm[residency[r][i].slot]
    BY <1>3, <1>4, <2>1
  <2> QED BY <1>12, <2>2 DEF WorkerInv, CopiesComplete
<1>13. ASSUME NEW i \in DOMAIN t.plan
       PROVE  warm'[SlotFor(t, i)] = [req |-> t.req, idx |-> i, upto |-> BlockSize]
  <2>1. SlotFor(t, i) \in WarmSlot
    BY <1>3, <1>13 DEF FreeSlots
  <2>2. (CHOOSE j \in DOMAIN t.plan : SlotFor(t, j) = SlotFor(t, i)) = i
    BY <1>3, <1>13
  <2>3. warm'[SlotFor(t, i)] = hot[t.plan[i]]
    BY <1>4, <1>13, <2>1, <2>2
  <2> QED BY <1>1, <1>13, <2>3
<1>14. CopiesComplete'
  <2> SUFFICES ASSUME NEW r \in Req, NEW i \in DOMAIN residency'[r]
               PROVE  warm'[residency'[r][i].slot] = [req |-> r, idx |-> i, upto |-> BlockSize]
    BY DEF CopiesComplete
  <2>1. CASE r # t.req
    BY <1>6, <1>12, <2>1
  <2>2. CASE r = t.req /\ i \in DOMAIN old
    BY <1>6, <1>7, <1>12, <2>2 DEF old
  <2>3. CASE r = t.req /\ i \notin DOMAIN old
    <3>1. i \in DOMAIN new /\ residency'[r][i] = new[i]
      BY <1>6, <2>3
    <3>2. i \in DOMAIN t.plan /\ new[i] = [slot |-> SlotFor(t, i), source |-> t.plan[i]]
      BY <1>7, <2>3, <3>1
    <3>3. residency'[r][i].slot = SlotFor(t, i)
      BY <3>1, <3>2
    <3> QED BY <1>13, <2>3, <3>2, <3>3
  <2> QED BY <2>1, <2>2, <2>3
<1> QED BY <1>4, <1>6, <1>7, <1>11, <1>14 DEF old

-----------------------------------------------------------------------------
\* What an answer to a transition adds to the step.
LEMMA AnsweredStep ==
  ASSUME SyncInv, batches # <<>>, ~Step.done, Len(Step.results) < Len(Step.trans), NEW v,
         batches' = [batches EXCEPT ![1].results = Append(@, v)], table' = table
  PROVE  LET m == Len(Step.results) + 1 IN
         /\ m \in DOMAIN Step.trans /\ m \notin DOMAIN Step.results /\ batches' # <<>>
         /\ Owed /\ Owed' /\ Cleared' = Cleared
         /\ Step'.sched = Step.sched /\ Step'.trans = Step.trans
         /\ Step'.finished = Step.finished /\ Step'.preempted = Step.preempted
         /\ Range(Step'.results) = Range(Step.results) \cup {v}
         /\ Len(Step'.results) = m
         /\ \A r : /\ Taken(r)' = Taken(r) /\ Row(r)' = Row(r) /\ Entry(Step', r) = Entry(Step, r)
                   /\ HasArrived(r)' <=> HasArrived(r) \/ (v = "SUCCESS" /\ Step.trans[m].req = r)
<1> DEFINE x == Len(Step.results)
           y == Len(Step.trans)
           m == x + 1
           after == [Step EXCEPT !.results = Append(Step.results, v)]
<1>1. CoreInv /\ Owed
  BY DEF SyncInv, Inv, Owed
<1>2. 1 \in DOMAIN batches /\ Step \in BatchRecord /\ DOMAIN batches = {1}
  BY <1>1, StepTyped, OneStep
<1>3. Step.results \in Seq({"STALE", "CAPACITY", "SUCCESS"}) /\ Step.trans \in Seq(Transition)
  BY <1>2 DEF BatchRecord
<1>4. /\ x \in Nat /\ y \in Nat /\ DOMAIN Step.results = 1 .. x /\ DOMAIN Step.trans = 1 .. y /\ x < y
  BY <1>3, LenProperties
<1>5. batches' # <<>> /\ Step' = after
  BY <1>2 DEF Step
<1>6. /\ after.sched = Step.sched /\ after.trans = Step.trans /\ after.done = Step.done
      /\ after.finished = Step.finished /\ after.preempted = Step.preempted
      /\ after.results = Append(Step.results, v)
  <2> DEFINE b == Step
  <2> HIDE DEF b
  <2>1. b \in BatchRecord
    BY <1>2 DEF b
  <2>2. \A u : LET a == [b EXCEPT !.results = u] IN
          /\ a.sched = b.sched /\ a.trans = b.trans /\ a.done = b.done
          /\ a.finished = b.finished /\ a.preempted = b.preempted /\ a.results = u
    BY <2>1 DEF BatchRecord
  <2> QED BY <2>2 DEF b
<1>7. /\ DOMAIN after.results = 1 .. m /\ Len(after.results) = m
      /\ \A n \in 1 .. x : after.results[n] = Step.results[n]
      /\ after.results[m] = v
  <2>1. Step.results \in Seq({"STALE", "CAPACITY", "SUCCESS"} \cup {v})
    BY <1>3, SeqMonotonic
  <2> DEFINE w == Step.results
  <2>2. w \in Seq({"STALE", "CAPACITY", "SUCCESS"} \cup {v})
    BY <2>1
  <2> HIDE DEF w
  <2>3. /\ Append(w, v) \in Seq({"STALE", "CAPACITY", "SUCCESS"} \cup {v})
        /\ Len(Append(w, v)) = Len(w) + 1
        /\ \A n \in 1 .. Len(w) : Append(w, v)[n] = w[n]
        /\ Append(w, v)[Len(w) + 1] = v
    BY <2>2, AppendProperties
  <2>4. DOMAIN Append(w, v) = 1 .. Len(w) + 1
    BY <2>3, LenProperties
  <2> QED BY <1>6, <2>3, <2>4 DEF w
<1> HIDE DEF after, x, y
<1>8. m \in 1 .. y /\ m \notin 1 .. x /\ m \in Nat
  BY <1>4
<1>9. Owed'
  BY <1>5, <1>6, <1>1 DEF Owed
<1>10. Cleared' = Cleared
  BY <1>1, <1>5, <1>6, <1>9 DEF Cleared
<1>11. \A r : IsScheduled(after, r) = IsScheduled(Step, r) /\ Entry(after, r) = Entry(Step, r)
  BY <1>6 DEF IsScheduled, Entry
<1>12. \A r : Taken(r)' = Taken(r)
  BY <1>1, <1>5, <1>9, <1>11 DEF Taken
<1>13. \A r : Row(r)' = Row(r)
  <2> SUFFICES ASSUME NEW r PROVE Row(r)' = Row(r)
    OBVIOUS
  <2>1. \A old : NewRow(after, r, old) = NewRow(Step, r, old)
    BY <1>11 DEF NewRow
  <2> QED BY <1>1, <1>5, <1>9, <1>10, <2>1 DEF Row
<1>14. \A r : Entry(Step', r) = Entry(Step, r)
  BY <1>5, <1>11
<1>15. ASSUME NEW r PROVE HasArrived(r)' <=> HasArrived(r) \/ (v = "SUCCESS" /\ Step.trans[m].req = r)
  <2>1. HasArrived(r)' <=> \E n \in 1 .. m : after.results[n] = "SUCCESS" /\ Step.trans[n].req = r
    BY <1>5, <1>6, <1>7 DEF HasArrived
  <2>2. HasArrived(r) <=> \E n \in 1 .. x : Step.results[n] = "SUCCESS" /\ Step.trans[n].req = r
    BY <1>4 DEF HasArrived
  <2>3. 1 .. m = (1 .. x) \cup {m}
    BY <1>4
  <2> HIDE DEF m
  <2> QED BY <1>7, <2>1, <2>2, <2>3
<1>16. Range(after.results) = Range(Step.results) \cup {v}
  <2>1. 1 .. m = (1 .. x) \cup {m}
    BY <1>4
  <2> HIDE DEF m
  <2> QED BY <1>4, <1>7, <2>1 DEF Range
<1> QED BY <1>1, <1>4, <1>5, <1>6, <1>7, <1>8, <1>9, <1>10, <1>12, <1>13, <1>14, <1>15, <1>16 DEF x, y

(* migrate() keeps the worker's invariant.                                 *)
LEMMA MigrateKeepsWorker ==
  ASSUME SyncInv, WorkerInv, batches # <<>>, ~Step.done, Len(Step.results) < Len(Step.trans),
         NEW t, t = Step.trans[Len(Step.results) + 1], Migrate(t),
         batches' = [batches EXCEPT ![1].results = Append(@, Verdict(t))],
         UNCHANGED <<req, freeBlocks, pending, finishedIds, sent>>
  PROVE  WorkerInv'
<1> DEFINE m == Len(Step.results) + 1
           v == Verdict(t)
<1>1. table' = table /\ hot' = hot
  BY DEF Migrate, workerVars
<1>2. /\ m \in DOMAIN Step.trans /\ m \notin DOMAIN Step.results /\ batches' # <<>>
      /\ Owed /\ Owed' /\ Cleared' = Cleared
      /\ Step'.sched = Step.sched /\ Step'.trans = Step.trans
      /\ Step'.finished = Step.finished /\ Step'.preempted = Step.preempted
      /\ Range(Step'.results) = Range(Step.results) \cup {v}
      /\ Len(Step'.results) = m
      /\ \A r : /\ Taken(r)' = Taken(r) /\ Row(r)' = Row(r) /\ Entry(Step', r) = Entry(Step, r)
                /\ HasArrived(r)' <=> HasArrived(r) \/ (v = "SUCCESS" /\ Step.trans[m].req = r)
  BY <1>1, AnsweredStep
<1> HIDE DEF m
<1>3. t = Step.trans[m]
  BY DEF m
<1>4. /\ t.req \in Req /\ Live(t.req) /\ sent[t.req] # 0
      /\ t.plan = pending[t.req]
      /\ ~Taken(t.req) /\ t.req \notin Cleared
      /\ DOMAIN residency[t.req] = WarmIndices(req[t.req]) /\ ~Stale(t)
  BY <1>2, <1>3, TransitionFits
<1>5. v = "SUCCESS" \/ v = "CAPACITY"
  BY <1>4 DEF Verdict
<1>6. \A r \in Req : r # t.req => residency'[r] = residency[r]
  <2>1. CASE v = "SUCCESS"
    BY <1>2, <1>3, <2>1, MigrationCopies
  <2>2. CASE v # "SUCCESS"
    BY <2>2 DEF Migrate, workerVars
  <2> QED BY <2>1, <2>2
<1>7. WorkerTyped' /\ CopiesComplete' /\ TableFits'
  <2>1. CASE v = "SUCCESS"
    <3>1. WorkerTyped' /\ CopiesComplete' /\ slotTable' = <<>>
      BY <1>2, <1>3, <2>1, MigrationCopies
    <3> QED BY <3>1 DEF TableFits
  <2>2. CASE v # "SUCCESS"
    <3>1. UNCHANGED workerVars
      BY <2>2 DEF Migrate
    <3> QED BY <3>1 DEF workerVars, WorkerInv, WorkerTyped, CopiesComplete, TableFits, SlotsOfRequest
  <2> QED BY <2>1, <2>2
<1>8. DOMAIN residency'[t.req] = WarmIndices(req[t.req]) \cup IF v = "SUCCESS" THEN DOMAIN t.plan ELSE {}
  <2>1. CASE v = "SUCCESS"
    BY <1>2, <1>3, <1>4, <2>1, MigrationCopies
  <2>2. CASE v # "SUCCESS"
    BY <1>4, <2>2 DEF Migrate, workerVars
  <2> QED BY <2>1, <2>2
<1> HIDE DEF v
<1>9. \A r \in Req : r # t.req => Copies(r)' = Copies(r)
  BY <1>2, <1>6 DEF Copies
<1>10. \A r \in Req : Reached(r)' = Reached(r)
  BY <1>2 DEF Reached
<1>11. ASSUME NEW r \in Req PROVE Agrees(r)'
  <2>1. Agrees(r)
    BY DEF WorkerInv
  <2>2. RowAgrees(r)'
    BY <1>2, <2>1 DEF Agrees, RowAgrees, Live
  <2>3. CopiesAgree(r)'
    <3>1. CASE r # t.req
      <4>1. Arriving(r)' = Arriving(r)
        BY <1>2, <1>3, <3>1 DEF Arriving
      <4> QED BY <1>9, <2>1, <3>1, <4>1 DEF Agrees, CopiesAgree
    <3>2. CASE r = t.req
      <4>1. ~HasArrived(r)
        BY <1>2, <1>3, <3>2, TransitionFits
      <4>2. Arriving(r)' = IF v = "SUCCESS" THEN DOMAIN t.plan ELSE {}
        BY <1>2, <1>3, <1>4, <3>2, <4>1 DEF Arriving
      <4>3. Copies(r)' = residency'[r]
        BY <1>2, <1>4, <3>2 DEF Copies
      <4> QED BY <1>8, <3>2, <4>2, <4>3 DEF CopiesAgree
    <3> QED BY <3>1, <3>2
  <2>4. HotAgrees(r)'
    BY <1>1, <1>10, <2>1 DEF Agrees, HotAgrees
  <2>5. TiersComplete(r)'
    BY <2>1 DEF Agrees, TiersComplete, IsPending
  <2>6. Gone(r)'
    <3>1. Gone(r)
      BY <2>1 DEF Agrees
    <3>2. sent[r] = 0 => residency'[r] = residency[r]
      BY <1>4, <1>6
    <3> QED BY <1>1, <1>2, <3>1, <3>2 DEF Gone, Live
  <2> QED BY <2>2, <2>3, <2>4, <2>5, <2>6 DEF Agrees
<1>12. StepReady'
  <2> SUFFICES ASSUME NEW k \in DOMAIN Step.sched PROVE Ready(Step.sched[k])'
    BY <1>2 DEF StepReady
  <2>1. PICK e : e = Step.sched[k]
    OBVIOUS
  <2>2. e.req \in Req /\ Ready(e) /\ Taken(e.req)
    <3>1. e.req \in Req
      BY <2>1, StepTyped DEF SyncInv, Inv
    <3> QED BY <1>2, <2>1, <3>1 DEF WorkerInv, StepReady, Taken, IsScheduled
  <2>3. Copies(e.req)' = Copies(e.req) /\ Row(e.req)' = Row(e.req)
    BY <1>2, <1>4, <1>9, <2>2
  <2>4. Ready(e)'
    BY <1>1, <2>2, <2>3 DEF Ready, Live
  <2> QED BY <1>2, <2>1, <2>4
<1>13. WritesApart'
  <2> SUFFICES ASSUME NEW k \in DOMAIN Step.sched, NEW l \in DOMAIN Step.sched
               PROVE  Apart(Step.sched[k], Step.sched[l])'
    BY <1>2 DEF WritesApart
  <2>1. PICK d, e : d = Step.sched[k] /\ e = Step.sched[l]
    OBVIOUS
  <2>2. Apart(d, e)
    BY <1>2, <2>1 DEF WorkerInv, WritesApart
  <2>3. Apart(d, e)'
    BY <1>2, <2>2 DEF Apart
  <2> QED BY <1>2, <2>1, <2>3
<1>14. Answered'
  <2>1. "STALE" \notin Range(Step'.results)
    BY <1>2, <1>5 DEF WorkerInv, Answered
  <2>2. Len(Step'.results) <= Len(Step'.trans)
    <3>1. Step.trans \in Seq(Transition)
      BY StepTyped DEF SyncInv, Inv
    <3> DEFINE y == Len(Step.trans)
    <3>2. y \in Nat /\ DOMAIN Step.trans = 1 .. y
      BY <3>1, LenProperties
    <3> HIDE DEF y
    <3>3. m <= y
      BY <1>2, <3>2
    <3> QED BY <1>2, <3>3 DEF y
  <2> QED BY <1>2, <2>1, <2>2 DEF Answered, Owed
<1> QED BY <1>7, <1>11, <1>12, <1>13, <1>14 DEF WorkerInv

-----------------------------------------------------------------------------
\* What a step has written is where the scheduler says it is: a block that
\* it writes and a request holds is written for that place of that request.
LEMMA WriterOwns ==
  ASSUME CoreInv, WorkerInv, Owed
  PROVE  \A k \in DOMAIN Step.sched : \A j \in DOMAIN Row(Step.sched[k].req) :
           Writes(Step.sched[k], j) =>
             \A r \in Req : \A i \in DOMAIN req[r].blocks :
               req[r].blocks[i] # NullBlock /\ req[r].blocks[i] = Row(Step.sched[k].req)[j]
                 => Step.sched[k].req = r /\ i = j
<1> SUFFICES ASSUME NEW k \in DOMAIN Step.sched, NEW d, d = Step.sched[k],
                    NEW j \in DOMAIN Row(d.req), Writes(d, j),
                    NEW r \in Req, NEW i \in DOMAIN req[r].blocks,
                    req[r].blocks[i] # NullBlock, req[r].blocks[i] = Row(d.req)[j]
             PROVE  d.req = r /\ i = j
  BY SMTT(30)
<1>1. d.req \in Req /\ Ready(d) /\ Agrees(d.req) /\ HotConservation
  <2>1. d.req \in Req
    BY StepTyped DEF Owed
  <2> QED BY <2>1 DEF WorkerInv, StepReady, CoreInv
<1>2. CASE ~Live(d.req)
  <2>1. Row(d.req)[j] \in freeBlocks
    BY <1>1, <1>2 DEF Ready
  <2>2. req[r].blocks[i] \notin freeBlocks
    BY <1>1, HeldOnce
  <2> QED BY <2>1, <2>2
<1>3. CASE Live(d.req)
  <2>1. j \notin DOMAIN Copies(d.req) /\ d.req \notin finishedIds
    BY <1>1, <1>3 DEF Ready, Agrees, Gone
  <2>2. /\ j \in DOMAIN req[d.req].blocks /\ j \notin WarmIndices(req[d.req])
        /\ \A n \in DOMAIN Row(d.req) : req[d.req].blocks[n] # NullBlock =>
             Row(d.req)[n] = req[d.req].blocks[n]
    BY <1>1, <1>3, <2>1 DEF Agrees, RowAgrees, CopiesAgree
  <2>3. Row(d.req)[j] = req[d.req].blocks[j]
    BY <2>2 DEF WarmIndices
  <2>4. req[r].blocks[i] = req[d.req].blocks[j]
    BY <2>3
  <2> QED BY <1>1, <2>2, <2>4, HeldOnce, SMTT(30)
<1> QED BY <1>2, <1>3

\* The step once it has been run: what was owed is there.
LEMMA ForwardView ==
  ASSUME SyncInv, batches # <<>>, ~Step.done, TablesFor(Step),
         batches' = [batches EXCEPT ![1].done = TRUE], UNCHANGED req
  PROVE  /\ Owed /\ ~Owed' /\ Cleared' = {} /\ batches' # <<>>
         /\ Step'.results = Step.results /\ Step'.trans = Step.trans
         /\ IsInjective(Members(Step))
         /\ \A r \in Req : /\ table'[r] = Row(r) /\ residency'[r] = Copies(r)
                           /\ Row(r)' = Row(r) /\ Copies(r)' = Copies(r)
                           /\ ~Taken(r)' /\ Reached(r)' = req[r].computed
                           /\ HasArrived(r)' = HasArrived(r)
         /\ DOMAIN table' = Req /\ DOMAIN residency' = Req
<1> DEFINE after == [Step EXCEPT !.done = TRUE]
<1>1. CoreInv /\ Owed
  BY DEF SyncInv, Inv, Owed
<1>2. 1 \in DOMAIN batches /\ Step \in BatchRecord
  BY <1>1, StepTyped
<1>3. batches' # <<>> /\ Step' = after
  BY <1>2 DEF Step
<1>4. after.results = Step.results /\ after.trans = Step.trans /\ after.done
  <2> DEFINE b == Step
  <2>1. b \in BatchRecord
    BY <1>2
  <2> HIDE DEF b
  <2>2. LET a == [b EXCEPT !.done = TRUE] IN
        a.results = b.results /\ a.trans = b.trans /\ a.done = TRUE
    BY <2>1 DEF BatchRecord
  <2> QED BY <2>2 DEF b
<1> HIDE DEF after
<1>5. ~Owed'
  BY <1>3, <1>4 DEF Owed
<1>6. Cleared' = {}
  BY <1>5 DEF Cleared
<1>7. /\ Cleared = Step.finished \cup Step.preempted
      /\ \A r \in Req : residency'[r] = IF r \in Cleared THEN <<>> ELSE residency[r]
      /\ \A r \in Req : table'[r] = NewRow(Step, r, IF r \in Cleared THEN <<>> ELSE table[r])
      /\ DOMAIN table' = Req /\ DOMAIN residency' = Req
  BY <1>1 DEF Cleared, TablesFor
<1>8. \A r \in Req : table'[r] = Row(r) /\ residency'[r] = Copies(r)
  BY <1>1, <1>7 DEF Row, Copies
<1>9. \A r \in Req : Row(r)' = table'[r] /\ Copies(r)' = residency'[r]
  BY <1>5, <1>6 DEF Row, Copies
<1>10. \A r \in Req : ~Taken(r)' /\ Reached(r)' = req[r].computed
  BY <1>5 DEF Taken, Reached
<1>11. \A r \in Req : HasArrived(r)' = HasArrived(r)
  BY <1>3, <1>4 DEF HasArrived
<1>12. IsInjective(Members(Step))
  BY <1>2 DEF SyncInv, StepRuns, Step
<1> QED BY <1>1, <1>3, <1>4, <1>5, <1>6, <1>7, <1>8, <1>9, <1>10, <1>11, <1>12
-----------------------------------------------------------------------------
(* What the forward pass leaves in the HOT blocks.                         *)
LEMMA ForwardWrites ==
  ASSUME SyncInv, WorkerInv, batches # <<>>, ~Step.done, Forward(Step),
         batches' = [batches EXCEPT ![1].done = TRUE], UNCHANGED req
  PROVE  /\ DOMAIN hot' = Block
         /\ \A k \in DOMAIN Step.sched : \A i \in DOMAIN Row(Step.sched[k].req) :
              Writes(Step.sched[k], i) /\ Row(Step.sched[k].req)[i] \in Block =>
                hot'[Row(Step.sched[k].req)[i]] =
                  Part(Step.sched[k].start + Step.sched[k].num, Step.sched[k].req, i)
         /\ \A block \in Block :
              (\A k \in DOMAIN Step.sched : \A i \in DOMAIN Row(Step.sched[k].req) :
                 Writes(Step.sched[k], i) => Row(Step.sched[k].req)[i] # block)
                => hot'[block] = hot[block]
<1> DEFINE b == Step
           S == DOMAIN Step.sched
           W(k, block) == {i \in DOMAIN Row(b.sched[k].req) :
                             Row(b.sched[k].req)[i] = block /\ Writes(b.sched[k], i)}
           writers(block) == {k \in S : W(k, block) # {}}
<1>1. TablesFor(Step)
  BY DEF Forward
<1>2. Owed /\ IsInjective(Members(Step)) /\ \A r \in Req : table'[r] = Row(r)
  BY <1>1, ForwardView
<1>3. \A k \in S : b.sched[k].req \in Req
  BY StepTyped DEF SyncInv, Inv
<1>4. \A k \in S : \A block : WrittenBy(b, b.sched[k], block) = W(k, block)
  BY <1>2, <1>3 DEF WrittenBy, Writes
<1>5. hot' = [block \in Block |->
        LET ws == {k \in DOMAIN b.sched : WrittenBy(b, b.sched[k], block) # {}}
        IN IF ws = {} THEN hot[block]
           ELSE LET e == b.sched[CHOOSE k \in ws : TRUE]
                    i == CHOOSE i \in WrittenBy(b, e, block) : TRUE
                IN [req |-> e.req, idx |-> i, upto |-> Below(e.start + e.num, i)]]
  BY DEF Forward
<1>6. ASSUME NEW block \in Block
      PROVE  /\ writers(block) = {} => hot'[block] = hot[block]
             /\ writers(block) # {} =>
                  \E k \in S : \E i \in W(k, block) :
                    hot'[block] = Part(b.sched[k].start + b.sched[k].num, b.sched[k].req, i)
  <2> DEFINE ws == {k \in DOMAIN b.sched : WrittenBy(b, b.sched[k], block) # {}}
             e == b.sched[CHOOSE k \in ws : TRUE]
             i == CHOOSE i \in WrittenBy(b, e, block) : TRUE
  <2>1. hot'[block] = IF ws = {} THEN hot[block]
          ELSE [req |-> e.req, idx |-> i, upto |-> Below(e.start + e.num, i)]
    BY <1>5
  <2>2. ws = writers(block)
    BY <1>4
  <2>3. ASSUME ws # {} PROVE \E k \in S : e = b.sched[k] /\ i \in W(k, block)
    <3>1. PICK k \in S : k = CHOOSE x \in ws : TRUE
      BY <2>3
    <3>2. k \in ws
      BY <2>3, <3>1
    <3>3. e = b.sched[k] /\ WrittenBy(b, b.sched[k], block) # {}
      BY <3>1, <3>2
    <3>4. i \in WrittenBy(b, e, block)
      BY <3>3
    <3> QED BY <1>4, <3>3, <3>4
  <2> HIDE DEF ws, e, i, W, writers
  <2>4. ws # {} => \E k \in S : \E j \in W(k, block) :
                    hot'[block] = Part(b.sched[k].start + b.sched[k].num, b.sched[k].req, j)
    BY <2>1, <2>3 DEF Part
  <2> QED BY <2>1, <2>2, <2>4
<1>7. ASSUME NEW k \in S, NEW i \in DOMAIN Row(b.sched[k].req), Writes(b.sched[k], i),
             Row(b.sched[k].req)[i] \in Block
      PROVE  hot'[Row(b.sched[k].req)[i]] =
               Part(b.sched[k].start + b.sched[k].num, b.sched[k].req, i)
  <2> DEFINE block == Row(b.sched[k].req)[i]
  <2>1. k \in writers(block) /\ block \in Block
    BY <1>7
  <2>2. PICK l \in S : \E j \in W(l, block) :
           hot'[block] = Part(b.sched[l].start + b.sched[l].num, b.sched[l].req, j)
    <3> HIDE DEF block, W, writers
    <3> QED BY <1>6, <2>1
  <2>3. PICK j \in W(l, block) :
           hot'[block] = Part(b.sched[l].start + b.sched[l].num, b.sched[l].req, j)
    BY <2>2
  <2>4. Apart(Step.sched[k], Step.sched[l])
    BY <1>2 DEF WorkerInv, WritesApart
  <2>5. b.sched[k].req = b.sched[l].req /\ i = j
    BY <1>7, <2>3, <2>4 DEF Apart
  <2>6. b.sched[l] = b.sched[k]
    BY <1>2, <2>5, EntryOf
  <2> QED BY <2>3, <2>5, <2>6
<1>8. ASSUME NEW block \in Block,
             \A k \in S : \A i \in DOMAIN Row(b.sched[k].req) :
               Writes(b.sched[k], i) => Row(b.sched[k].req)[i] # block
      PROVE  hot'[block] = hot[block]
  <2>1. writers(block) = {}
    BY <1>8
  <2> HIDE DEF writers, W
  <2> QED BY <1>6, <2>1
<1>9. DOMAIN hot' = Block
  BY <1>5
<1> QED BY <1>7, <1>8, <1>9

-----------------------------------------------------------------------------
(* The warm-slot table of a step that is run, new or used again.           *)
LEMMA ForwardSlots ==
  ASSUME SyncInv, WorkerInv, batches # <<>>, ~Step.done, Forward(Step)
  PROVE  /\ TableFits'
         /\ \A n \in DOMAIN Step.sched :
              /\ n \in DOMAIN slotTable'
              /\ \A r : r = Batch(Step)[n].req => slotTable'[n].slots = SlotsOfRequest(r)'
<1> DEFINE b == Step
<1>1. Step \in BatchRecord /\ \A k \in DOMAIN b.sched : b.sched[k].req \in Req
  BY StepTyped DEF SyncInv, Inv
<1>2. \A n \in DOMAIN b.sched : Batch(b)[n].req \in Req
  <2> SUFFICES ASSUME NEW n \in DOMAIN b.sched PROVE Batch(b)[n].req \in Req
    OBVIOUS
  <2>1. PICK k \in DOMAIN b.sched : Batch(b)[n] = b.sched[k]
    BY <1>1, BatchOfEntries
  <2> QED BY <1>1, <2>1
<1>3. \A r \in Req : residency'[r] = IF r \in b.finished \cup b.preempted THEN <<>> ELSE residency[r]
  BY DEF Forward, TablesFor
<1>4. ~Released(b) => \A r \in Req : SlotsOfRequest(r)' = SlotsOfRequest(r)
  BY <1>3 DEF Released, SlotsOfRequest
<1>5. SlotTableFor(b)
  BY DEF Forward
<1>6. TableFits
  BY DEF WorkerInv
<1>7. CASE b.sched = <<>>
  <2>1. slotTable' = IF Released(b) THEN <<>> ELSE slotTable
    BY <1>5, <1>7 DEF SlotTableFor
  <2>2. TableFits'
    <3>1. CASE Released(b)
      BY <2>1, <3>1 DEF TableFits
    <3>2. CASE ~Released(b)
      BY <1>4, <1>6, <2>1, <3>2 DEF TableFits
    <3> QED BY <3>1, <3>2
  <2> QED BY <1>7, <2>2
<1>8. CASE b.sched # <<>> /\ Reusable(b)
  <2>1. slotTable' = slotTable /\ ~Released(b)
        /\ [n \in DOMAIN slotTable |-> slotTable[n].req] = [n \in DOMAIN b.sched |-> Batch(b)[n].req]
    BY <1>5, <1>8 DEF SlotTableFor, Reusable
  <2>2. TableFits'
    BY <1>4, <1>6, <2>1 DEF TableFits
  <2> DEFINE f == [n \in DOMAIN slotTable |-> slotTable[n].req]
             g == [n \in DOMAIN b.sched |-> Batch(b)[n].req]
  <2>3. f = g /\ DOMAIN f = DOMAIN slotTable /\ DOMAIN g = DOMAIN b.sched
    BY <2>1
  <2>4. DOMAIN slotTable = DOMAIN b.sched
    <3> HIDE DEF f, g
    <3> QED BY <2>3
  <2>5. \A n \in DOMAIN b.sched : slotTable[n].req = Batch(b)[n].req
    <3> SUFFICES ASSUME NEW n \in DOMAIN b.sched PROVE slotTable[n].req = Batch(b)[n].req
      OBVIOUS
    <3>1. f[n] = slotTable[n].req /\ g[n] = Batch(b)[n].req
      BY <2>4
    <3> HIDE DEF f, g
    <3> QED BY <2>3, <3>1
  <2>6. \A n \in DOMAIN b.sched : \A r : r = Batch(b)[n].req =>
          slotTable'[n].slots = SlotsOfRequest(r)'
    <3> SUFFICES ASSUME NEW n \in DOMAIN b.sched, NEW r \in Req, r = Batch(b)[n].req
                 PROVE  slotTable'[n].slots = SlotsOfRequest(r)'
      BY <1>2
    <3>1. slotTable[n].slots = SlotsOfRequest(r)
      BY <1>6, <2>4, <2>5 DEF TableFits
    <3> QED BY <1>4, <2>1, <3>1
  <2> QED BY <2>1, <2>2, <2>4, <2>6
<1>9. CASE b.sched # <<>> /\ ~Reusable(b)
  <2>1. slotTable' = [n \in DOMAIN b.sched |-> SlotRow(Batch(b)[n].req)]
    BY <1>5, <1>9 DEF SlotTableFor
  <2>2. ASSUME NEW n \in DOMAIN b.sched, NEW r \in Req, r = Batch(b)[n].req
        PROVE  slotTable'[n].req = r /\ slotTable'[n].slots = SlotsOfRequest(r)'
    <3>1. slotTable'[n] = SlotRow(r)
      BY <2>1, <2>2
    <3> QED BY <3>1 DEF SlotRow, SlotsOfRequest
  <2>3. DOMAIN slotTable' = DOMAIN b.sched
    BY <2>1
  <2>4. TableFits'
    <3> SUFFICES ASSUME NEW n \in DOMAIN b.sched
                 PROVE  /\ slotTable'[n].req \in Req
                        /\ slotTable'[n].slots = SlotsOfRequest(slotTable[n].req)'
      BY <2>3 DEF TableFits
    <3>1. PICK r \in Req : r = Batch(b)[n].req
      BY <1>2
    <3>2. slotTable'[n].req = r /\ slotTable'[n].slots = SlotsOfRequest(r)'
      BY <2>2, <3>1
    <3> QED BY <3>2
  <2>5. \A n \in DOMAIN b.sched : \A r : r = Batch(b)[n].req =>
          slotTable'[n].slots = SlotsOfRequest(r)'
    <3> SUFFICES ASSUME NEW n \in DOMAIN b.sched, NEW r \in Req, r = Batch(b)[n].req
                 PROVE  slotTable'[n].slots = SlotsOfRequest(r)'
      BY <1>2
    <3> QED BY <2>2
  <2> QED BY <2>3, <2>4, <2>5
<1> QED BY <1>7, <1>8, <1>9
-----------------------------------------------------------------------------
\* A row that is built for a step is a row.
LEMMA RowTyped ==
  ASSUME CoreInv, WorkerInv, NEW r \in Req
  PROVE  Row(r) \in Seq(Block \cup {NullBlock})
<1>1. table[r] \in Seq(Block \cup {NullBlock}) /\ <<>> \in Seq(Block \cup {NullBlock})
  BY EmptySeq DEF WorkerInv, WorkerTyped
<1>2. CASE ~Taken(r)
  BY <1>1, <1>2 DEF Row, NewRow, Taken
<1>3. CASE Taken(r)
  <2>1. Owed /\ \E k \in DOMAIN Step.sched : Step.sched[k].req = r
    BY <1>3 DEF Taken, IsScheduled
  <2>2. PICK k \in DOMAIN Step.sched : Entry(Step, r) = Step.sched[k]
    BY <2>1 DEF Entry
  <2>3. Entry(Step, r).ids \in Seq(Block \cup {NullBlock})
    BY <2>1, <2>2, StepTyped DEF Owed, SchedEntry
  <2> DEFINE old == IF r \in Cleared THEN <<>> ELSE table[r]
  <2>4. old \in Seq(Block \cup {NullBlock})
    BY <1>1
  <2>5. Row(r) = IF Entry(Step, r).fresh THEN Entry(Step, r).ids ELSE old \o Entry(Step, r).ids
    BY <1>3, <2>1 DEF Row, NewRow, Taken
  <2> HIDE DEF old
  <2> QED BY <2>3, <2>4, <2>5, ConcatProperties
<1> QED BY <1>2, <1>3

\* A step's entry for a request it has.
LEMMA TakenEntry ==
  ASSUME SyncInv, NEW r, Taken(r)
  PROVE  \E k \in DOMAIN Step.sched :
           /\ Step.sched[k].req = r /\ Entry(Step, r) = Step.sched[k]
           /\ \A l \in DOMAIN Step.sched : Step.sched[l].req = r => l = k
<1>1. Owed /\ 1 \in DOMAIN batches
  BY StepTyped DEF SyncInv, Inv, Taken, Owed
<1>2. IsInjective(Members(Step))
  BY <1>1 DEF SyncInv, StepRuns, Step
<1>3. PICK k \in DOMAIN Step.sched : Step.sched[k].req = r
  BY DEF Taken, IsScheduled
<1>4. Entry(Step, r) = Step.sched[k]
  BY <1>2, <1>3, EntryOf
<1>5. \A l \in DOMAIN Step.sched : Step.sched[l].req = r => l = k
  BY <1>2, <1>3 DEF Members, IsInjective
<1> QED BY <1>3, <1>4, <1>5

(* After the forward pass, what a request holds has what it has computed.  *)
LEMMA ForwardHot ==
  ASSUME SyncInv, WorkerInv, batches # <<>>, ~Step.done, Forward(Step),
         batches' = [batches EXCEPT ![1].done = TRUE], UNCHANGED req, NEW r \in Req
  PROVE  HotAgrees(r)'
<1>1. CoreInv /\ Owed /\ Agrees(r) /\ req[r] \in Record
  BY DEF SyncInv, Inv, CoreInv, Typed, WorkerInv, Owed
<1>2. Reached(r)' = req[r].computed
  BY ForwardView DEF Forward
<1> SUFFICES ASSUME NEW i \in DOMAIN req[r].blocks, req[r].blocks[i] # NullBlock,
                    Below(req[r].computed, i) > 0
             PROVE  hot'[req[r].blocks[i]] = Part(req[r].computed, r, i)
  BY <1>2 DEF HotAgrees, Part
<1> DEFINE block == req[r].blocks[i]
<1>3. block \in Block /\ req[r].computed \in Nat /\ i \in Nat \ {0} /\ Live(r)
  BY <1>1, RecordFields, AbsentRecord DEF CoreInv, ClientsKnown
<1>4. i \in DOMAIN Row(r) /\ Row(r)[i] = block
  BY <1>1, <1>3 DEF Agrees, RowAgrees
<1>5. ASSUME NEW k \in DOMAIN Step.sched, NEW j \in DOMAIN Row(Step.sched[k].req),
             Writes(Step.sched[k], j), Row(Step.sched[k].req)[j] = block
      PROVE  Step.sched[k].req = r /\ j = i
  <2>1. \A kk \in DOMAIN Step.sched : \A jj \in DOMAIN Row(Step.sched[kk].req) :
          Writes(Step.sched[kk], jj) =>
            \A s \in Req : \A n \in DOMAIN req[s].blocks :
              req[s].blocks[n] # NullBlock /\ req[s].blocks[n] = Row(Step.sched[kk].req)[jj]
                => Step.sched[kk].req = s /\ n = jj
    BY <1>1, WriterOwns
  <2>2. \A s \in Req : \A n \in DOMAIN req[s].blocks :
              req[s].blocks[n] # NullBlock /\ req[s].blocks[n] = Row(Step.sched[k].req)[j]
                => Step.sched[k].req = s /\ n = j
    BY <1>5, <2>1
  <2>3. \A n \in DOMAIN req[r].blocks :
              req[r].blocks[n] # NullBlock /\ req[r].blocks[n] = Row(Step.sched[k].req)[j]
                => Step.sched[k].req = r /\ n = j
    BY <2>2
  <2> QED BY <1>5, <2>3
<1>6. CASE Taken(r)
  <2>1. PICK k \in DOMAIN Step.sched :
          /\ Step.sched[k].req = r /\ Entry(Step, r) = Step.sched[k]
          /\ \A l \in DOMAIN Step.sched : Step.sched[l].req = r => l = k
    BY <1>6, TakenEntry
  <2>2. PICK e : e = Step.sched[k]
    OBVIOUS
  <2>3. /\ e \in SchedEntry /\ e.req = r /\ Reached(r) = e.start
        /\ e.start + e.num = req[r].computed
    <3>1. e \in SchedEntry
      BY <1>1, <2>2, StepTyped DEF Owed
    <3>2. Ready(e)
      BY <1>1, <2>2 DEF WorkerInv, StepReady
    <3> QED BY <1>3, <1>6, <2>1, <2>2, <3>1, <3>2 DEF Ready, Reached
  <2>4. CASE Writes(e, i)
    <3>1. hot'[block] = Part(e.start + e.num, r, i)
      BY <1>3, <1>4, <2>1, <2>2, <2>4, ForwardWrites
    <3> QED BY <2>3, <3>1
  <2>5. CASE ~Writes(e, i)
    <3>1. hot'[block] = hot[block]
      <4>1. \A l \in DOMAIN Step.sched : \A j \in DOMAIN Row(Step.sched[l].req) :
              Writes(Step.sched[l], j) => Row(Step.sched[l].req)[j] # block
        BY <1>5, <2>1, <2>2, <2>5
      <4> HIDE DEF block
      <4> QED BY <1>3, <4>1, ForwardWrites
    <3>2. Below(e.start, i) = Below(req[r].computed, i)
      <4>1. e.start \in Nat /\ e.num \in Nat
        BY <2>3 DEF SchedEntry
      <4>2. e.start <= req[r].computed
        BY <1>3, <2>3, <4>1
      <4>3. /\ Below(e.start, i) <= Below(req[r].computed, i)
            /\ Below(e.start, i) \in 0 .. BlockSize /\ Below(req[r].computed, i) \in 0 .. BlockSize
            /\ BlockSize \in Nat
        BY <1>3, <4>1, <4>2, BelowGrows, BelowProperties, Sizes
      <4>4. ~(Below(req[r].computed, i) > Below(e.start, i))
        BY <2>3, <2>5 DEF Writes
      <4> QED BY <4>3, <4>4
    <3>3. hot[block] = Part(e.start, r, i)
      BY <1>1, <2>3, <3>2 DEF Agrees, HotAgrees
    <3> QED BY <3>1, <3>2, <3>3 DEF Part
  <2> QED BY <2>4, <2>5
<1>7. CASE ~Taken(r)
  <2>1. \A k \in DOMAIN Step.sched : Step.sched[k].req # r
    BY <1>1, <1>7 DEF Taken, IsScheduled
  <2>2. \A l \in DOMAIN Step.sched : \A j \in DOMAIN Row(Step.sched[l].req) :
              Writes(Step.sched[l], j) => Row(Step.sched[l].req)[j] # block
    BY <1>5, <2>1
  <2>3. Reached(r) = req[r].computed
    BY <1>7 DEF Reached
  <2>4. hot[block] = Part(req[r].computed, r, i)
    BY <1>1, <2>3 DEF Agrees, HotAgrees
  <2>5. hot'[block] = hot[block]
    <3> HIDE DEF block
    <3> QED BY <1>3, <2>2, ForwardWrites
  <2> QED BY <2>4, <2>5
<1> QED BY <1>6, <1>7

-----------------------------------------------------------------------------
(* The forward pass keeps the worker's invariant.                          *)
LEMMA ForwardKeepsWorker ==
  ASSUME SyncInv, WorkerInv, batches # <<>>, ~Step.done, Forward(Step),
         ~(Len(Step.results) < Len(Step.trans)),
         batches' = [batches EXCEPT ![1].done = TRUE],
         UNCHANGED <<req, freeBlocks, pending, finishedIds, sent>>
  PROVE  WorkerInv'
<1>1. TablesFor(Step) /\ warm' = warm
  BY DEF Forward
<1>2. /\ Owed /\ ~Owed' /\ Cleared' = {} /\ batches' # <<>>
      /\ Step'.results = Step.results /\ Step'.trans = Step.trans
      /\ \A r \in Req : /\ table'[r] = Row(r) /\ residency'[r] = Copies(r)
                        /\ Row(r)' = Row(r) /\ Copies(r)' = Copies(r)
                        /\ ~Taken(r)' /\ Reached(r)' = req[r].computed
                        /\ HasArrived(r)' = HasArrived(r)
      /\ DOMAIN table' = Req /\ DOMAIN residency' = Req
  BY <1>1, ForwardView
<1>3. \A r \in Req : Copies(r) = residency[r] \/ Copies(r) = <<>>
  BY DEF Copies
<1>4. CoreInv /\ WorkerTyped /\ CopiesComplete
  BY DEF SyncInv, Inv, WorkerInv
<1>5. WorkerTyped'
  <2>1. table' \in [Req -> Seq(Block \cup {NullBlock})]
    <3>1. \A r \in Req : table'[r] \in Seq(Block \cup {NullBlock})
      BY <1>2, <1>4, RowTyped
    <3>2. table' = [r \in Req |-> table'[r]]
      BY <1>1 DEF TablesFor
    <3> QED BY <3>1, <3>2
  <2>2. \A r \in Req : /\ DOMAIN residency'[r] \subseteq Nat \ {0}
                       /\ residency'[r] \in [DOMAIN residency'[r] -> Slots]
    <3> SUFFICES ASSUME NEW r \in Req
                 PROVE  /\ DOMAIN residency'[r] \subseteq Nat \ {0}
                        /\ residency'[r] \in [DOMAIN residency'[r] -> Slots]
      OBVIOUS
    <3>1. CASE Copies(r) = residency[r]
      BY <1>2, <1>4, <3>1 DEF WorkerTyped
    <3>2. CASE Copies(r) = <<>>
      <4>1. residency'[r] = <<>> /\ DOMAIN residency'[r] = {}
        BY <1>2, <3>2
      <4>2. <<>> \in [{} -> Slots]
        OBVIOUS
      <4> QED BY <4>1, <4>2
    <3> QED BY <1>3, <3>1, <3>2
  <2>3. DOMAIN hot' = Block
    BY ForwardWrites
  <2>4. DOMAIN warm' = WarmSlot
    BY <1>1, <1>4 DEF WorkerTyped
  <2> QED BY <1>2, <2>1, <2>2, <2>3, <2>4 DEF WorkerTyped
<1>6. CopiesComplete'
  <2> SUFFICES ASSUME NEW r \in Req, NEW i \in DOMAIN residency'[r]
               PROVE  warm'[residency'[r][i].slot] = [req |-> r, idx |-> i, upto |-> BlockSize]
    BY DEF CopiesComplete
  <2>1. residency'[r] = residency[r]
    BY <1>2, <1>3
  <2> QED BY <1>1, <1>4, <2>1 DEF CopiesComplete
<1>7. ASSUME NEW r \in Req PROVE Agrees(r)'
  <2>1. Agrees(r)
    BY DEF WorkerInv
  <2>2. RowAgrees(r)'
    BY <1>2, <2>1 DEF Agrees, RowAgrees, Live
  <2>3. CopiesAgree(r)'
    BY <1>2, <2>1 DEF Agrees, CopiesAgree, Arriving
  <2>4. HotAgrees(r)'
    BY ForwardHot
  <2>5. TiersComplete(r)'
    BY <2>1 DEF Agrees, TiersComplete, IsPending
  <2>6. Gone(r)'
    <3>1. Gone(r)
      BY <2>1 DEF Agrees
    <3>2. sent[r] = 0 => Row(r) = <<>> /\ Copies(r) = <<>>
      BY <3>1, UntouchedRow
    <3>3. sent'[r] = 0 => /\ table'[r] = <<>> /\ residency'[r] = <<>>
                          /\ r \notin finishedIds' /\ r \notin Cleared' /\ ~Taken(r)'
      BY <1>2, <3>1, <3>2 DEF Gone
    <3>4. r \in finishedIds' => ~Live(r)'
      BY <3>1 DEF Gone, Live
    <3> QED BY <1>2, <3>3, <3>4 DEF Gone
  <2> QED BY <2>2, <2>3, <2>4, <2>5, <2>6 DEF Agrees
<1>8. StepReady' /\ WritesApart'
  BY <1>2 DEF StepReady, WritesApart
<1>9. TableFits'
  BY ForwardSlots
<1>10. Answered'
  <2>1. Step.results \in Seq({"STALE", "CAPACITY", "SUCCESS"}) /\ Step.trans \in Seq(Transition)
    BY <1>2, <1>4, StepTyped DEF BatchRecord
  <2>2. Len(Step.results) \in Nat /\ Len(Step.trans) \in Nat
    BY <2>1, LenProperties
  <2>3. /\ "STALE" \notin Range(Step.results) /\ Len(Step.results) <= Len(Step.trans)
        /\ ~(Len(Step.results) < Len(Step.trans))
    BY <1>2 DEF WorkerInv, Answered
  <2> DEFINE x == Len(Step.results)
             y == Len(Step.trans)
  <2>4. x \in Nat /\ y \in Nat /\ x <= y /\ ~(x < y)
    BY <2>2, <2>3
  <2> HIDE DEF x, y
  <2>5. x = y
    BY <2>4
  <2> QED BY <1>2, <2>3, <2>5 DEF Answered, x, y
<1> QED BY <1>5, <1>6, <1>7, <1>8, <1>9, <1>10 DEF WorkerInv

(* The attention of the forward pass reads a request's own tokens.         *)
LEMMA ForwardReads ==
  ASSUME SyncInv, WorkerInv, batches # <<>>, ~Step.done, Forward(Step),
         batches' = [batches EXCEPT ![1].done = TRUE], UNCHANGED req
  PROVE  ReadsOwnHistory(Step)
<1>1. TablesFor(Step) /\ warm' = warm
  BY DEF Forward
<1>2. /\ Owed /\ CoreInv /\ Step \in BatchRecord
      /\ \A r \in Req : table'[r] = Row(r) /\ residency'[r] = Copies(r)
  BY <1>1, ForwardView, StepTyped DEF SyncInv, Inv
<1> SUFFICES ASSUME NEW n \in DOMAIN Step.sched, NEW e, e = Batch(Step)[n],
                    NEW i \in 1 .. CeilDiv(e.start + e.num)
             PROVE  /\ i \in DOMAIN table'[e.req]
                    /\ Below(e.start, i) > 0 => HistoryAt(n, e.req, i, Below(e.start, i))
                    /\ Below(e.start + e.num, i) > Below(e.start, i) =>
                         table'[e.req][i] # NullBlock /\ i \notin DOMAIN WarmSlots(n)
  BY DEF ReadsOwnHistory
<1>3. PICK k \in DOMAIN Step.sched : e = Step.sched[k]
  BY <1>2, BatchOfEntries
<1>4. e \in SchedEntry /\ e.req \in Req /\ Ready(e)
  BY <1>2, <1>3, StepTyped DEF WorkerInv, StepReady
<1>5. PICK r \in Req : r = e.req
  BY <1>4
<1>6. /\ e.start \in Nat /\ e.num \in Nat /\ e.start + e.num \in Nat
      /\ CeilDiv(e.start + e.num) \in Int /\ BlockSize \in Nat \ {0}
  BY <1>4, Sizes, SMTT(30) DEF SchedEntry, CeilDiv
<1>7. i \in Nat \ {0} /\ Below(e.start, i) \in 0 .. BlockSize
  <2>1. i \in Nat \ {0}
    BY <1>6
  <2>2. PICK x \in Nat : x = e.start
    BY <1>6
  <2>3. Below(x, i) \in 0 .. BlockSize
    BY <2>1, BelowProperties
  <2> QED BY <2>1, <2>2, <2>3
<1>8. i \in DOMAIN Row(r)
  BY <1>4, <1>5 DEF Ready
<1>9. n \in DOMAIN slotTable' /\ slotTable'[n].slots = SlotsOfRequest(r)'
  BY <1>5, ForwardSlots
<1>10. WarmSlots(n) = [j \in DOMAIN Copies(r) |-> Copies(r)[j].slot]
  BY <1>2, <1>9 DEF WarmSlots, SlotsOfRequest
<1>11. DOMAIN WarmSlots(n) = DOMAIN Copies(r)
  BY <1>10
<1>12. Below(e.start + e.num, i) > Below(e.start, i) =>
         table'[r][i] # NullBlock /\ i \notin DOMAIN WarmSlots(n)
  BY <1>2, <1>4, <1>5, <1>8, <1>11 DEF Ready, Writes
<1>13. ASSUME Below(e.start, i) > 0 PROVE HistoryAt(n, r, i, Below(e.start, i))
  <2>1. CASE i \in DOMAIN Copies(r)
    <3>1. Copies(r) = residency[r]
      BY <2>1 DEF Copies
    <3>2. warm[WarmSlots(n)[i]] = [req |-> r, idx |-> i, upto |-> BlockSize]
      BY <1>10, <2>1, <3>1 DEF WorkerInv, CopiesComplete
    <3> QED BY <1>6, <1>7, <1>11, <2>1, <3>2 DEF HistoryAt
  <2>2. CASE i \notin DOMAIN Copies(r)
    <3>1. Row(r)[i] # NullBlock /\ hot[Row(r)[i]] = Part(e.start, r, i)
      BY <1>4, <1>5, <1>8, <1>13, <2>2 DEF Ready
    <3>2. hot[Row(r)[i]] = [req |-> r, idx |-> i, upto |-> Below(e.start, i)]
      BY <3>1 DEF Part
    <3> QED BY <1>2, <1>7, <1>11, <2>2, <3>1, <3>2 DEF HistoryAt
  <2> QED BY <2>1, <2>2
<1> QED BY <1>2, <1>5, <1>8, <1>12, <1>13

-----------------------------------------------------------------------------
\* The computed tokens of a request change only when it goes.
LEMMA UpdatedComputed ==
  ASSUME CoreInv, batches # <<>>, NEW b, b = Head(batches), NEW eos, ~UpdateRaises(b, eos),
         AfterUpdate(b, eos), NEW r \in Req, r \notin Freed(b, eos)
  PROVE  req'[r].computed = req[r].computed
<1>1. req[r] \in Record
  BY DEF CoreInv, Typed
<1>2. AfterMove(b, r) \in Record /\ AfterMove(b, r).computed = req[r].computed
      /\ AfterMove(b, r).updates = req[r].updates
  BY <1>1, AfterMoveRecord, CommittedRecord DEF AfterMove
<1>3. AfterAck(b, r) \in Record /\ AfterAck(b, r).computed = req[r].computed
  <2>1. r \notin AckFinishes(b) /\ (r \in AckPops(b) => req[r].updates # <<>>)
    BY AckedPlans DEF Freed
  <2>2. AfterAck(b, r) = IF r \in AckPops(b) THEN Resume(Popped(AfterMove(b, r)))
                         ELSE AfterMove(b, r)
    BY <2>1 DEF AfterAck, AfterMove, HasMoved, Popped
  <2> DEFINE q == AfterMove(b, r)
  <2> HIDE DEF q
  <2>3. r \in AckPops(b) => Popped(q) \in Record /\ Popped(q).computed = q.computed
    <3> SUFFICES ASSUME r \in AckPops(b) PROVE Popped(q) \in Record /\ Popped(q).computed = q.computed
      OBVIOUS
    <3>1. q \in Record /\ q.updates # <<>>
      BY <1>2, <2>1 DEF q
    <3>2. Popped(q) \in Record
      BY <3>1, PoppedRecord
    <3> QED BY <3>1, <3>2 DEF Popped, Record
  <2>4. r \in AckPops(b) => Resume(Popped(q)).computed = q.computed
    BY <2>3, ResumeRecord
  <2>5. AfterAck(b, r) \in Record
    BY AfterAckRecord
  <2> QED BY <1>2, <2>2, <2>4, <2>5 DEF q
<1>4. AfterToken(b, r) \in Record /\ AfterToken(b, r).computed = req[r].computed
  <2>1. AfterToken(b, r) \in Record
    BY AfterTokenRecord
  <2>2. Sampled(AfterAck(b, r)).computed = AfterAck(b, r).computed
    BY <1>3 DEF Sampled, Record
  <2> QED BY <1>3, <2>1, <2>2 DEF AfterToken
<1> DEFINE q == AfterToken(b, r)
<1>5. req'[r] = CASE r \in Resumed(b, eos) -> Resume(Popped(q))
                  [] r \in Parked(b, eos)  -> AsIdle(q)
                  [] OTHER                 -> q
  <2>1. req'[r] = CASE r \in Freed(b, eos)   -> Absent
                [] r \in Resumed(b, eos) -> Resume(Popped(AfterToken(b, r)))
                [] r \in Parked(b, eos)  -> AsIdle(AfterToken(b, r))
                [] OTHER                 -> AfterToken(b, r)
    BY AfterUpdateRequests
  <2> QED BY <2>1
<1>6. r \in Resumed(b, eos) => q.updates # <<>>
  BY StoppedParts
<1> HIDE DEF q
<1>7. q \in Record /\ q.computed = req[r].computed
  BY <1>4 DEF q
<1>8. CASE r \in Resumed(b, eos)
  <2>1. Popped(q) \in Record
    BY <1>6, <1>7, <1>8, PoppedRecord
  <2>2. Popped(q).computed = q.computed
    BY <1>7 DEF Popped, Record
  <2>3. Resume(Popped(q)).computed = req[r].computed
    BY <1>7, <2>1, <2>2, ResumeRecord
  <2>4. r \notin Parked(b, eos)
    BY <1>8, StoppedParts
  <2> QED BY <1>5, <1>8, <2>3, <2>4
<1>9. AsIdle(q).computed = q.computed
  BY <1>7 DEF AsIdle, Record
<1> QED BY <1>5, <1>7, <1>8, <1>9, StoppedParts

(* An answer that has come is one the step carries.                        *)
LEMMA MovedArrived ==
  ASSUME SyncInv, WorkerInv, batches # <<>>, Step.done, NEW r
  PROVE  HasMoved(Step, r) <=> HasArrived(r)
<1>1. Step.results \in Seq({"STALE", "CAPACITY", "SUCCESS"}) /\ Step.trans \in Seq(Transition)
  BY StepTyped DEF SyncInv, Inv, BatchRecord
<1>2. Len(Step.results) = Len(Step.trans)
  BY DEF WorkerInv, Answered
<1>3. DOMAIN Step.results = DOMAIN Step.trans
  BY <1>1, <1>2, LenProperties
<1>4. HasMoved(Step, r) <=>
        \E n \in DOMAIN Step.trans : Step.results[n] = "SUCCESS" /\ Step.trans[n].req = r
  BY DEF HasMoved, Moved
<1> QED BY <1>3, <1>4 DEF HasArrived

(* update_from_output() keeps the worker's invariant.                      *)
LEMMA UpdateKeepsWorker ==
  ASSUME SyncInv, WorkerInv, batches # <<>>, Step.done, NEW eos, ~UpdateRaises(Step, eos),
         AfterUpdate(Step, eos), batches' = Tail(batches), UNCHANGED <<workerVars, sent>>
  PROVE  WorkerInv'
<1> DEFINE b == Step
<1>1. CoreInv /\ b = Head(batches) /\ batches' = <<>> /\ DOMAIN batches = {1} /\ Step = batches[1]
  <2>1. CoreInv /\ DOMAIN batches = {1} /\ Head(batches) = Step /\ Len(batches) = 1
    BY OneStep DEF SyncInv, Inv
  <2>2. batches \in Seq(BatchRecord)
    BY <2>1 DEF CoreInv, Typed
  <2>3. Tail(batches) = <<>>
    BY <2>1, <2>2, HeadTailProperties, EmptySeq
  <2> QED BY <2>1, <2>3 DEF Step
<1>2. /\ ~Owed /\ Cleared = {}
      /\ \A r : /\ ~Taken(r) /\ Row(r) = table[r] /\ Copies(r) = residency[r]
                /\ Reached(r) = req[r].computed
  <2>1. ~Owed
    BY DEF Owed
  <2> QED BY <2>1 DEF Cleared, Taken, Row, Copies, Reached
<1>3. /\ ~Owed' /\ Cleared' = {}
      /\ \A r : /\ ~Taken(r)' /\ Row(r)' = table'[r] /\ Copies(r)' = residency'[r]
                /\ Reached(r)' = req'[r].computed /\ Arriving(r)' = {}
  <2>1. ~Owed'
    BY <1>1 DEF Owed
  <2>2. \A r : ~HasArrived(r)'
    BY <1>1 DEF HasArrived
  <2> QED BY <2>1, <2>2 DEF Cleared, Taken, Row, Copies, Reached, Arriving
<1>4. /\ table' = table /\ residency' = residency /\ slotTable' = slotTable
      /\ hot' = hot /\ warm' = warm
  BY DEF workerVars
<1>5. /\ Freed(b, eos) \subseteq LiveOnes /\ (\A r \in Freed(b, eos) : req'[r] = Absent)
      /\ \A r \in Req \ Freed(b, eos) : req'[r].blocks = AfterMove(b, r).blocks
      /\ \A r \in Req \ LiveOnes : req'[r] = Absent
  BY <1>1, UpdatedRequests
<1>6. finishedIds' = finishedIds \cup Freed(b, eos)
      /\ pending' = [r \in Req |-> IF r \in Acked(b) THEN NoPlan ELSE pending[r]]
  BY AfterUpdateUnfolded
<1>7. \A r \in Req : ~IsPending(r)'
  <2> SUFFICES ASSUME NEW r \in Req PROVE pending'[r] = NoPlan
    BY DEF IsPending
  <2>1. IsPending(r) => r \in Acked(b)
    BY <1>1 DEF CoreInv, PlansInFlight, Acked
  <2> QED BY <1>6, <2>1 DEF IsPending
<1> HIDE DEF b
<1>8. ASSUME NEW r \in Req, r \in Freed(b, eos) PROVE Agrees(r)'
  <2>1. req'[r] = Absent /\ ~Live(r)' /\ req'[r].blocks = <<>> /\ req'[r].computed = 0
    BY <1>5, <1>8, AbsentRecord DEF Live, Absent
  <2>2. r \in finishedIds'
    BY <1>6, <1>8
  <2>3. RowAgrees(r)' /\ CopiesAgree(r)' /\ HotAgrees(r)'
    BY <2>1, <2>2 DEF RowAgrees, CopiesAgree, HotAgrees
  <2>4. TiersComplete(r)'
    <3>1. WarmIndices(req'[r]) = {}
      BY <2>1 DEF WarmIndices
    <3>2. CeilDiv(0) = 0
      BY Sizes DEF CeilDiv
    <3> QED BY <1>7, <2>1, <3>1, <3>2 DEF TiersComplete
  <2>5. Gone(r)'
    <3>1. sent'[r] # 0
      BY <1>1, <1>5, <1>8 DEF CoreInv, ClientsKnown, LiveOnes
    <3> QED BY <1>3, <2>1, <3>1 DEF Gone
  <2> QED BY <2>3, <2>4, <2>5 DEF Agrees
<1>9. ASSUME NEW r \in Req, r \notin Freed(b, eos) PROVE Agrees(r)'
  <2>1. /\ Agrees(r) /\ req[r] \in Record /\ req'[r].blocks = AfterMove(b, r).blocks
        /\ req'[r].computed = req[r].computed
    BY <1>1, <1>5, <1>9, UpdatedComputed DEF WorkerInv, CoreInv, Typed, b
  <2>2. HasMoved(b, r) <=> HasArrived(r)
    BY MovedArrived DEF b
  <2>3. WarmIndices(AfterMove(b, r)) =
          WarmIndices(req[r]) \cup IF HasMoved(b, r) THEN DOMAIN pending[r] ELSE {}
    BY <1>1, AfterMoveRecord
  <2>4. WarmIndices(req'[r]) = WarmIndices(req[r]) \cup Arriving(r)
    BY <2>1, <2>2, <2>3 DEF WarmIndices, Arriving
  <2>5. /\ DOMAIN req'[r].blocks = DOMAIN req[r].blocks
        /\ \A i \in DOMAIN req'[r].blocks :
             req'[r].blocks[i] # NullBlock => req'[r].blocks[i] = req[r].blocks[i]
    <3>1. CASE HasMoved(b, r)
      BY <2>1, <3>1, CommittedRecord DEF AfterMove
    <3>2. CASE ~HasMoved(b, r)
      BY <2>1, <3>2 DEF AfterMove
    <3> QED BY <3>1, <3>2
  <2>6. Live(r)' => Live(r)
    BY <1>5, AbsentRecord DEF LiveOnes, Live
  <2>7. RowAgrees(r)'
    BY <1>2, <1>3, <1>4, <2>1, <2>5, <2>6 DEF Agrees, RowAgrees
  <2>8. CopiesAgree(r)'
    BY <1>2, <1>3, <1>4, <1>6, <2>1, <2>4 DEF Agrees, CopiesAgree
  <2>9. HotAgrees(r)'
    BY <1>2, <1>3, <1>4, <2>1, <2>5 DEF Agrees, HotAgrees, Part
  <2>10. TiersComplete(r)'
    <3>1. Len(req'[r].blocks) = Len(req[r].blocks)
      <4>1. AfterMove(b, r) \in Record
        BY <1>1, AfterMoveRecord
      <4>2. req'[r].blocks \in Seq(Block \cup {NullBlock}) /\ req[r].blocks \in Seq(Block \cup {NullBlock})
        BY <2>1, <4>1, RecordFields
      <4> DEFINE s == req[r].blocks
                 t == req'[r].blocks
      <4>3. DOMAIN s = 1 .. Len(s) /\ DOMAIN t = 1 .. Len(t) /\ Len(s) \in Nat /\ Len(t) \in Nat
        BY <4>2, LenProperties
      <4>4. 1 .. Len(s) = 1 .. Len(t)
        BY <2>5, <4>3
      <4> DEFINE m == Len(s)
                 n == Len(t)
      <4>5. m \in Nat /\ n \in Nat /\ 1 .. m = 1 .. n
        BY <4>3, <4>4
      <4> HIDE DEF m, n
      <4>6. m = n
        BY <4>5
      <4> QED BY <4>6 DEF m, n
    <3>2. \A i \in Arriving(r) : i * BlockSize <= req[r].computed
      <4> SUFFICES ASSUME HasArrived(r), NEW i \in DOMAIN pending[r]
                   PROVE  i * BlockSize <= req[r].computed
        BY DEF Arriving
      <4>1. IsPending(r)
        <5>1. r \in Acked(b)
          BY <1>1, <2>2, AckedPlans DEF HasMoved
        <5> QED BY <1>1, <5>1, AckedPlans
      <4>2. pending[r] = DemotionPlan(req[r])
        BY <2>1, <4>1 DEF Agrees, TiersComplete
      <4> QED BY <4>2 DEF DemotionPlan
    <3>3. /\ CeilDiv(req[r].computed) <= Len(req[r].blocks)
          /\ \A i \in WarmIndices(req[r]) : i * BlockSize <= req[r].computed
      BY <2>1 DEF Agrees, TiersComplete
    <3>4. \A i \in WarmIndices(req'[r]) : i * BlockSize <= req'[r].computed
      BY <2>1, <2>4, <3>2, <3>3
    <3>5. CeilDiv(req'[r].computed) <= Len(req'[r].blocks)
      BY <2>1, <3>1, <3>3
    <3> QED BY <1>7, <3>4, <3>5 DEF TiersComplete
  <2>11. Gone(r)'
    <3>1. Gone(r)
      BY <2>1 DEF Agrees
    <3>2. r \in finishedIds' => ~Live(r)'
      BY <1>6, <1>9, <2>6, <3>1 DEF Gone
    <3>3. sent'[r] = 0 => table'[r] = <<>> /\ residency'[r] = <<>> /\ r \notin finishedIds'
      BY <1>4, <1>6, <1>9, <3>1 DEF Gone
    <3> QED BY <1>3, <3>2, <3>3 DEF Gone
  <2> QED BY <2>7, <2>8, <2>9, <2>10, <2>11 DEF Agrees
<1>10. StepReady' /\ WritesApart'
  BY <1>3 DEF StepReady, WritesApart
<1>11. Answered'
  BY <1>1 DEF Answered
<1>12. WorkerTyped' /\ CopiesComplete' /\ TableFits'
  BY <1>4 DEF WorkerInv, WorkerTyped, CopiesComplete, TableFits, SlotsOfRequest
<1> QED BY <1>8, <1>9, <1>10, <1>11, <1>12 DEF WorkerInv

-----------------------------------------------------------------------------
\* A call that frees nobody.
LEMMA PlainCallKeepsWorker ==
  ASSUME CoreInv, CoreInv', WorkerInv,
         UNCHANGED <<workerVars, batches, pending, finishedIds, freeBlocks>>,
         \A r \in Req :
           /\ req'[r].blocks = req[r].blocks /\ req'[r].computed = req[r].computed
           /\ Live(r)' => Live(r) \/ sent[r] = 0
           /\ Live(r) => Live(r)'
           /\ \/ req'[r].status = req[r].status
              \/ req[r].status \in {"IDLE", "ABSENT"},
         \A r \in Req : sent'[r] = 0 => sent[r] = 0
  PROVE  WorkerInv'
<1> DEFINE S == {}
<1>1. S \in SUBSET Req /\ Req \ S = Req
  OBVIOUS
<1>2. \A r \in S : Live(r) /\ ~IsPending(r) /\ req'[r] = Absent
  OBVIOUS
<1>3. finishedIds' = finishedIds \cup S /\ freeBlocks' = freeBlocks \cup UNION {HeldBlocks(req[r]) : r \in S}
  OBVIOUS
<1> HIDE DEF S
<1> QED BY <1>1, <1>2, <1>3, CallKeepsWorker

\* A call that frees one request.
LEMMA FinishKeepsWorker ==
  ASSUME CoreInv, CoreInv', WorkerInv, NEW s \in Req, Live(s), ~IsPending(s), Finish({s}),
         UNCHANGED workerVars, \A r \in Req : sent'[r] = 0 => sent[r] = 0
  PROVE  WorkerInv'
<1> DEFINE S == {s}
<1>1. S \in SUBSET Req
  OBVIOUS
<1>2. /\ UNCHANGED <<workerVars, batches, pending>>
      /\ finishedIds' = finishedIds \cup S
      /\ freeBlocks' = freeBlocks \cup UNION {HeldBlocks(req[r]) : r \in S}
      /\ \A r \in Req : req'[r] = IF r \in S THEN Absent ELSE req[r]
  BY DEF Finish
<1>3. \A r \in S : Live(r) /\ ~IsPending(r) /\ req'[r] = Absent
  BY <1>2
<1> HIDE DEF S
<1>4. \A r \in Req \ S :
           /\ req'[r].blocks = req[r].blocks /\ req'[r].computed = req[r].computed
           /\ Live(r)' => Live(r) \/ sent[r] = 0
           /\ Live(r) => Live(r)'
           /\ \/ req'[r].status = req[r].status
              \/ req[r].status \in {"IDLE", "ABSENT"}
  BY <1>2 DEF Live
<1> QED BY <1>1, <1>2, <1>3, <1>4, CallKeepsWorker

\* Nothing has been sent, nothing is held.
LEMMA WorkerStarts == Init => WorkerInv
<1> SUFFICES ASSUME Init PROVE WorkerInv
  OBVIOUS
<1>1. /\ req = [r \in Req |-> Absent] /\ pending = [r \in Req |-> NoPlan]
      /\ batches = <<>> /\ finishedIds = {}
      /\ table = [r \in Req |-> <<>>] /\ residency = [r \in Req |-> <<>>]
      /\ slotTable = <<>> /\ DOMAIN hot = Block /\ DOMAIN warm = WarmSlot
  BY DEF Init, SchedInit, WorkerInit
<1>2. /\ ~Owed /\ Cleared = {}
      /\ \A r : /\ ~Taken(r) /\ Row(r) = table[r] /\ Copies(r) = residency[r]
                /\ Arriving(r) = {} /\ Reached(r) = req[r].computed
  <2>1. ~Owed
    BY <1>1 DEF Owed
  <2> QED BY <1>1, <2>1 DEF Cleared, Taken, Row, Copies, Arriving, HasArrived, Reached
<1>3. WorkerTyped
  <2>1. <<>> \in Seq(Block \cup {NullBlock}) /\ DOMAIN <<>> = {} /\ <<>> \in [{} -> Slots]
    BY EmptySeq
  <2> QED BY <1>1, <2>1 DEF WorkerTyped
<1>4. CopiesComplete /\ TableFits /\ Answered /\ StepReady /\ WritesApart
  BY <1>1, <1>2 DEF CopiesComplete, TableFits, Answered, StepReady, WritesApart
<1>5. ASSUME NEW r \in Req PROVE Agrees(r)
  <2>1. /\ req[r].blocks = <<>> /\ req[r].computed = 0 /\ ~Live(r) /\ ~IsPending(r)
        /\ table[r] = <<>> /\ residency[r] = <<>> /\ WarmIndices(req[r]) = {}
    BY <1>1, AbsentRecord DEF Live, IsPending, WarmIndices, Absent
  <2>2. RowAgrees(r) /\ CopiesAgree(r) /\ HotAgrees(r)
    <3>1. DOMAIN <<>> = {} /\ DOMAIN Copies(r) = {} /\ Arriving(r) = {}
      BY <1>2, <2>1
    <3>2. RowAgrees(r)
      BY <2>1 DEF RowAgrees
    <3>3. CopiesAgree(r)
      BY <2>1, <3>1 DEF CopiesAgree
    <3>4. HotAgrees(r)
      BY <2>1, <3>1 DEF HotAgrees
    <3> QED BY <3>2, <3>3, <3>4
  <2>3. TiersComplete(r)
    <3>1. CeilDiv(0) = 0
      BY Sizes DEF CeilDiv
    <3> QED BY <2>1, <3>1 DEF TiersComplete
  <2>4. Gone(r)
    BY <1>1, <1>2, <2>1 DEF Gone
  <2> QED BY <2>2, <2>3, <2>4 DEF Agrees
<1> QED BY <1>3, <1>4, <1>5 DEF WorkerInv

\* The calls of clients keep the worker's invariant,
LEMMA ClientKeepsWorker ==
  ASSUME CoreInv, CoreInv', WorkerInv, NEW s \in Req, UNCHANGED workerVars,
         AddRequest(s) \/ SendTurn(s) \/ CloseSession(s) \/ Abort(s)
  PROVE  WorkerInv'
<1>1. /\ \A r \in Req : req[r] \in Record
      /\ sent \in [Req -> 0 .. MaxTurns + 1] /\ DOMAIN req = Req
      /\ \A r \in Req : sent[r] = 0 => ~Live(r) /\ req[r] = Absent
  BY DEF CoreInv, Typed, ClientsKnown
<1>2. ASSUME NEW n \in 1 .. MaxTurns + 1, sent' = [sent EXCEPT ![s] = n]
      PROVE  \A r \in Req : sent'[r] = 0 => sent[r] = 0
  BY <1>2, SentGrows
<1>3. MaxTurns \in Nat /\ MaxTurns + 1 \in 1 .. MaxTurns + 1
  BY LimitAssumption
<1>4. ASSUME NEW update, Queue(s, update), \A r \in Req : sent'[r] = 0 => sent[r] = 0
      PROVE  WorkerInv'
  <2>1. req' = [req EXCEPT ![s] = [req[s] EXCEPT !.updates = Append(req[s].updates, update)]]
        /\ UNCHANGED <<batches, pending, finishedIds, freeBlocks>>
    BY <1>4 DEF Queue
  <2>2. \A r \in Req : /\ req'[r].status = req[r].status
                       /\ req'[r].blocks = req[r].blocks /\ req'[r].computed = req[r].computed
    BY <1>1, <2>1 DEF Record
  <2>3. \A r \in Req :
           /\ req'[r].blocks = req[r].blocks /\ req'[r].computed = req[r].computed
           /\ Live(r)' => Live(r) \/ sent[r] = 0
           /\ Live(r) => Live(r)'
           /\ \/ req'[r].status = req[r].status
              \/ req[r].status \in {"IDLE", "ABSENT"}
    BY <2>2 DEF Live
  <2> QED BY <1>4, <2>1, <2>3, PlainCallKeepsWorker
<1>5. CASE AddRequest(s)
  <2>1. /\ sent[s] = 0 /\ sent' = [sent EXCEPT ![s] = 1] /\ 1 \in 1 .. MaxTurns + 1
        /\ UNCHANGED <<batches, pending, finishedIds, freeBlocks>>
        /\ \A r \in Req : req'[r] = IF r = s THEN Arrived ELSE req[r]
    BY <1>1, <1>3, <1>5 DEF AddRequest
  <2>2. /\ req[s] = Absent /\ Arrived.blocks = Absent.blocks /\ Arrived.computed = Absent.computed
        /\ Absent.status = "ABSENT" /\ ~Live(s)
    BY <1>1, <2>1 DEF Arrived, Absent
  <2>3. \A r \in Req :
           /\ req'[r].blocks = req[r].blocks /\ req'[r].computed = req[r].computed
           /\ Live(r)' => Live(r) \/ sent[r] = 0
           /\ Live(r) => Live(r)'
           /\ \/ req'[r].status = req[r].status
              \/ req[r].status \in {"IDLE", "ABSENT"}
    BY <2>1, <2>2 DEF Live
  <2>4. \A r \in Req : sent'[r] = 0 => sent[r] = 0
    BY <1>2, <2>1
  <2> QED BY <2>1, <2>3, <2>4, PlainCallKeepsWorker
<1>6. CASE SendTurn(s)
  <2>1. \A r \in Req : sent'[r] = 0 => sent[r] = 0
    <3>1. sent' = [sent EXCEPT ![s] = sent[s] + 1] /\ sent[s] < MaxTurns
      BY <1>6 DEF SendTurn
    <3>2. sent[s] + 1 \in 1 .. MaxTurns + 1
      BY <1>1, <1>3, <3>1
    <3> QED BY <1>2, <3>1, <3>2
  <2>2. CASE ~Idle(s) \/ IsPending(s)
    BY <1>4, <1>6, <2>1, <2>2 DEF SendTurn
  <2>3. CASE Idle(s) /\ ~IsPending(s)
    <3>1. /\ UNCHANGED <<batches, pending, finishedIds, freeBlocks>>
          /\ \A r \in Req : req'[r] = IF r = s THEN Resume(req[s]) ELSE req[r]
      BY <1>1, <1>6, <2>3 DEF SendTurn
    <3>2. /\ Resume(req[s]).blocks = req[s].blocks /\ Resume(req[s]).computed = req[s].computed
          /\ Resume(req[s]).status = "WAITING" /\ req[s].status = "IDLE"
      BY <1>1, <2>3, ResumeRecord DEF Idle
    <3>3. \A r \in Req :
           /\ req'[r].blocks = req[r].blocks /\ req'[r].computed = req[r].computed
           /\ Live(r)' => Live(r) \/ sent[r] = 0
           /\ Live(r) => Live(r)'
           /\ \/ req'[r].status = req[r].status
              \/ req[r].status \in {"IDLE", "ABSENT"}
      BY <3>1, <3>2 DEF Live
    <3> QED BY <2>1, <3>1, <3>3, PlainCallKeepsWorker
  <2> QED BY <2>2, <2>3
<1>7. CASE CloseSession(s)
  <2>1. \A r \in Req : sent'[r] = 0 => sent[r] = 0
    BY <1>2, <1>3, <1>7 DEF CloseSession
  <2>2. CASE ~Idle(s) \/ IsPending(s)
    BY <1>4, <1>7, <2>1, <2>2 DEF CloseSession
  <2>3. CASE Idle(s) /\ ~IsPending(s)
    BY <1>7, <2>1, <2>3, FinishKeepsWorker DEF CloseSession, MaySend
  <2> QED BY <2>2, <2>3
<1>8. CASE Abort(s)
  <2>1. Live(s) /\ \A r \in Req : sent'[r] = 0 => sent[r] = 0
    BY <1>2, <1>3, <1>8 DEF Abort
  <2>2. CASE IsPending(s)
    <3>1. UNCHANGED <<req, batches, pending, finishedIds, freeBlocks>>
      BY <1>8, <2>2 DEF Abort
    <3>2. \A r \in Req :
           /\ req'[r].blocks = req[r].blocks /\ req'[r].computed = req[r].computed
           /\ Live(r)' => Live(r) \/ sent[r] = 0
           /\ Live(r) => Live(r)'
           /\ \/ req'[r].status = req[r].status
              \/ req[r].status \in {"IDLE", "ABSENT"}
      BY <3>1 DEF Live
    <3> QED BY <2>1, <3>1, <3>2, PlainCallKeepsWorker
  <2>3. CASE ~IsPending(s)
    BY <1>8, <2>1, <2>3, FinishKeepsWorker DEF Abort
  <2> QED BY <2>2, <2>3
<1> QED BY <1>5, <1>6, <1>7, <1>8

\* the steps of the worker,
LEMMA ExecuteKeepsWorker ==
  ASSUME SyncInv, WorkerInv, ExecuteModel
  PROVE  /\ WorkerInv'
         /\ \A k \in DOMAIN batches \cap DOMAIN batches' :
              ~batches[k].done /\ batches'[k].done => ReadsOwnHistory(batches[k])
<1>1. PICK k \in DOMAIN batches : WorkerStep(k)
  BY DEF ExecuteModel
<1>2. /\ CoreInv /\ batches # <<>> /\ DOMAIN batches = {1} /\ k = 1 /\ batches[1] = Step
      /\ Step \in BatchRecord
  <2>1. CoreInv /\ batches \in Seq(BatchRecord)
    BY DEF SyncInv, Inv, CoreInv, Typed
  <2>2. batches # <<>>
    BY <1>1
  <2>3. DOMAIN batches = {1}
    BY <2>2, OneStep
  <2> QED BY <1>1, <2>1, <2>2, <2>3, StepTyped DEF Step
<1>3. ~Step.done /\ UNCHANGED <<req, freeBlocks, pending, finishedIds, sent>>
  BY <1>1, <1>2 DEF WorkerStep
<1>4. CASE Len(Step.results) < Len(Step.trans)
  <2> DEFINE m == Len(Step.results) + 1
  <2>1. PICK t : t = Step.trans[m]
    OBVIOUS
  <2>2. Migrate(t) /\ batches' = [batches EXCEPT ![1].results = Append(@, Verdict(t))]
    BY <1>1, <1>2, <1>4, <2>1 DEF WorkerStep
  <2>3. WorkerInv'
    BY <1>2, <1>3, <1>4, <2>1, <2>2, MigrateKeepsWorker
  <2>4. ~Step'.done /\ DOMAIN batches' = {1}
    <3>1. table' = table
      BY <2>2 DEF Migrate, workerVars
    <3>2. Owed'
      BY <1>2, <1>3, <1>4, <2>2, <3>1, AnsweredStep
    <3> QED BY <1>2, <2>2, <3>2 DEF Owed
  <2> QED BY <2>3, <2>4 DEF Step
<1>5. CASE ~(Len(Step.results) < Len(Step.trans))
  <2>1. Forward(Step) /\ batches' = [batches EXCEPT ![1].done = TRUE]
    BY <1>1, <1>2, <1>5 DEF WorkerStep
  <2>2. WorkerInv'
    BY <1>2, <1>3, <1>5, <2>1, ForwardKeepsWorker
  <2>3. ReadsOwnHistory(Step)
    BY <1>2, <1>3, <2>1, ForwardReads
  <2> QED BY <1>2, <2>2, <2>3
<1> QED BY <1>4, <1>5

\* and all steps.
LEMMA WorkerNext ==
  ASSUME ~Async, ~MayReset, SyncInv, SyncInv', WorkerInv, [Next]_vars
  PROVE  WorkerInv'
<1>1. CoreInv /\ CoreInv'
  BY DEF SyncInv, Inv
<1>2. CASE ClientCall \/ AbortCall
  <2>1. PICK s \in Req : AddRequest(s) \/ SendTurn(s) \/ CloseSession(s) \/ Abort(s)
    BY <1>2 DEF ClientCall, AbortCall, ResetPrefixCache
  <2>2. UNCHANGED workerVars
    BY <1>2 DEF ClientCall, AbortCall
  <2> QED BY <1>1, <2>1, <2>2, ClientKeepsWorker
<1>3. CASE ScheduleStep
  <2>1. phase = "input" /\ Schedule /\ UNCHANGED workerVars
    BY <1>3 DEF ScheduleStep
  <2>2. batches = <<>>
    BY <2>1, SyncWaits
  <2>3. PICK order, p, k, ids : /\ MaySchedule(order, p, k, ids) /\ SchedulePlan(order, p, k, ids)
                                /\ UNCHANGED sent
    BY <2>1, SyncScheduleCases
  <2> QED BY <1>1, <2>1, <2>2, <2>3, ScheduleKeepsWorker
<1>4. CASE ExecuteModel
  BY <1>4, ExecuteKeepsWorker
<1>5. CASE UpdateStep
  <2>1. phase = "result" /\ Head(batches).done /\ UpdateFromOutput /\ UNCHANGED workerVars
    BY <1>5 DEF UpdateStep
  <2>2. batches # <<>>
    BY <2>1, SyncAnswer
  <2>3. Head(batches) = Step
    BY <2>2, OneStep
  <2>4. PICK eos : IF UpdateRaises(Step, eos) THEN Raise
                   ELSE /\ AfterUpdate(Step, eos) /\ batches' = Tail(batches)
                        /\ UNCHANGED <<sent, raised>>
    BY <2>1, <2>3 DEF UpdateFromOutput
  <2>5. ~UpdateRaises(Step, eos)
    BY <2>1, <2>3, SyncUpdates
  <2> QED BY <2>1, <2>2, <2>3, <2>4, <2>5, UpdateKeepsWorker
<1>6. CASE AwaitResult \/ UNCHANGED vars
  <2>1. UNCHANGED <<workerVars, req, batches, pending, finishedIds, freeBlocks, sent>>
    BY <1>6 DEF AwaitResult, vars, schedVars
  <2>2. \A r \in Req :
           /\ req'[r].blocks = req[r].blocks /\ req'[r].computed = req[r].computed
           /\ Live(r)' => Live(r) \/ sent[r] = 0
           /\ Live(r) => Live(r)'
           /\ \/ req'[r].status = req[r].status
              \/ req[r].status \in {"IDLE", "ABSENT"}
    BY <2>1 DEF Live
  <2>3. \A r \in Req : sent'[r] = 0 => sent[r] = 0
    BY <2>1
  <2> QED BY <1>1, <2>1, <2>2, <2>3, PlainCallKeepsWorker
<1> QED BY <1>2, <1>3, <1>4, <1>5, <1>6 DEF Next

(* The inductive invariant of the scheduler and the worker together.       *)
THEOREM WorkerInvariant ==
  ASSUME ~Async, ~MayReset PROVE Spec => [](SyncInv /\ WorkerInv)
<1>1. Init => SyncInv /\ WorkerInv
  BY SyncInit, WorkerStarts
<1>2. SyncInv /\ WorkerInv /\ [Next]_vars => SyncInv' /\ WorkerInv'
  <2>1. SyncInv /\ [Next]_vars => SyncInv'
    BY SyncNext
  <2> QED BY <2>1, WorkerNext
<1> QED BY <1>1, <1>2, PTL DEF Spec

(* Where the scheduler has given up the HOT copy of a block, the worker    *)
(* has a WARM copy of all of it.                                           *)
THEOREM SyncTierAgreement ==
  ASSUME ~Async, ~MayReset PROVE Spec => []TierAgreement
<1>1. SyncInv /\ WorkerInv => TierAgreement
  <2> SUFFICES ASSUME SyncInv, WorkerInv PROVE TierAgreement
    OBVIOUS
  <2>1. ASSUME NEW r \in Req, NEW i \in WarmIndices(req[r])
        PROVE  /\ i \in DOMAIN residency[r]
               /\ warm[residency[r][i].slot] = [req |-> r, idx |-> i, upto |-> BlockSize]
    <3>1. Agrees(r) /\ CopiesComplete
      BY DEF WorkerInv
    <3>2. r \notin finishedIds
      <4>1. req[r] = Absent => WarmIndices(req[r]) = {}
        BY AbsentRecord DEF WarmIndices
      <4> QED BY <2>1, <3>1, <4>1 DEF Agrees, Gone, SyncInv, Inv, CoreInv, ClientsKnown
    <3>3. i \in DOMAIN Copies(r)
      BY <2>1, <3>1, <3>2 DEF Agrees, CopiesAgree
    <3>4. i \in DOMAIN residency[r]
      BY <3>3 DEF Copies
    <3> QED BY <3>1, <3>4 DEF CopiesComplete
  <2>2. ASSUME batches = <<>>, NEW r \in Req \ finishedIds
        PROVE  DOMAIN residency[r] = WarmIndices(req[r])
    <3>1. Copies(r) = residency[r] /\ Arriving(r) = {}
      BY <2>2 DEF Copies, Cleared, Owed, Arriving, HasArrived
    <3>2. CopiesAgree(r)
      BY DEF WorkerInv, Agrees
    <3> QED BY <3>1, <3>2 DEF CopiesAgree
  <2> QED BY <2>1, <2>2 DEF TierAgreement
<1> QED BY <1>1, WorkerInvariant, PTL

(* A plan stays true until it is answered, and is never found stale.       *)
THEOREM SyncPlansNeverStale ==
  ASSUME ~Async, ~MayReset PROVE Spec => []PlansNeverStale
<1>1. SyncInv /\ WorkerInv => PlansNeverStale
  <2> SUFFICES ASSUME SyncInv, WorkerInv PROVE PlansNeverStale
    OBVIOUS
  <2>1. CoreInv /\ PlansParked /\ PlansInFlight
    BY DEF SyncInv, Inv, CoreInv
  <2>2. \A k \in DOMAIN batches : batches # <<>> /\ k = 1 /\ batches[k] = Step
    <3> SUFFICES ASSUME NEW k \in DOMAIN batches
                 PROVE  batches # <<>> /\ k = 1 /\ batches[k] = Step
      OBVIOUS
    <3>1. batches # <<>>
      OBVIOUS
    <3>2. DOMAIN batches = {1}
      BY <3>1, OneStep
    <3> QED BY <3>1, <3>2 DEF Step
  <2>3. ASSUME NEW k \in DOMAIN batches PROVE "STALE" \notin Range(batches[k].results)
    BY <2>2 DEF WorkerInv, Answered
  <2>4. ASSUME NEW r \in Req, IsPending(r)
        PROVE  /\ Idle(r) /\ CommitOK(req[r], pending[r])
               /\ \A k \in DOMAIN batches : ~IsScheduled(batches[k], r)
               /\ Cardinality({k \in DOMAIN batches : \E t \in Range(batches[k].trans) :
                                 t = [req |-> r, plan |-> pending[r]]}) = 1
    <3>1. Idle(r) /\ CommitOK(req[r], pending[r])
      BY <2>1, <2>4 DEF PlansParked
    <3>2. \A k \in DOMAIN batches : ~IsScheduled(batches[k], r)
      <4> SUFFICES ASSUME NEW k \in DOMAIN batches, IsScheduled(batches[k], r) PROVE FALSE
        OBVIOUS
      <4>1. r \in Range(Members(batches[k]))
        BY DEF IsScheduled, Members, Range
      <4>2. req[r].status \in {"RUNNING", "ABSENT"}
        BY <4>1 DEF SyncInv, StepRuns
      <4> QED BY <3>1, <4>2 DEF Idle
    <3>3. PICK k \in DOMAIN batches : \E n \in DOMAIN batches[k].trans :
            batches[k].trans[n].req = r
      BY <2>1, <2>4 DEF PlansInFlight
    <3>4. PICK n \in DOMAIN batches[k].trans : batches[k].trans[n].req = r
      BY <3>3
    <3>5. batches[k].trans[n] = [req |-> r, plan |-> pending[r]]
      <4>1. Step.trans \in Seq(Transition) /\ batches[k] = Step
        BY <2>1, <2>2, StepTyped
      <4>2. batches[k].trans[n] \in Transition
        BY <4>1, ElementOfSeq
      <4>3. batches[k].trans[n].plan = pending[r]
        BY <2>1, <3>4 DEF PlansInFlight
      <4> QED BY <3>4, <4>2, <4>3 DEF Transition
    <3>6. {j \in DOMAIN batches : \E t \in Range(batches[j].trans) :
             t = [req |-> r, plan |-> pending[r]]} = {k}
      BY <2>2, <3>5 DEF Range
    <3>7. Cardinality({k}) = 1
      BY FS_Singleton
    <3> QED BY <3>1, <3>2, <3>6, <3>7
  <2> QED BY <2>3, <2>4 DEF PlansNeverStale
<1> QED BY <1>1, WorkerInvariant, PTL

(* Attention reads only what the request has itself computed.              *)
THEOREM SyncReadsOwnHistory ==
  ASSUME ~Async, ~MayReset PROVE Spec => AttentionReadsOwnHistory
<1>1. SyncInv /\ WorkerInv /\ [Next]_vars =>
        [\A k \in DOMAIN batches \cap DOMAIN batches' :
           ~batches[k].done /\ batches'[k].done => ReadsOwnHistory(batches[k])]_vars
  <2> SUFFICES ASSUME SyncInv, WorkerInv, Next
               PROVE  \A k \in DOMAIN batches \cap DOMAIN batches' :
                        ~batches[k].done /\ batches'[k].done => ReadsOwnHistory(batches[k])
    OBVIOUS
  <2>1. CASE ExecuteModel
    BY <2>1, ExecuteKeepsWorker
  <2>2. CASE ClientCall \/ AbortCall \/ AwaitResult
    <3>1. UNCHANGED batches
      BY <2>2 DEF ClientCall, AbortCall, AwaitResult, AddRequest, SendTurn, CloseSession, Abort,
                  Queue, Finish, ResetPrefixCache, schedVars
    <3> QED BY <3>1
  <2>3. CASE ScheduleStep
    <3>1. batches = <<>>
      BY <2>3, SyncWaits DEF ScheduleStep
    <3> QED BY <3>1
  <2>4. CASE UpdateStep
    <3>1. phase = "result" /\ UpdateFromOutput
      BY <2>4 DEF UpdateStep
    <3>2. Tail(batches) = <<>>
      BY <3>1, SyncAnswer
    <3>3. PICK eos : IF UpdateRaises(Head(batches), eos) THEN Raise ELSE batches' = Tail(batches)
      BY <3>1 DEF UpdateFromOutput
    <3>4. batches' = <<>>
      BY <3>1, <3>2, <3>3, SyncUpdates
    <3> QED BY <3>4
  <2> QED BY <2>1, <2>2, <2>3, <2>4 DEF Next
<1> QED BY <1>1, WorkerInvariant, PTL DEF Spec, AttentionReadsOwnHistory
-----------------------------------------------------------------------------
(* With steps scheduled ahead no call raises either, as long as only the   *)
(* length of a turn stops it.                                              *)

\* The waiting queues: whatever is in them waits there, once.  (A session
\* may be in none, when an answer ends its turn while it is preempted.)
WaitingOnly ==
  /\ IsInjective(waiting) /\ IsInjective(skipped)
  /\ Range(waiting) \cap Range(skipped) = {}
  /\ \A r \in Range(waiting) : r \in Req /\ req[r].status \in {"WAITING", "PREEMPTED"}
  /\ \A r \in Range(skipped) : r \in Req /\ req[r].status \in {"WAITING", "IDLE"}

\* A request that is to be admitted has something to compute.
CanStart(q) ==
  q.status # "ABSENT" => q.tokens > 0 /\ (q.status # "RUNNING" => q.computed < q.tokens)

EveryStart == \A r \in Req : CanStart(req[r])

\* A step has each of its requests once.
StepsOnce == \A k \in DOMAIN batches : IsInjective(Members(batches[k]))

\* The inductive invariant.
CalmInv == FramesInv /\ WaitingOnly /\ EveryStart /\ StepsOnce /\ ~raised

\* A request that has just come has its prompt to compute.
LEMMA StartNew == CanStart(Absent) /\ CanStart(Arrived)
BY Sizes, AbsentRecord DEF CanStart

\* A turn adds its tokens to a history it keeps.
LEMMA StartResume ==
  ASSUME NEW q \in Record, q.computed <= q.tokens
  PROVE  CanStart(Resume(q))
<1> DEFINE kept == Smaller(q.tokens, Larger(q.computed, q.prompt))
<1>1. q.tokens \in Nat /\ q.computed \in Nat /\ q.prompt \in Nat
  BY RecordFields
<1>2. kept \in Nat /\ kept >= q.computed
  BY <1>1 DEF Smaller, Larger
<1>3. Resume(q).tokens = PromptTokens + kept /\ Resume(q).computed = q.computed
  BY ResumeRecord
<1> HIDE DEF kept
<1>4. Resume(q).tokens > 0 /\ Resume(q).computed < Resume(q).tokens
  BY <1>1, <1>2, <1>3, Sizes
<1> QED BY <1>4 DEF CanStart

\* A victim has everything to compute, and it had some.
LEMMA StartPreempted ==
  ASSUME NEW q \in Record, q.status # "ABSENT", CanStart(q)
  PROVE  CanStart(Preempted(q)) /\ CanStart(ForcePreempted(q))
<1>1. q.tokens \in Nat /\ q.tokens > 0
  BY RecordFields DEF CanStart
<1>2. /\ Preempted(q).computed = 0 /\ Preempted(q).tokens = q.tokens
      /\ ForcePreempted(q).computed = 0 /\ ForcePreempted(q).tokens = q.tokens
  BY DEF Preempted, ForcePreempted, Record
<1> QED BY <1>1, <1>2 DEF CanStart

\* So has what runs,
LEMMA StartScheduled ==
  ASSUME NEW q \in Record, q.status # "ABSENT", CanStart(q), NEW ids \in Seq(Block)
  PROVE  CanStart(Scheduled(q, ids))
<1>1. Scheduled(q, ids).status = "RUNNING" /\ Scheduled(q, ids).tokens = q.tokens
  BY DEF Scheduled, Record
<1> QED BY <1>1 DEF CanStart

\* and what gets a token and goes on.
LEMMA StartSampled ==
  ASSUME NEW q \in Record, q.status # "ABSENT", CanStart(q)
  PROVE  CanStart(Sampled(q))
<1>1. q.tokens \in Nat /\ q.computed \in Nat /\ q.tokens > 0
  BY RecordFields DEF CanStart
<1>2. /\ Sampled(q).status = q.status /\ Sampled(q).computed = q.computed
      /\ Sampled(q).tokens \in {q.tokens, q.tokens + 1}
  BY DEF Sampled, Record
<1> QED BY <1>1, <1>2 DEF CanStart

\* A turn that ends leaves the token it sampled to compute.
LEMMA StoppedStart ==
  ASSUME Async, NEW q \in Record, NEW m \in Nat, NEW s \in BOOLEAN, FrameOK(q, m, TRUE, s, FALSE),
         q.status \in {"RUNNING", "PREEMPTED"}, CanStart(q),
         q.discard = 0, LengthStop(Sampled(q), m)
  PROVE  Sampled(q).computed < Sampled(q).tokens
<1>1. /\ q.tokens \in Nat /\ q.computed \in Nat /\ q.placeholders \in Nat
  BY RecordFields
<1>2. /\ Sampled(q).computed = q.computed /\ Sampled(q).tokens = q.tokens + 1
      /\ Sampled(q).placeholders = q.placeholders - 1
  BY <1>1 DEF Sampled, Record
<1>3. Sampled(q).placeholders = 0
  BY StoppedFrame
<1>4. q.placeholders = 1
  BY <1>1, <1>2, <1>3
<1> QED BY <1>1, <1>2, <1>4 DEF FrameOK, CanStart
-----------------------------------------------------------------------------
\* An admitted request waits, once, for something to compute; so schedule()
\* finds nothing to raise about.
LEMMA CalmAdmits ==
  ASSUME CalmInv, NEW p \in 0 .. Len(running), NEW k \in 0 .. Len(Candidates)
  PROVE  ~ScheduleRaises(p, k)
<1>1. CoreInv /\ WaitingOnly /\ EveryStart
  BY DEF CalmInv, FramesInv, Inv
<1>2. \A r \in Range(Victims(p)) : ~IsPending(r)
  BY <1>1, SplitRunning
<1>3. /\ IsInjective(First(k))
      /\ \A r \in Range(First(k)) : r \in Req /\ req[r].status \in {"WAITING", "PREEMPTED"}
  BY <1>1, FirstProperties DEF WaitingOnly, QueuedApart
<1>4. \A r \in Range(First(k)) : ~(NewTokens(req[r]) <= 0)
  <2> SUFFICES ASSUME NEW r \in Range(First(k)) PROVE ~(NewTokens(req[r]) <= 0)
    OBVIOUS
  <2>1. r \in Req /\ req[r].status \in {"WAITING", "PREEMPTED"} /\ req[r] \in Record
    BY <1>1, <1>3 DEF CoreInv, Typed
  <2>2. req[r].tokens \in Nat /\ req[r].computed \in Nat /\ req[r].computed < req[r].tokens
    BY <1>1, <2>1, RecordFields DEF EveryStart, CanStart
  <2> QED BY <2>1, <2>2 DEF NewTokens
<1> QED BY <1>2, <1>3, <1>4 DEF ScheduleRaises
-----------------------------------------------------------------------------
\* finish_requests,
LEMMA CalmFinish ==
  ASSUME CalmInv, NEW S \in SUBSET Req, Finish(S)
  PROVE  WaitingOnly' /\ EveryStart'
<1> DEFINE active == {r \in S : req[r].status = "RUNNING"}
<1>1. \A r \in Req : req'[r] = IF r \in S THEN Absent ELSE req[r]
  BY DEF Finish
<1>2. EveryStart'
  BY <1>1, StartNew DEF EveryStart, CalmInv
<1>3. /\ IsInjective(waiting') /\ Range(waiting') = Range(waiting) \ (S \ active)
      /\ IsInjective(skipped') /\ Range(skipped') = Range(skipped) \ (S \ active)
  BY WithoutSubset DEF CalmInv, FramesInv, Inv, CoreInv, Typed, WaitingOnly, Finish
<1>4. \A r \in Range(waiting') : r \in Range(waiting) /\ r \notin S
  BY <1>3 DEF CalmInv, WaitingOnly
<1>5. \A r \in Range(skipped') : r \in Range(skipped) /\ r \notin S
  BY <1>3 DEF CalmInv, WaitingOnly
<1> QED BY <1>1, <1>2, <1>3, <1>4, <1>5 DEF CalmInv, WaitingOnly

\* a call that puts no request in another queue,
LEMMA CalmCall ==
  ASSUME CalmInv, UNCHANGED <<waiting, skipped>>, NEW r \in Req, NEW q,
         req' = [req EXCEPT ![r] = q], CanStart(q),
         q.status = req[r].status \/ (req[r].status = "IDLE" /\ q.status = "WAITING")
  PROVE  WaitingOnly' /\ EveryStart'
<1>1. \A s \in Req : req'[s] = IF s = r THEN q ELSE req[s]
  BY DEF CalmInv, FramesInv, Inv, CoreInv, Typed
<1>2. EveryStart'
  BY <1>1 DEF EveryStart, CalmInv
<1>3. \A s \in Req : \/ req'[s].status = req[s].status
                     \/ req[s].status = "IDLE" /\ req'[s].status = "WAITING"
  BY <1>1
<1>4. WaitingOnly'
  BY <1>3 DEF WaitingOnly, CalmInv
<1> QED BY <1>2, <1>4

\* all of a client's calls,
LEMMA CalmClient ==
  ASSUME CalmInv, NEW s \in Req,
         AddRequest(s) \/ SendTurn(s) \/ CloseSession(s) \/ Abort(s)
  PROVE  WaitingOnly' /\ EveryStart'
<1>1. CoreInv /\ req[s] \in Record /\ CanStart(req[s]) /\ WaitingOnly /\ EveryStart
  BY DEF CalmInv, FramesInv, Inv, CoreInv, Typed, EveryStart
<1>2. ASSUME NEW update, Queue(s, update) PROVE WaitingOnly' /\ EveryStart'
  <2> DEFINE q == [req[s] EXCEPT !.updates = Append(@, update)]
  <2>1. req' = [req EXCEPT ![s] = q] /\ UNCHANGED <<waiting, skipped>>
    BY <1>2 DEF Queue, queues
  <2>2. q.status = req[s].status /\ q.tokens = req[s].tokens /\ q.computed = req[s].computed
    BY <1>1 DEF Record
  <2> HIDE DEF q
  <2>3. CanStart(q)
    BY <1>1, <2>2 DEF CanStart
  <2> QED BY <2>1, <2>2, <2>3, CalmCall
<1>3. CASE AddRequest(s)
  <2>1. \A r \in Req : req'[r] = IF r = s THEN Arrived ELSE req[r]
    BY <1>1, <1>3 DEF AddRequest, CoreInv, Typed
  <2>2. req[s].status = "ABSENT"
    BY <1>1, <1>3, AbsentRecord DEF AddRequest, CoreInv, ClientsKnown
  <2>3. waiting' = Append(waiting, s) /\ UNCHANGED skipped
    BY <1>3 DEF AddRequest
  <2>4. s \notin Range(waiting) /\ s \notin Range(skipped)
    BY <1>1, <2>2 DEF WaitingOnly
  <2>5. IsInjective(waiting') /\ Range(waiting') = Range(waiting) \cup {s}
    BY <1>1, <2>3, <2>4, AppendRange DEF WaitingOnly, CoreInv, Typed
  <2>6. Arrived.status = "WAITING"
    BY AbsentRecord
  <2>7. WaitingOnly'
    BY <1>1, <2>1, <2>3, <2>4, <2>5, <2>6 DEF WaitingOnly
  <2> QED BY <1>1, <2>1, <2>7, StartNew DEF EveryStart
<1>4. CASE SendTurn(s)
  <2>1. CASE ~Idle(s) \/ IsPending(s)
    BY <1>2, <1>4, <2>1 DEF SendTurn
  <2>2. CASE Idle(s) /\ ~IsPending(s)
    <3>1. req' = [req EXCEPT ![s] = Resume(req[s])] /\ UNCHANGED <<waiting, skipped>>
      BY <1>4, <2>2 DEF SendTurn, queues
    <3>2. req[s].status = "IDLE" /\ req[s].computed <= req[s].tokens
      BY <1>1, <2>2, RecordFields DEF Idle, CanStart
    <3>3. CanStart(Resume(req[s])) /\ Resume(req[s]).status = "WAITING"
      BY <1>1, <3>2, StartResume, ResumeRecord
    <3> QED BY <3>1, <3>2, <3>3, CalmCall
  <2> QED BY <2>1, <2>2
<1>5. CASE CloseSession(s)
  <2>1. CASE ~Idle(s) \/ IsPending(s)
    BY <1>2, <1>5, <2>1 DEF CloseSession
  <2>2. CASE Idle(s) /\ ~IsPending(s)
    BY <1>5, <2>2, CalmFinish DEF CloseSession
  <2> QED BY <2>1, <2>2
<1>6. CASE Abort(s)
  <2>1. CASE IsPending(s)
    <3>1. UNCHANGED <<req, waiting, skipped>>
      BY <1>6, <2>1 DEF Abort, queues
    <3> QED BY <1>1, <3>1 DEF WaitingOnly, EveryStart
  <2>2. CASE ~IsPending(s)
    BY <1>6, <2>2, CalmFinish DEF Abort
  <2> QED BY <2>1, <2>2
<1> QED BY <1>3, <1>4, <1>5, <1>6

\* and a reset, which puts what ran before what waits.
LEMMA CalmReset ==
  ASSUME CalmInv, ResetPrefixCache
  PROVE  WaitingOnly' /\ EveryStart'
<1>1. /\ WaitingOnly /\ EveryStart /\ req \in [Req -> Record]
      /\ running \in Seq(Req) /\ waiting \in Seq(Req) /\ IsInjective(running)
      /\ \A r \in Range(running) : r \in Req /\ req[r].status = "RUNNING"
  BY RangeOfSeq DEF CalmInv, FramesInv, Inv, CoreInv, Typed, RunningOnly
<1>2. /\ \A r \in Req : req'[r] = IF r \in Range(running) THEN ForcePreempted(req[r]) ELSE req[r]
      /\ waiting' = running \o waiting /\ UNCHANGED skipped
  BY DEF ResetPrefixCache
<1>3. \A r \in Range(running) : r \notin Range(waiting) /\ r \notin Range(skipped)
  BY <1>1 DEF WaitingOnly
<1>4. IsInjective(waiting') /\ Range(waiting') = Range(running) \cup Range(waiting)
  <2>1. Range(running) \cap Range(waiting) = {}
    BY <1>3
  <2> QED BY <1>1, <1>2, <2>1, ConcatInjective, RangeConcatenation DEF WaitingOnly
<1>5. \A r \in Range(running) : req'[r].status = "PREEMPTED"
  BY <1>1, <1>2, PreemptedRecord
<1>6. EveryStart'
  <2> SUFFICES ASSUME NEW r \in Req PROVE CanStart(req'[r])
    BY DEF EveryStart
  <2>1. CanStart(req[r])
    BY <1>1 DEF EveryStart
  <2>2. CASE r \in Range(running)
    BY <1>1, <1>2, <2>1, <2>2, StartPreempted
  <2> QED BY <1>2, <2>1, <2>2
<1>7. WaitingOnly'
  <2>1. \A r \in Range(waiting') : r \in Req /\ req'[r].status \in {"WAITING", "PREEMPTED"}
    BY <1>1, <1>2, <1>3, <1>4, <1>5 DEF WaitingOnly
  <2>2. \A r \in Range(skipped') : r \in Req /\ req'[r].status \in {"WAITING", "IDLE"}
    BY <1>1, <1>2, <1>3 DEF WaitingOnly
  <2>3. Range(waiting') \cap Range(skipped') = {}
    BY <1>1, <1>2, <1>3, <1>4 DEF WaitingOnly
  <2> QED BY <1>1, <1>2, <1>4, <2>1, <2>2, <2>3 DEF WaitingOnly
<1> QED BY <1>6, <1>7
-----------------------------------------------------------------------------
\* A step takes what it admits off the queues and puts its victims back.
LEMMA CalmSchedule ==
  ASSUME CalmInv, NEW order, NEW p, NEW k, NEW ids,
         MaySchedule(order, p, k, ids), SchedulePlan(order, p, k, ids)
  PROVE  WaitingOnly' /\ EveryStart' /\ StepsOnce'
<1> DEFINE V == Range(Victims(p))
           F == Range(First(k))
           C == Range(Chosen(p, k))
           b == NewBatch(order, p, k, ids)
<1>1. /\ CoreInv /\ WaitingOnly /\ EveryStart /\ StepsOnce /\ req \in [Req -> Record]
      /\ waiting \in Seq(Req) /\ skipped \in Seq(Req) /\ batches \in Seq(BatchRecord)
  BY DEF CalmInv, FramesInv, Inv, CoreInv, Typed
<1>2. /\ Victims(p) \in Seq(Req) /\ IsInjective(Victims(p))
      /\ \A r \in V : r \in Req /\ req[r].status = "RUNNING"
  <2>1. running \in Seq(Req) /\ IsInjective(running) /\ p \in 0 .. Len(running)
    BY <1>1 DEF CoreInv, Typed, RunningOnly, MaySchedule
  <2>2. LET front == SubSeq(running, 1, Len(running) - p)
            back  == SubSeq(running, Len(running) - p + 1, Len(running))
        IN IsInjective(back)
    BY <2>1, SplitProperties
  <2> QED BY <1>1, <2>1, <2>2, SplitRunning DEF Victims
<1>3. /\ Chosen(p, k) \in Seq(Req) /\ IsInjective(Chosen(p, k))
      /\ F \subseteq C /\ C \cap V = {}
      /\ \A r \in C : r \in Req /\ req[r].status \in {"RUNNING", "WAITING", "PREEMPTED"}
      /\ \A r \in C : req[r].status # "RUNNING" => r \in F
  <2>1. \A r \in Range(Wanting(p)) : req[r].status = "RUNNING"
    BY <1>1, SplitRunning, ChosenProperties DEF MaySchedule
  <2> QED BY <1>1, <2>1, ChosenProperties
<1>4. /\ waiting' = Victims(p) \o Without(waiting, F)
      /\ skipped' = Without(skipped, F)
  BY SchedulePlanUnfolded
<1>5. /\ \A r \in V : req'[r] = Preempted(req[r])
      /\ \A r \in C : req'[r] = Scheduled(req[r], Ids(ids, r)) /\ Ids(ids, r) \in Seq(Block)
      /\ \A r \in Req \ (V \cup C) : req'[r] = req[r]
  BY <1>1, ScheduledRequests, IdsProperties
<1>6. Members(b) = Chosen(p, k)
  <2>1. /\ DOMAIN b.sched = DOMAIN Chosen(p, k)
        /\ \A n \in DOMAIN Chosen(p, k) : b.sched[n].req = Chosen(p, k)[n]
    BY DEF NewBatch, NewEntry
  <2>2. Chosen(p, k) = [n \in DOMAIN Chosen(p, k) |-> Chosen(p, k)[n]]
    BY <1>3, LenProperties
  <2> HIDE DEF b
  <2> QED BY <2>1, <2>2 DEF Members
<1>7. StepsOnce'
  <2>1. /\ batches' = Append(batches, b) /\ b \in BatchRecord
    BY <1>1, SchedulePlanUnfolded, NewBatchTyped
  <2> HIDE DEF b
  <2>2. \A i \in DOMAIN batches' : (i \in DOMAIN batches /\ batches'[i] = batches[i]) \/ batches'[i] = b
    <3>1. /\ DOMAIN batches = 1 .. Len(batches) /\ Len(batches) \in Nat
          /\ DOMAIN batches' = 1 .. Len(batches) + 1 /\ batches'[Len(batches) + 1] = b
          /\ \A i \in 1 .. Len(batches) : batches'[i] = batches[i]
      BY <1>1, <2>1, AppendBatch, LenProperties
    <3> QED BY <3>1
  <2> QED BY <1>1, <1>3, <1>6, <2>2 DEF StepsOnce
<1> HIDE DEF V, F, C, b
<1>8. EveryStart'
  <2> SUFFICES ASSUME NEW r \in Req PROVE CanStart(req'[r])
    BY DEF EveryStart
  <2>1. CanStart(req[r]) /\ req[r] \in Record
    BY <1>1 DEF EveryStart
  <2>2. CASE r \in V
    BY <1>2, <1>5, <2>1, <2>2, StartPreempted
  <2>3. CASE r \in C
    <3>1. req[r].status # "ABSENT"
      BY <1>3, <2>3
    <3> QED BY <1>5, <2>1, <2>3, <3>1, StartScheduled
  <2> QED BY <1>5, <2>1, <2>2, <2>3
<1>9. /\ Without(waiting, F) \in Seq(Req) /\ IsInjective(Without(waiting, F))
      /\ Range(Without(waiting, F)) = Range(waiting) \ F
      /\ IsInjective(skipped') /\ Range(skipped') = Range(skipped) \ F
  BY <1>1, <1>4, WithoutSubset DEF WaitingOnly
<1>10. IsInjective(waiting') /\ Range(waiting') = V \cup (Range(waiting) \ F)
  <2>1. V \cap Range(Without(waiting, F)) = {}
    BY <1>1, <1>2, <1>9 DEF WaitingOnly
  <2> QED BY <1>2, <1>4, <1>9, <2>1, ConcatInjective, RangeConcatenation DEF V
<1>11. \A r \in Range(waiting) \ F : r \in Req /\ r \notin V /\ r \notin C /\ req'[r] = req[r]
  BY <1>1, <1>2, <1>3, <1>5 DEF WaitingOnly
<1>12. \A r \in Range(skipped) \ F : r \in Req /\ r \notin V /\ r \notin C /\ req'[r] = req[r]
  BY <1>1, <1>2, <1>3, <1>5 DEF WaitingOnly
<1>13. \A r \in V : req'[r].status = "PREEMPTED"
  BY <1>1, <1>2, <1>5, PreemptedRecord
<1>14. WaitingOnly'
  BY <1>1, <1>2, <1>9, <1>10, <1>11, <1>12, <1>13 DEF WaitingOnly
<1> QED BY <1>7, <1>8, <1>14
-----------------------------------------------------------------------------
\* A request that gets an answer runs or is preempted, and has no plan.
LEMMA AnswerProperties ==
  ASSUME FramesInv, phase = "result", batches # <<>>, NEW b, b = Head(batches),
         NEW r \in Range(Outputs(b))
  PROVE  /\ r \in Req /\ ~IsPending(r) /\ r \notin Acked(b) /\ AfterAck(b, r) = req[r]
         /\ req[r].status \in {"RUNNING", "PREEMPTED"}
         /\ InSecond(r) \in BOOLEAN
         /\ FrameOK(req[r], MaxTokens[r], TRUE, InSecond(r), FALSE)
<1>1. CoreInv /\ r \in Req /\ IsScheduled(b, r)
  BY OutputsProperties, OutputsAreScheduled DEF FramesInv, Inv
<1>2. InFirst(r) = TRUE /\ InSecond(r) \in BOOLEAN /\ CoreSchedules = FALSE
  BY <1>1, OldestBatch DEF InFirst, InSecond, CoreSchedules
<1>3. Live(r)
  BY <1>1, OutputsProperties DEF LiveOnes
<1>4. FrameOK(req[r], MaxTokens[r], TRUE, InSecond(r), FALSE)
  BY <1>1, <1>2, <1>3, Zenon DEF FramesInv, EveryFrame
<1>5. req[r].status \in Status
  BY <1>1, RecordFields DEF CoreInv, Typed
<1>6. req[r].status \in {"RUNNING", "PREEMPTED"}
  <2>1. Frames(TRUE, InSecond(r)) # 0
    BY <1>2 DEF Frames
  <2>2. req[r].status \in {"WAITING", "IDLE"} => 0 + 0 = Frames(TRUE, InSecond(r))
    BY <1>4, Zenon DEF FrameOK
  <2>3. req[r].status \notin {"WAITING", "IDLE"}
    <3>1. 0 + 0 = 0
      OBVIOUS
    <3> QED BY <2>1, <2>2, <3>1
  <2> QED BY <1>3, <1>5, <2>3 DEF Status, Live
<1>7. ~IsPending(r)
  BY <1>1, <1>6 DEF CoreInv, PlansParked, Idle
<1>8. r \notin Acked(b)
  BY <1>1, <1>7, AckedPlans
<1>9. AfterAck(b, r) = req[r]
  BY <1>1, <1>8, AfterAckRecord
<1> QED BY <1>1, <1>2, <1>4, <1>6, <1>7, <1>8, <1>9

\* update_from_output() finds nothing to raise about.
LEMMA CalmUpdates ==
  ASSUME Async, CalmInv, phase = "result", batches # <<>>, NEW b, b = Head(batches), NEW eos
  PROVE  ~UpdateRaises(b, eos)
<1>1. CoreInv /\ FramesInv
  BY DEF CalmInv, FramesInv, Inv
<1>2. \A t \in Moved(b) : CommitOK(req[t.req], t.plan)
  BY <1>1, AckedPlans
<1>3. \A n \in DOMAIN b.trans : pending[b.trans[n].req] = b.trans[n].plan
  BY <1>1, OldestBatch DEF CoreInv, PlansInFlight
<1>4. \A r \in Ended(b, eos) \cup Resumed(b, eos) : ~IsPending(r)
  <2>1. Ended(b, eos) \cup Resumed(b, eos) \subseteq Range(Outputs(b))
    BY <1>1, StoppedParts
  <2> QED BY <1>1, <2>1, AnswerProperties
<1>5. \A r \in Req : ~(AfterToken(b, r).placeholders < 0)
  <2> SUFFICES ASSUME NEW r \in Req PROVE ~(AfterToken(b, r).placeholders < 0)
    OBVIOUS
  <2>1. CASE r \in Range(Outputs(b))
    <3>1. AfterToken(b, r) = Sampled(req[r]) /\ req[r] \in Record
      BY <1>1, <2>1, AnswerProperties DEF AfterToken, CoreInv, Typed
    <3>2. req[r].placeholders + req[r].discard > 0
      <4>1. /\ InSecond(r) \in BOOLEAN
            /\ req[r].placeholders + req[r].discard = Frames(TRUE, InSecond(r))
        BY <1>1, <2>1, AnswerProperties DEF FrameOK
      <4>2. Frames(TRUE, InSecond(r)) > 0
        BY <4>1 DEF Frames
      <4> QED BY <4>1, <4>2
    <3>3. req[r].placeholders \in Nat /\ req[r].discard \in Nat
      BY <3>1, RecordFields
    <3>4. CASE req[r].discard > 0
      <4>1. Sampled(req[r]).placeholders = req[r].placeholders
        BY <3>1, <3>4 DEF Sampled, Record
      <4> QED BY <3>1, <3>3, <4>1
    <3>5. CASE ~(req[r].discard > 0)
      <4>1. Sampled(req[r]).placeholders = req[r].placeholders - 1
        BY <3>1, <3>5 DEF Sampled, Record
      <4> QED BY <3>1, <3>2, <3>3, <3>5, <4>1
    <3> QED BY <3>4, <3>5
  <2>2. CASE r \notin Range(Outputs(b))
    <3>1. AfterToken(b, r) = AfterAck(b, r) /\ AfterAck(b, r) \in Record
      BY <1>1, <2>2, AfterAckRecord DEF AfterToken
    <3> QED BY <3>1, RecordFields
  <2> QED BY <2>1, <2>2
<1> QED BY <1>2, <1>3, <1>4, <1>5 DEF UpdateRaises

\* A demotion's answer leaves a session with something to compute.
LEMMA AckedStart ==
  ASSUME CalmInv, batches # <<>>, NEW b, b = Head(batches), NEW r \in Req
  PROVE  CanStart(AfterAck(b, r))
<1>1. CoreInv /\ req[r] \in Record /\ CanStart(req[r])
  BY DEF CalmInv, FramesInv, Inv, CoreInv, Typed, EveryStart
<1>2. CASE r \notin Acked(b)
  BY <1>1, <1>2, AfterAckRecord
<1>3. CASE r \in AckFinishes(b)
  BY <1>1, <1>3, AfterAckRecord, StartNew
<1>4. CASE r \in Acked(b) /\ r \notin AckFinishes(b)
  <2> DEFINE q == AfterMove(b, r)
  <2>1. /\ q \in Record /\ q.updates = req[r].updates /\ q.status = req[r].status
        /\ q.tokens = req[r].tokens /\ q.computed = req[r].computed
    BY <1>1, AfterMoveRecord, CommittedRecord DEF AfterMove
  <2>2. req[r].status = "IDLE"
    BY <1>1, <1>4, AckedPlans DEF Idle
  <2>3. AfterAck(b, r) = IF r \in AckPops(b) THEN Resume(Popped(q)) ELSE q
    BY <1>4 DEF AfterAck, AfterMove, HasMoved, Popped
  <2> HIDE DEF q
  <2>4. q.computed <= q.tokens /\ CanStart(q)
    BY <1>1, <2>1, <2>2, RecordFields DEF CanStart
  <2>5. CASE r \in AckPops(b)
    <3>1. Popped(q) \in Record
      BY <1>1, <2>1, <2>5, AckedPlans, PoppedRecord
    <3>2. Popped(q).tokens = q.tokens /\ Popped(q).computed = q.computed
      BY <2>1 DEF Popped, Record
    <3> QED BY <2>3, <2>4, <2>5, <3>1, <3>2, StartResume
  <2> QED BY <2>3, <2>4, <2>5
<1> QED BY <1>2, <1>3, <1>4

\* So does the token of a step.
LEMMA UpdatedStart ==
  ASSUME Async, CalmInv, phase = "result", batches # <<>>, NEW b, b = Head(batches),
         AfterUpdate(b, {}), NEW r \in Req
  PROVE  CanStart(req'[r])
<1>1. /\ CoreInv /\ FramesInv /\ EveryStart /\ req[r] \in Record /\ MaxTokens[r] \in Nat
      /\ ~UpdateRaises(b, {})
  BY CalmUpdates, Sizes DEF CalmInv, FramesInv, Inv, CoreInv, Typed
<1>2. req'[r] =
              CASE r \in Freed(b, {})   -> Absent
                [] r \in Resumed(b, {}) -> Resume(Popped(AfterToken(b, r)))
                [] r \in Parked(b, {})  -> AsIdle(AfterToken(b, r))
                [] OTHER                -> AfterToken(b, r)
  BY AfterUpdateRequests
<1>3. CASE r \in Freed(b, {})
  BY <1>1, <1>3, UpdatedRequests, StartNew
<1>4. CASE r \notin Freed(b, {}) /\ r \notin Range(Outputs(b))
  <2>1. AfterToken(b, r) = AfterAck(b, r) /\ r \notin Resumed(b, {}) /\ r \notin Parked(b, {})
    BY <1>1, <1>4, StoppedParts DEF AfterToken
  <2> QED BY <1>2, <1>4, <2>1, AckedStart
<1>5. CASE r \notin Freed(b, {}) /\ r \in Range(Outputs(b))
  <2> DEFINE q == Sampled(req[r])
  <2>1. /\ AfterToken(b, r) = q /\ AfterAck(b, r) = req[r] /\ InSecond(r) \in BOOLEAN
        /\ req[r].status \in {"RUNNING", "PREEMPTED"}
        /\ FrameOK(req[r], MaxTokens[r], TRUE, InSecond(r), FALSE)
    BY <1>1, <1>5, AnswerProperties DEF AfterToken
  <2>2. CanStart(req[r]) /\ CanStart(q)
    BY <1>1, <2>1, StartSampled DEF EveryStart
  <2>3. q \in Record /\ q.tokens \in Nat /\ q.computed \in Nat
    BY <1>1, <2>1, AfterTokenRecord, RecordFields
  <2>4. r \in Stopped(b, {}) => q.computed < q.tokens
    <3>1. r \in Stopped(b, {}) => req[r].discard = 0 /\ LengthStop(q, MaxTokens[r])
      BY <2>1 DEF Stopped
    <3> QED BY <1>1, <2>1, <2>2, <3>1, StoppedStart
  <2> HIDE DEF q
  <2>5. CASE r \in Resumed(b, {})
    <3>1. req'[r] = Resume(Popped(q)) /\ q.updates # <<>> /\ q.computed < q.tokens
      BY <1>1, <1>2, <1>5, <2>1, <2>4, <2>5, StoppedParts
    <3>2. Popped(q) \in Record
      BY <2>3, <3>1, PoppedRecord
    <3>3. Popped(q).tokens = q.tokens /\ Popped(q).computed = q.computed
      BY <2>3 DEF Popped, Record
    <3> QED BY <2>3, <3>1, <3>2, <3>3, StartResume
  <2>6. CASE r \in Parked(b, {})
    <3>1. req'[r] = AsIdle(q) /\ q.computed < q.tokens
      BY <1>1, <1>2, <1>5, <2>1, <2>4, <2>6, StoppedParts
    <3>2. AsIdle(q).tokens = q.tokens /\ AsIdle(q).computed = q.computed
      BY <2>3 DEF AsIdle, Record
    <3> QED BY <2>3, <3>1, <3>2 DEF CanStart
  <2>7. CASE r \notin Resumed(b, {}) /\ r \notin Parked(b, {})
    BY <1>2, <1>5, <2>1, <2>2, <2>7
  <2> QED BY <2>5, <2>6, <2>7
<1> QED BY <1>3, <1>4, <1>5
-----------------------------------------------------------------------------
\* What stopped leaves the queue it was in, whichever it was.
LEMMA CalmRequeues ==
  ASSUME Async, CalmInv, phase = "result", batches # <<>>, NEW b, b = Head(batches),
         AfterUpdate(b, {})
  PROVE  /\ WaitingOnly'
         /\ Range(waiting') = (Range(waiting) \ (AckFinishes(b) \cup Stopped(b, {})))
                                \cup {r \in Resumed(b, {}) : req[r].status = "RUNNING"}
         /\ Range(skipped') = (Range(skipped) \ AckFinishes(b)) \cup Parked(b, {})
<1> DEFINE O == Range(Outputs(b))
           X == Stopped(b, {})
           E == Ended(b, {})
           R == Resumed(b, {})
           P == Parked(b, {})
           A == AckFinishes(b)
           W == AckPops(b)
           gone == X \ LeftRunning(b, {})
           w == Without(waiting, A)
           o == Only(Outputs(b), R)
<1>1. /\ CoreInv /\ FramesInv /\ WaitingOnly /\ ~UpdateRaises(b, {})
      /\ waiting \in Seq(Req) /\ skipped \in Seq(Req)
  BY CalmUpdates DEF CalmInv, FramesInv, Inv, CoreInv, Typed
<1>2. /\ Outputs(b) \in Seq(Req) /\ IsInjective(Outputs(b))
      /\ \A r \in O : /\ r \in Req /\ AfterAck(b, r) = req[r] /\ r \notin Acked(b)
                      /\ req[r].status \in {"RUNNING", "PREEMPTED"}
  <2>1. Outputs(b) = Only(Members(b), {r \in Req : AfterAck(b, r).status # "ABSENT"})
    BY DEF Outputs, Members
  <2>2. Members(b) \in Seq(Req) /\ IsInjective(Members(b))
    <3>1. b = batches[1] /\ 1 \in DOMAIN batches /\ b.sched \in Seq(SchedEntry)
      BY <1>1, OldestBatch DEF BatchRecord
    <3>2. DOMAIN b.sched = 1 .. Len(b.sched) /\ Len(b.sched) \in Nat
          /\ \A n \in DOMAIN b.sched : b.sched[n] \in SchedEntry
      BY <3>1, LenProperties, ElementOfSeq
    <3>3. \A n \in DOMAIN b.sched : b.sched[n].req \in Req
      BY <3>2 DEF SchedEntry
    <3> QED BY <3>1, <3>2, <3>3 DEF Members, CalmInv, StepsOnce
  <2> DEFINE S == {r \in Req : AfterAck(b, r).status # "ABSENT"}
  <2> HIDE DEF S
  <2>3. Outputs(b) = Only(Members(b), S)
    BY <2>1 DEF S
  <2>4. Outputs(b) \in Seq(Req) /\ IsInjective(Outputs(b))
    BY <2>2, <2>3, OnlyProperties
  <2>5. \A r \in O : /\ r \in Req /\ AfterAck(b, r) = req[r] /\ r \notin Acked(b)
                     /\ req[r].status \in {"RUNNING", "PREEMPTED"}
    BY <1>1, AnswerProperties
  <2> QED BY <2>4, <2>5
<1>3. /\ X \subseteq O /\ E \subseteq X /\ R \subseteq X /\ P \subseteq X
      /\ P \cap (E \cup R) = {} /\ R \cap E = {} /\ X \cap A = {}
  BY <1>1, StoppedParts
<1>4. /\ A \subseteq Acked(b) /\ W \subseteq Acked(b)
      /\ \A r \in Acked(b) : r \in Req /\ req[r].status = "IDLE"
  BY <1>1, AckedPlans DEF Idle
<1>5. \A r : r \in gone <=> r \in X /\ req[r].status = "PREEMPTED"
  BY <1>2, <1>3 DEF LeftRunning
<1>6. /\ waiting' = Only(w \o o, Req \ gone)
      /\ skipped' = Without(skipped, A) \o Only(Outputs(b), P)
  BY AfterUpdateUnfolded DEF Without
<1>7. \A r \in Req : r \notin Acked(b) /\ r \notin X => req'[r].status = req[r].status
  <2> SUFFICES ASSUME NEW r \in Req, r \notin Acked(b), r \notin X
               PROVE  req'[r].status = req[r].status
    OBVIOUS
  <2>1. r \notin Freed(b, {}) /\ r \notin R /\ r \notin P /\ AfterAck(b, r) = req[r]
    BY <1>1, <1>3, <1>4, AfterAckRecord DEF Freed
  <2> QED BY <1>1, <2>1, UpdatedRequests
<1>8. /\ \A r \in R : req'[r].status = "WAITING"
      /\ \A r \in P : req'[r].status = "IDLE"
  <2>1. \A r \in R \cup P : r \in Req /\ r \notin Freed(b, {})
    BY <1>2, <1>3 DEF Freed
  <2> QED BY <1>1, <1>3, <2>1, UpdatedRequests
<1>9. \A r \in Acked(b) \ A : req'[r].status \in {"WAITING", "IDLE"}
  <2> SUFFICES ASSUME NEW r \in Acked(b), r \notin A PROVE req'[r].status \in {"WAITING", "IDLE"}
    OBVIOUS
  <2>1. r \in Req /\ r \notin Freed(b, {}) /\ r \notin R /\ r \notin P
    BY <1>2, <1>3, <1>4 DEF Freed
  <2>2. req'[r].status = AfterAck(b, r).status
    BY <1>1, <2>1, UpdatedRequests
  <2>3. AfterAck(b, r).status = IF r \in W THEN "WAITING" ELSE req[r].status
    BY <1>1, <2>1, AfterAckRecord
  <2> QED BY <1>4, <2>2, <2>3
<1> HIDE DEF O, X, E, R, P, A, W, gone
<1>10. /\ o \in Seq(Req) /\ IsInjective(o) /\ Range(o) = R
       /\ Only(Outputs(b), P) \in Seq(Req) /\ IsInjective(Only(Outputs(b), P))
       /\ Range(Only(Outputs(b), P)) = P
  <2>1. O \cap R = R /\ O \cap P = P
    BY <1>3
  <2>2. o \in Seq(Req) /\ IsInjective(o) /\ Range(o) = O \cap R
    BY <1>2, OnlyProperties DEF O
  <2>3. /\ Only(Outputs(b), P) \in Seq(Req) /\ IsInjective(Only(Outputs(b), P))
        /\ Range(Only(Outputs(b), P)) = O \cap P
    BY <1>2, OnlyProperties DEF O
  <2> QED BY <2>1, <2>2, <2>3, Zenon
<1>11. /\ w \in Seq(Req) /\ IsInjective(w) /\ Range(w) = Range(waiting) \ A
       /\ Without(skipped, A) \in Seq(Req) /\ IsInjective(Without(skipped, A))
       /\ Range(Without(skipped, A)) = Range(skipped) \ A
  BY <1>1, WithoutSubset DEF WaitingOnly
<1> HIDE DEF w, o
<1>12. /\ IsInjective(waiting')
       /\ Range(waiting') = ((Range(waiting) \ A) \cup R) \cap (Req \ gone)
  <2>1. Range(w) \cap Range(o) \cap (Req \ gone) = {}
    BY <1>1, <1>2, <1>3, <1>5, <1>10, <1>11 DEF WaitingOnly
  <2>2. w \o o \in Seq(Req) /\ Range(w \o o) = (Range(waiting) \ A) \cup R
    BY <1>10, <1>11, ConcatProperties, RangeConcatenation
  <2>3. IsInjective(waiting')
    BY <1>6, <1>10, <1>11, <2>1, ConcatOnlyInjective
  <2>4. Range(waiting') = Range(w \o o) \cap (Req \ gone)
    BY <1>6, <2>2, OnlyProperties
  <2> QED BY <2>2, <2>3, <2>4, Zenon
<1>13. Range(waiting') = (Range(waiting) \ (A \cup X)) \cup {r \in R : req[r].status = "RUNNING"}
  <2>1. \A r \in Range(waiting) : r \in Req /\ req[r].status # "RUNNING" /\ (r \in X => r \in gone)
    BY <1>1, <1>2, <1>3, <1>5 DEF WaitingOnly
  <2>2. \A r \in R : r \in Req /\ r \in X /\ (r \notin gone <=> req[r].status = "RUNNING")
    BY <1>2, <1>3, <1>5
  <2>3. \A r : r \in gone => r \in X
    BY <1>5
  <2> QED BY <1>12, <2>1, <2>2, <2>3
<1>14. IsInjective(skipped') /\ Range(skipped') = (Range(skipped) \ A) \cup P
  <2>1. Range(Without(skipped, A)) \cap Range(Only(Outputs(b), P)) = {}
    BY <1>1, <1>2, <1>3, <1>10, <1>11 DEF WaitingOnly
  <2> QED BY <1>6, <1>10, <1>11, <2>1, ConcatInjective, RangeConcatenation
<1>15. \A r \in Range(waiting') : r \in Req /\ req'[r].status \in {"WAITING", "PREEMPTED"}
  <2>1. \A r \in Range(waiting) : r \in Req /\ r \notin Acked(b) /\ req[r].status \in {"WAITING", "PREEMPTED"}
    BY <1>1, <1>4 DEF WaitingOnly
  <2> QED BY <1>2, <1>3, <1>7, <1>8, <1>13, <2>1
<1>16. \A r \in Range(skipped') : r \in Req /\ req'[r].status \in {"WAITING", "IDLE"}
  <2>1. \A r \in Range(skipped) : r \in Req /\ r \notin X /\ req[r].status \in {"WAITING", "IDLE"}
    BY <1>1, <1>2, <1>3 DEF WaitingOnly
  <2> QED BY <1>2, <1>3, <1>7, <1>8, <1>9, <1>14, <2>1
<1>17. Range(waiting') \cap Range(skipped') = {}
  <2>1. Range(waiting) \cap Range(skipped) = {} /\ R \cap P = {}
    BY <1>1, <1>3 DEF WaitingOnly
  <2>2. \A r \in R \cup P : r \in X
    BY <1>3
  <2>3. \A r \in Range(skipped) : r \notin X
    BY <1>1, <1>2, <1>3 DEF WaitingOnly
  <2> QED BY <1>13, <1>14, <2>1, <2>2, <2>3
<1>18. WaitingOnly'
  BY <1>12, <1>14, <1>15, <1>16, <1>17 DEF WaitingOnly
<1> QED BY <1>13, <1>14, <1>18 DEF A, X, R, P
-----------------------------------------------------------------------------
\* update_from_output() keeps the invariant,
LEMMA CalmUpdate ==
  ASSUME Async, ~EosStops, CalmInv, UpdateStep
  PROVE  WaitingOnly' /\ EveryStart' /\ StepsOnce' /\ ~raised'
<1>1. /\ phase = "result" /\ batches # <<>> /\ UpdateFromOutput /\ ~raised /\ CoreInv
      /\ StepsOnce
  BY DEF UpdateStep, CalmInv, FramesInv, Inv, Awaited
<1>2. ~UpdateRaises(Head(batches), {})
  BY <1>1, CalmUpdates
<1>3. /\ AfterUpdate(Head(batches), {}) /\ batches' = Tail(batches) /\ UNCHANGED raised
  BY <1>1, <1>2 DEF UpdateFromOutput
<1>4. WaitingOnly' /\ EveryStart'
  BY <1>1, <1>3, CalmRequeues, UpdatedStart DEF EveryStart
<1>5. StepsOnce'
  <2>1. \A i \in DOMAIN batches' : i + 1 \in DOMAIN batches /\ batches'[i] = batches[i + 1]
    BY <1>1, <1>3, OldestBatch
  <2> QED BY <1>1, <2>1 DEF StepsOnce
<1> QED BY <1>1, <1>3, <1>4, <1>5

\* and so does every other step.
LEMMA CalmNext ==
  ASSUME Async, ~EosStops, CalmInv, [Next]_vars
  PROVE  CalmInv'
<1>0. /\ FramesInv' /\ CoreInv /\ WaitingOnly /\ EveryStart /\ StepsOnce /\ ~raised
  BY FramesKept DEF CalmInv, FramesInv, Inv
<1>1. ASSUME UNCHANGED <<batches, raised>> PROVE StepsOnce' /\ ~raised'
  BY <1>0, <1>1 DEF StepsOnce
<1>2. CASE ClientCall
  <2>1. UNCHANGED <<batches, raised>>
    BY <1>2 DEF ClientCall, AddRequest, SendTurn, CloseSession, Queue, Finish, ResetPrefixCache
  <2>2. WaitingOnly' /\ EveryStart'
    BY <1>2, CalmClient, CalmReset DEF ClientCall
  <2> QED BY <1>0, <1>1, <2>1, <2>2 DEF CalmInv
<1>3. CASE AbortCall
  <2>1. UNCHANGED <<batches, raised>>
    BY <1>3 DEF AbortCall, Abort, Finish
  <2>2. WaitingOnly' /\ EveryStart'
    BY <1>3, CalmClient DEF AbortCall
  <2> QED BY <1>0, <1>1, <2>1, <2>2 DEF CalmInv
<1>4. CASE ScheduleStep
  <2>1. PICK p \in 0 .. Len(running), k \in 0 .. Len(Candidates) :
       /\ IsNumPreempted(p) /\ IsNumAdmitted(p, k)
       /\ IF ScheduleRaises(p, k) THEN Raise
          ELSE \E order \in Orders(Demotable) :
                  \E ids \in Injection(Needed(p, k), BlocksIf(p)) :
                    /\ SchedulePlan(order, p, k, ids)
                    /\ UNCHANGED <<deferred, numIdle, sent, raised>>
    BY <1>4 DEF ScheduleStep, Schedule, Needed, Chosen
  <2>2. ~ScheduleRaises(p, k)
    BY CalmAdmits
  <2>3. PICK order, ids : /\ MaySchedule(order, p, k, ids) /\ SchedulePlan(order, p, k, ids)
                          /\ UNCHANGED raised
    BY <2>1, <2>2 DEF MaySchedule
  <2> QED BY <1>0, <2>3, CalmSchedule DEF CalmInv
<1>5. CASE AwaitResult
  BY <1>0, <1>5 DEF AwaitResult, schedVars, queues, CalmInv, WaitingOnly, EveryStart, StepsOnce
<1>6. CASE ExecuteModel
  <2>1. PICK k \in DOMAIN batches : WorkerStep(k)
    BY <1>6 DEF ExecuteModel
  <2>2. /\ DOMAIN batches' = DOMAIN batches
        /\ \A i \in DOMAIN batches : batches'[i].sched = batches[i].sched
    BY <1>0, <2>1, WorkerBatch
  <2>3. UNCHANGED <<req, waiting, skipped, raised>>
    BY <2>1 DEF WorkerStep, queues
  <2>4. StepsOnce'
    BY <1>0, <2>2 DEF StepsOnce, Members
  <2> QED BY <1>0, <2>3, <2>4 DEF CalmInv, WaitingOnly, EveryStart
<1>7. CASE UpdateStep
  BY <1>0, <1>7, CalmUpdate DEF CalmInv
<1>8. CASE UNCHANGED vars
  BY <1>0, <1>8 DEF vars, schedVars, queues, CalmInv, WaitingOnly, EveryStart, StepsOnce
<1> QED BY <1>2, <1>3, <1>4, <1>5, <1>6, <1>7, <1>8 DEF Next

\* It holds at the start.
LEMMA CalmInit ==
  ASSUME Init
  PROVE  CalmInv
<1>1. FramesInv
  BY FramesInit
<1>2. /\ waiting = <<>> /\ skipped = <<>> /\ batches = <<>> /\ ~raised
      /\ \A r \in Req : req[r] = Absent
  BY DEF Init, SchedInit
<1>3. WaitingOnly
  BY <1>2 DEF WaitingOnly, Range, IsInjective
<1> QED BY <1>1, <1>2, <1>3, StartNew DEF CalmInv, EveryStart, StepsOnce

(* No sequence of calls, resets, demotions and answers makes the scheduler *)
(* raise, unless steps are scheduled ahead of their answers and the model  *)
(* may end a turn by itself: then one does (see README.md).                *)
THEOREM NeverRaisesHolds == ASSUME ~Async \/ ~EosStops PROVE Spec => []NeverRaises
<1>1. CASE ~Async
  BY <1>1, SyncNeverRaises
<1>2. CASE Async /\ ~EosStops
  <2>1. Init => CalmInv
    BY CalmInit
  <2>2. CalmInv /\ [Next]_vars => CalmInv'
    BY <1>2, CalmNext
  <2>3. CalmInv => NeverRaises
    BY DEF CalmInv, NeverRaises
  <2> QED BY <2>1, <2>2, <2>3, PTL DEF Spec
<1> QED BY <1>1, <1>2
-----------------------------------------------------------------------------
(* The queues, when clients wait for an answer before they send a turn.    *)

\* Only what waits for a demotion's answer is queued, and it waits alone.
PoliteUpdates ==
  \A r \in Req : req[r].updates # <<>> => IsPending(r) /\ Tail(req[r].updates) = <<>>

\* The inductive invariant.
PoliteInv == CalmInv /\ QueueSets /\ IdleCounted /\ PoliteUpdates

\* The calls of clients queue one update at a time.
LEMMA PoliteCall ==
  ASSUME ~EagerClient, CoreInv, PoliteUpdates, NEW s \in Req,
         AddRequest(s) \/ SendTurn(s) \/ CloseSession(s) \/ Abort(s)
  PROVE  PoliteUpdates'
<1>1. UNCHANGED pending /\ req \in [Req -> Record] /\ req[s] \in Record
  BY DEF AddRequest, SendTurn, CloseSession, Abort, Queue, Finish, CoreInv, Typed
<1>2. ASSUME \A r \in Req : req'[r].updates = req[r].updates \/ req'[r].updates = <<>>
      PROVE  PoliteUpdates'
  BY <1>1, <1>2 DEF PoliteUpdates, IsPending
<1>3. ASSUME NEW S \in SUBSET Req, Finish(S) PROVE PoliteUpdates'
  <2>1. \A r \in Req : req'[r] = Absent \/ req'[r] = req[r]
    BY <1>3 DEF Finish
  <2>2. Absent.updates = <<>>
    BY DEF Absent
  <2> QED BY <1>2, <2>1, <2>2
<1>4. ASSUME NEW update, MaySend(s), ~Idle(s) \/ IsPending(s), Queue(s, update)
      PROVE  PoliteUpdates'
  <2>1. Idle(s) /\ req[s].updates = <<>> /\ IsPending(s)
    BY <1>4 DEF MaySend
  <2>2. /\ \A r \in Req : r # s => req'[r] = req[r]
        /\ req'[s] = [req[s] EXCEPT !.updates = Append(@, update)]
    BY <1>1, <1>4 DEF Queue
  <2>3. req'[s].updates = Append(<<>>, update)
    BY <1>1, <2>1, <2>2 DEF Record
  <2>4. Tail(Append(<<>>, update)) = <<>>
    OBVIOUS
  <2>5. IsPending(s)' /\ (\A r \in Req : IsPending(r) => IsPending(r)')
    BY <1>1, <2>1 DEF IsPending
  <2> QED BY <2>2, <2>3, <2>4, <2>5 DEF PoliteUpdates
<1>5. CASE AddRequest(s)
  <2>1. /\ \A r \in Req : r # s => req'[r] = req[r]
        /\ req'[s] = Arrived
    BY <1>1, <1>5 DEF AddRequest
  <2> QED BY <1>2, <2>1, AbsentRecord
<1>6. CASE SendTurn(s)
  <2>1. CASE ~Idle(s) \/ IsPending(s)
    BY <1>4, <1>6, <2>1 DEF SendTurn
  <2>2. CASE Idle(s) /\ ~IsPending(s)
    <3>1. \A r \in Req : req'[r] = IF r = s THEN Resume(req[s]) ELSE req[r]
      BY <1>1, <1>6, <2>2 DEF SendTurn
    <3> QED BY <1>1, <1>2, <3>1, ResumeRecord
  <2> QED BY <2>1, <2>2
<1>7. CASE CloseSession(s)
  BY <1>3, <1>4, <1>7 DEF CloseSession
<1>8. CASE Abort(s)
  <2>1. CASE IsPending(s)
    BY <1>2, <1>8, <2>1 DEF Abort
  <2>2. CASE ~IsPending(s)
    BY <1>3, <1>8, <2>2 DEF Abort
  <2> QED BY <2>1, <2>2
<1> QED BY <1>5, <1>6, <1>7, <1>8

\* A step queues nothing and takes nothing,
LEMMA PoliteSchedule ==
  ASSUME CoreInv, PoliteUpdates, NEW order, NEW p, NEW k, NEW ids,
         MaySchedule(order, p, k, ids), SchedulePlan(order, p, k, ids)
  PROVE  PoliteUpdates'
<1>1. \A r \in Req : req[r] \in Record
  BY DEF CoreInv, Typed
<1>2. \A r \in Req : req'[r].updates = req[r].updates
  <2> SUFFICES ASSUME NEW r \in Req PROVE req'[r].updates = req[r].updates
    OBVIOUS
  <2>1. Preempted(req[r]).updates = req[r].updates
    BY <1>1 DEF Preempted, Record
  <2>2. \A new : Scheduled(req[r], new).updates = req[r].updates
    BY <1>1 DEF Scheduled, Record
  <2> QED BY <2>1, <2>2, ScheduledRequests
<1>3. \A r \in Req : IsPending(r) => IsPending(r)'
  <2> SUFFICES ASSUME NEW r \in Req, IsPending(r) PROVE IsPending(r)'
    OBVIOUS
  <2>1. r \notin Demotable
    BY DEF Demotable
  <2> QED BY <2>1, SchedulePlans DEF IsPending
<1> QED BY <1>2, <1>3 DEF PoliteUpdates

\* and neither does a reset.
LEMMA PoliteReset ==
  ASSUME CoreInv, PoliteUpdates, ResetPrefixCache
  PROVE  PoliteUpdates'
<1>1. \A r \in Req : /\ req[r] \in Record /\ ForcePreempted(req[r]).updates = req[r].updates
                     /\ req'[r] \in {ForcePreempted(req[r]), req[r]}
  BY DEF CoreInv, Typed, ForcePreempted, Preempted, Record, ResetPrefixCache
<1>2. UNCHANGED pending
  BY DEF ResetPrefixCache
<1> QED BY <1>1, <1>2 DEF PoliteUpdates, IsPending
-----------------------------------------------------------------------------
\* An answer ends a turn that no other waits for, ...
LEMMA PoliteAnswer ==
  ASSUME PoliteInv, phase = "result", batches # <<>>, NEW b, b = Head(batches)
  PROVE  /\ \A r \in Range(Outputs(b)) : AfterToken(b, r).updates = <<>>
         /\ Resumed(b, {}) = {} /\ Ended(b, {}) = Stopped(b, {}) \cap Plain
         /\ Parked(b, {}) = Stopped(b, {}) \ Plain
<1>1. CoreInv /\ FramesInv /\ PoliteUpdates
  BY DEF PoliteInv, CalmInv, FramesInv, Inv
<1>2. ASSUME NEW r \in Range(Outputs(b)) PROVE AfterToken(b, r).updates = <<>>
  <2>1. r \in Req /\ ~IsPending(r) /\ AfterAck(b, r) = req[r] /\ req[r] \in Record
    BY <1>1, AnswerProperties DEF CoreInv, Typed
  <2>2. req[r].updates = <<>>
    BY <1>1, <2>1 DEF PoliteUpdates
  <2>3. Sampled(req[r]).updates = req[r].updates
    BY <2>1 DEF Sampled, Record
  <2> QED BY <2>1, <2>2, <2>3 DEF AfterToken
<1>3. Continued(b, {}) = {}
  BY <1>1, <1>2, StoppedParts DEF Continued
<1> QED BY <1>2, <1>3 DEF Closed, Ended, Resumed, Parked

\* and takes the one turn that waited for a demotion.
LEMMA PoliteTakes ==
  ASSUME Async, PoliteInv, phase = "result", batches # <<>>, NEW b, b = Head(batches),
         AfterUpdate(b, {})
  PROVE  PoliteUpdates'
<1>1. CoreInv /\ FramesInv /\ PoliteUpdates /\ req \in [Req -> Record] /\ ~UpdateRaises(b, {})
  BY CalmUpdates DEF PoliteInv, CalmInv, FramesInv, Inv, CoreInv, Typed
<1>2. \A r \in Req : req'[r] =
              CASE r \in Freed(b, {})   -> Absent
                [] r \in Resumed(b, {}) -> Resume(Popped(AfterToken(b, r)))
                [] r \in Parked(b, {})  -> AsIdle(AfterToken(b, r))
                [] OTHER                -> AfterToken(b, r)
  BY AfterUpdateRequests
<1>3. \A r \in Req : IsPending(r)' <=> IsPending(r) /\ r \notin Acked(b)
  <2>1. pending' = [r \in Req |-> IF r \in Acked(b) THEN NoPlan ELSE pending[r]]
    BY AfterUpdateUnfolded
  <2> QED BY <2>1 DEF IsPending
<1> SUFFICES ASSUME NEW r \in Req, req'[r].updates # <<>>
             PROVE  IsPending(r)' /\ Tail(req'[r].updates) = <<>>
  BY DEF PoliteUpdates
<1>4. r \notin Freed(b, {})
  <2>1. Absent.updates = <<>>
    BY DEF Absent
  <2> QED BY <1>1, <2>1, UpdatedRequests
<1>5. r \notin Range(Outputs(b))
  <2> SUFFICES ASSUME r \in Range(Outputs(b)) PROVE FALSE
    OBVIOUS
  <2>1. AfterToken(b, r).updates = <<>> /\ r \notin Resumed(b, {})
    BY PoliteAnswer
  <2>2. AfterToken(b, r) \in Record
    BY <1>1, AfterTokenRecord
  <2>3. AsIdle(AfterToken(b, r)).updates = AfterToken(b, r).updates
    BY <2>2 DEF AsIdle, Record
  <2> QED BY <1>2, <1>4, <2>1, <2>3
<1>6. req'[r] = AfterAck(b, r)
  <2>1. AfterToken(b, r) = AfterAck(b, r) /\ r \notin Resumed(b, {}) /\ r \notin Parked(b, {})
    BY <1>1, <1>5, StoppedParts DEF AfterToken
  <2> QED BY <1>2, <1>4, <2>1
<1>7. r \notin Acked(b)
  <2> SUFFICES ASSUME r \in Acked(b) PROVE FALSE
    OBVIOUS
  <2> DEFINE q == AfterMove(b, r)
  <2>1. r \notin AckFinishes(b)
    BY <1>4 DEF Freed
  <2>2. r \notin deferred
    BY <2>1 DEF AckFinishes, AckAborts
  <2>3. AfterAck(b, r) = IF r \in AckPops(b) THEN Resume(Popped(q)) ELSE q
    BY <2>1 DEF AfterAck, AfterMove, HasMoved, Popped
  <2>4. q \in Record /\ q.updates = req[r].updates
    BY <1>1, AfterMoveRecord
  <2> HIDE DEF q
  <2>5. CASE req[r].updates = <<>>
    <3>1. r \notin AckPops(b)
      BY <2>5 DEF AckPops
    <3> QED BY <1>6, <2>3, <2>4, <2>5, <3>1
  <2>6. CASE req[r].updates # <<>>
    <3>1. r \in AckPops(b) /\ Tail(req[r].updates) = <<>>
      BY <1>1, <2>2, <2>6 DEF AckPops, PoliteUpdates
    <3>2. Popped(q) \in Record /\ Popped(q).updates = <<>>
      <4>1. Popped(q) \in Record
        BY <2>4, <2>6, PoppedRecord
      <4> QED BY <2>4, <3>1, <4>1 DEF Popped, Record
    <3> QED BY <1>6, <2>3, <3>1, <3>2, ResumeRecord
  <2> QED BY <2>5, <2>6
<1>8. req'[r] = req[r]
  BY <1>1, <1>6, <1>7, AfterAckRecord
<1> QED BY <1>1, <1>3, <1>7, <1>8 DEF PoliteUpdates
-----------------------------------------------------------------------------
(* The queues after an answer: a turn that ends leaves the queue it was    *)
(* in, the running one or, if it was preempted, the waiting one.           *)
LEMMA PoliteRequeues ==
  ASSUME Async, PoliteInv, phase = "result", batches # <<>>, NEW b, b = Head(batches),
         AfterUpdate(b, {})
  PROVE  QueueSets' /\ IdleCounted'
<1> DEFINE X == Stopped(b, {})
           E == Ended(b, {})
           P == Parked(b, {})
           A == AckFinishes(b)
           W == AckPops(b)
<1>1. /\ CoreInv /\ FramesInv /\ CalmInv /\ QueueSets /\ IdleCounted /\ WaitingOnly
      /\ ~UpdateRaises(b, {})
  BY CalmUpdates DEF PoliteInv, CalmInv, FramesInv, Inv
<1>2. \A r \in X : r \in Req /\ AfterAck(b, r) = req[r] /\ req[r].status \in {"RUNNING", "PREEMPTED"}
  BY <1>1, StoppedParts, AnswerProperties
<1>3. X = E \cup P /\ E \cap P = {} /\ Resumed(b, {}) = {}
  BY PoliteAnswer
<1>4. /\ A \subseteq Req /\ W \subseteq Req
      /\ \A r \in A \cup W : req[r].status = "IDLE"
  BY <1>1, AckedPlans DEF Idle
<1>5. LeftRunning(b, {}) = X \cap Range(running)
  BY <1>1, <1>2 DEF LeftRunning, QueueSets
<1>6. AckedRunning(b) = {} /\ AckedIdle(b) = A \cup W
  BY <1>4 DEF AckedRunning, AckedIdle, Idle
<1>7. /\ running' = Without(running, (X \cap Range(running)) \cup {})
      /\ numIdle' = numIdle + Cardinality(P) - Cardinality(A \cup W)
  BY <1>5, <1>6, AfterUpdateUnfolded
<1>8. \A r \in Req : req'[r].status =
        IF r \in A \cup E THEN "ABSENT"
        ELSE IF r \in P THEN "IDLE"
        ELSE IF r \in W THEN "WAITING" ELSE req[r].status
  <2> SUFFICES ASSUME NEW r \in Req
               PROVE  req'[r].status = IF r \in A \cup E THEN "ABSENT"
                        ELSE IF r \in P THEN "IDLE"
                        ELSE IF r \in W THEN "WAITING" ELSE req[r].status
    OBVIOUS
  <2>1. CASE r \in A \cup E
    BY <1>1, <2>1, UpdatedRequests, AbsentRecord DEF Freed
  <2>2. CASE r \notin A \cup E
    <3>1. req'[r].status = CASE r \in Resumed(b, {}) -> "WAITING"
                             [] r \in P -> "IDLE"
                             [] OTHER   -> AfterAck(b, r).status
      BY <1>1, <2>2, UpdatedRequests DEF Freed
    <3>2. AfterAck(b, r).status = IF r \in W THEN "WAITING" ELSE req[r].status
      BY <1>1, <2>2, AfterAckRecord
    <3>3. r \notin Resumed(b, {})
      BY <1>3
    <3> HIDE DEF A, E, P, W
    <3> QED BY <2>2, <3>1, <3>2, <3>3
  <2> QED BY <2>1, <2>2
<1>9. /\ IsInjective(waiting') /\ IsInjective(skipped') /\ Range(waiting') \cap Range(skipped') = {}
      /\ Range(waiting') = Range(waiting) \ (A \cup X)
      /\ Range(skipped') = (Range(skipped) \ A) \cup P
  <2>1. /\ WaitingOnly'
        /\ Range(waiting') = (Range(waiting) \ (A \cup X))
                                \cup {r \in Resumed(b, {}) : req[r].status = "RUNNING"}
        /\ Range(skipped') = (Range(skipped) \ A) \cup P
    BY <1>1, CalmRequeues
  <2>2. {r \in Resumed(b, {}) : req[r].status = "RUNNING"} = {}
    BY <1>3
  <2> QED BY <2>1, <2>2 DEF WaitingOnly
<1> HIDE DEF X, E, P, A, W
<1>10. IsInjective(running') /\ Range(running') = Range(running) \ X
  <2>1. running \in Seq(Req) /\ IsInjective(running)
    BY <1>1 DEF CoreInv, Typed, QueueSets
  <2> QED BY <1>7, <2>1, WithoutSubset
<1>11. Range(running') = {r \in Req : req'[r].status = "RUNNING"}
  <2>1. \A r \in Req : req'[r].status = "RUNNING" <=> r \in Range(running) \ X
    BY <1>1, <1>2, <1>3, <1>4, <1>8 DEF QueueSets
  <2>2. Range(running) \subseteq Req
    BY <1>1 DEF QueueSets
  <2> QED BY <1>10, <2>1, <2>2
<1>12. Range(waiting') \cup Range(skipped') =
         {r \in Req : req'[r].status \in {"WAITING", "IDLE", "PREEMPTED"}}
  <2>1. /\ Range(waiting) \cup Range(skipped) \subseteq Req
        /\ \A r \in Req : req[r].status \in {"WAITING", "IDLE", "PREEMPTED"} <=>
                            r \in Range(waiting) \cup Range(skipped)
    BY <1>1 DEF QueueSets
  <2>2. \A r \in Range(skipped) : r \notin X
    BY <1>1, <1>2 DEF WaitingOnly
  <2>3. Range(waiting') \cup Range(skipped') = ((Range(waiting) \cup Range(skipped)) \ (A \cup E)) \cup P
    BY <1>3, <1>9, <2>2
  <2>4. \A r \in Req : req'[r].status \in {"WAITING", "IDLE", "PREEMPTED"} <=>
                         r \in ((Range(waiting) \cup Range(skipped)) \ (A \cup E)) \cup P
    BY <1>2, <1>3, <1>4, <1>8, <2>1
  <2>5. ((Range(waiting) \cup Range(skipped)) \ (A \cup E)) \cup P \subseteq Req
    BY <1>2, <1>3, <2>1
  <2> QED BY <2>3, <2>4, <2>5
<1>13. Range(waiting') \cap {r \in Req : req'[r].status = "IDLE"} = {}
  BY <1>1, <1>3, <1>8, <1>9 DEF QueueSets
<1>14. QueueSets'
  BY <1>9, <1>10, <1>11, <1>12, <1>13 DEF QueueSets
<1>15. IdleOnes' = (IdleOnes \ (A \cup W)) \cup P
  <2>1. \A r \in Req : req'[r].status = "IDLE" <=> (req[r].status = "IDLE" /\ r \notin A \cup W) \/ r \in P
    BY <1>2, <1>3, <1>4, <1>8
  <2>2. P \subseteq Req
    BY <1>2, <1>3
  <2> QED BY <2>1, <2>2 DEF IdleOnes, Idle
<1>16. A \cup W \in SUBSET IdleOnes /\ P \cap IdleOnes = {}
  BY <1>2, <1>3, <1>4 DEF IdleOnes, Idle
<1>17. IsFiniteSet(P) /\ Cardinality(P) \in Nat
  BY <1>1, StoppedParts, LiveFinite DEF P
<1>18. IsFiniteSet(IdleOnes) /\ Cardinality(IdleOnes) \in Nat /\ Cardinality(A \cup W) \in Nat
  BY <1>1, <1>16, IdleFinite, FS_Subset, FS_CardinalityType
<1>19. Cardinality(IdleOnes') = Cardinality(IdleOnes) + Cardinality(P) - Cardinality(A \cup W)
  BY <1>15, <1>16, <1>17, <1>18, CountAfter
<1> QED BY <1>1, <1>7, <1>14, <1>18, <1>19 DEF IdleCounted
-----------------------------------------------------------------------------
\* Every step keeps the invariant.
LEMMA PoliteNext ==
  ASSUME Async, ~EosStops, ~EagerClient, PoliteInv, [Next]_vars
  PROVE  PoliteInv'
<1>0. /\ CalmInv' /\ CoreInv /\ CalmInv /\ QueueSets /\ IdleCounted /\ PoliteUpdates
      /\ ~raised
  BY CalmNext DEF PoliteInv, CalmInv, FramesInv, Inv
<1>1. CASE ClientCall
  <2>1. QueueSets' /\ IdleCounted'
    BY <1>0, <1>1, ClientQueues, ResetQueues DEF ClientCall
  <2>2. PoliteUpdates'
    BY <1>0, <1>1, PoliteCall, PoliteReset DEF ClientCall
  <2> QED BY <1>0, <2>1, <2>2 DEF PoliteInv
<1>2. CASE AbortCall
  <2>1. QueueSets' /\ IdleCounted'
    BY <1>0, <1>2, ClientQueues DEF AbortCall
  <2>2. PoliteUpdates'
    BY <1>0, <1>2, PoliteCall DEF AbortCall
  <2> QED BY <1>0, <2>1, <2>2 DEF PoliteInv
<1>3. CASE ScheduleStep
  <2>1. PICK p \in 0 .. Len(running), k \in 0 .. Len(Candidates) :
       /\ IsNumPreempted(p) /\ IsNumAdmitted(p, k)
       /\ IF ScheduleRaises(p, k) THEN Raise
          ELSE \E order \in Orders(Demotable) :
                  \E ids \in Injection(Needed(p, k), BlocksIf(p)) :
                    /\ SchedulePlan(order, p, k, ids)
                    /\ UNCHANGED <<deferred, numIdle, sent, raised>>
    BY <1>3 DEF ScheduleStep, Schedule, Needed, Chosen
  <2>2. ~ScheduleRaises(p, k)
    BY <1>0, CalmAdmits
  <2>3. PICK order, ids : /\ MaySchedule(order, p, k, ids) /\ SchedulePlan(order, p, k, ids)
                          /\ UNCHANGED numIdle
    BY <2>1, <2>2 DEF MaySchedule
  <2>4. QueueSets' /\ IdleCounted'
    BY <1>0, <2>3, ScheduleQueues
  <2>5. PoliteUpdates'
    BY <1>0, <2>3, PoliteSchedule
  <2> QED BY <1>0, <2>4, <2>5 DEF PoliteInv
<1>4. CASE AwaitResult \/ ExecuteModel \/ UNCHANGED vars
  <2>1. UNCHANGED <<req, running, waiting, skipped, numIdle, pending>>
    BY <1>4 DEF AwaitResult, ExecuteModel, WorkerStep, schedVars, queues, vars
  <2>2. QueueSets' /\ IdleCounted'
    BY <1>0, <2>1, SameStatusQueues
  <2>3. PoliteUpdates'
    BY <1>0, <2>1 DEF PoliteUpdates, IsPending
  <2> QED BY <1>0, <2>2, <2>3 DEF PoliteInv
<1>5. CASE UpdateStep
  <2>1. phase = "result" /\ batches # <<>> /\ UpdateFromOutput
    BY <1>0, <1>5 DEF UpdateStep, CalmInv, FramesInv, Inv, Awaited
  <2>2. ~UpdateRaises(Head(batches), {})
    BY <1>0, <2>1, CalmUpdates
  <2>3. AfterUpdate(Head(batches), {})
    BY <2>1, <2>2 DEF UpdateFromOutput
  <2>4. QueueSets' /\ IdleCounted' /\ PoliteUpdates'
    BY <2>1, <2>3, PoliteRequeues, PoliteTakes
  <2> QED BY <1>0, <2>4 DEF PoliteInv
<1> QED BY <1>1, <1>2, <1>3, <1>4, <1>5 DEF Next

(* The invariant of clients that wait for their answers holds.             *)
THEOREM PoliteInvariant == ASSUME Async, ~EosStops, ~EagerClient PROVE Spec => []PoliteInv
<1>1. Init => PoliteInv
  <2> SUFFICES ASSUME Init PROVE PoliteInv
    OBVIOUS
  <2>1. CalmInv
    BY CalmInit
  <2>2. QueueSets /\ IdleCounted
    BY SyncInit DEF SyncInv
  <2>3. \A r \in Req : req[r].updates = <<>>
    BY DEF Init, SchedInit, Absent
  <2> QED BY <2>1, <2>2, <2>3 DEF PoliteInv, PoliteUpdates
<1>2. PoliteInv /\ [Next]_vars => PoliteInv'
  BY PoliteNext
<1> QED BY <1>1, <1>2, PTL DEF Spec

(* A live request is in the one queue its status says, once, and the count *)
(* that lets the engine sleep is exact.  With asynchronous scheduling that *)
(* takes clients that wait for an answer: the next turn of a session whose *)
(* last one ends while it is preempted is lost (see README.md).            *)
THEOREM QueuesHold ==
  ASSUME ~Async \/ (~EosStops /\ ~EagerClient)
  PROVE  Spec => []QueueMembership
<1>1. CASE ~Async
  BY <1>1, SyncQueues
<1>2. CASE Async /\ ~EosStops /\ ~EagerClient
  <2>1. PoliteInv => QueueMembership
    BY QueueMembershipIsSets DEF PoliteInv, CalmInv, FramesInv, Inv, CoreInv
  <2> QED BY <1>2, <2>1, PoliteInvariant, PTL
<1> QED BY <1>1, <1>2

(* Every variable has its type; the count of idle sessions is no less than *)
(* 0, however many steps are in flight when they come and go.              *)
THEOREM TypesHold ==
  ASSUME ~Async \/ (~EosStops /\ ~EagerClient)
  PROVE  Spec => []TypeOK
<1>1. CASE ~Async
  BY <1>1, SyncTyped
<1>2. CASE Async /\ ~EosStops /\ ~EagerClient
  <2>1. PoliteInv => TypeOK
    BY IdleTyped DEF PoliteInv, CalmInv, FramesInv, Inv
  <2> QED BY <1>2, <2>1, PoliteInvariant, PTL
<1> QED BY <1>1, <1>2
=============================================================================
