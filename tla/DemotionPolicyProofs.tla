------------------------- MODULE DemotionPolicyProofs -------------------------
(***************************************************************************)
(* The policy, for any number of sessions, blocks, slots and steps in      *)
(* flight: the backoff never waits for a probe that is no longer pending,  *)
(* and no plan demotes what another one does.  With at most two steps in   *)
(* flight nothing else is pending beside a probe.                          *)
(***************************************************************************)
EXTENDS DemotionPolicy, SubsequenceProofs

Answer == {"SUCCESS", "CAPACITY", "STALE"}

IsSequence(f) == \E S : f \in Seq(S)

(* A step the worker has run answers every move it carries.                *)
AnswersComplete ==
  \A i \in DOMAIN flight :
    flight[i].run => \A n \in DOMAIN flight[i].moves :
                       flight[i].answers[n] \in Answer

ProbeInv == IsSequence(flight) /\ AnswersComplete /\ ProbeNamesPending

LEMMA AppendIsSequence ==
  ASSUME NEW f, IsSequence(f), NEW x
  PROVE  /\ IsSequence(Append(f, x))
         /\ DOMAIN Append(f, x) = 1 .. Len(f) + 1 /\ Len(Append(f, x)) = Len(f) + 1
         /\ DOMAIN f = 1 .. Len(f) /\ Len(f) \in Nat
         /\ \A i \in DOMAIN f : Append(f, x)[i] = f[i]
         /\ Append(f, x)[Len(f) + 1] = x
<1>1. PICK S : f \in Seq(S)
  BY DEF IsSequence
<1>2. f \in Seq(S \cup {x})
  BY <1>1
<1>3. Append(f, x) \in Seq(S \cup {x})
  BY <1>2
<1>4. Len(Append(f, x)) = Len(f) + 1
  BY <1>2, AppendProperties
<1> QED
  BY <1>1, <1>3, <1>4 DEF IsSequence

LEMMA TailIsSequence ==
  ASSUME NEW f, IsSequence(f), f # <<>>
  PROVE  /\ IsSequence(Tail(f))
         /\ 1 \in DOMAIN f /\ Head(f) = f[1]
         /\ \A i \in DOMAIN Tail(f) : i + 1 \in DOMAIN f /\ Tail(f)[i] = f[i + 1]
<1>1. PICK S : f \in Seq(S)
  BY DEF IsSequence
<1>2. Tail(f) \in Seq(S) /\ Len(f) \in Nat \ {0} /\ DOMAIN f = 1 .. Len(f)
  BY <1>1
<1>3. DOMAIN Tail(f) = 1 .. Len(f) - 1
  BY <1>1, <1>2
<1> QED
  BY <1>1, <1>2, <1>3 DEF IsSequence

LEMMA ExceptIsSequence ==
  ASSUME NEW f, IsSequence(f), NEW i \in DOMAIN f, NEW x
  PROVE  IsSequence([f EXCEPT ![i] = x])
<1>1. PICK S : f \in Seq(S)
  BY DEF IsSequence
<1>2. [f EXCEPT ![i] = x] \in Seq(S \cup {x})
  BY <1>1
<1> QED
  BY <1>2 DEF IsSequence
-----------------------------------------------------------------------------
LEMMA ScheduleKeepsProbe ==
  ASSUME ProbeInv, Schedule
  PROVE  ProbeInv'
<1> DEFINE plan == Planned
           step == [moves |-> plan, freed |-> toFree,
                    answers |-> <<>>, run |-> FALSE]
<1>1. flight' = Append(flight, step)
  BY DEF Schedule
<1>2. IsSequence(flight)'
  BY <1>1, AppendIsSequence DEF ProbeInv
<1>3. AnswersComplete'
  <2>1. ~step.run
    OBVIOUS
  <2> HIDE DEF step
  <2>2. SUFFICES ASSUME NEW i \in DOMAIN flight', flight'[i].run
                 PROVE  \A n \in DOMAIN flight'[i].moves :
                          flight'[i].answers[n] \in Answer
    BY DEF AnswersComplete
  <2>3. i # Len(flight) + 1
    BY <1>1, <2>1, <2>2, AppendIsSequence DEF ProbeInv
  <2>4. i \in DOMAIN flight /\ flight'[i] = flight[i]
    <3>1. i \in 1 .. Len(flight) + 1
      BY <1>1, <2>2, AppendIsSequence DEF ProbeInv
    <3>2. i \in 1 .. Len(flight)
      BY <2>3, <3>1, AppendIsSequence DEF ProbeInv
    <3> QED
      BY <1>1, <3>2, AppendIsSequence DEF ProbeInv
  <2> QED
    BY <2>2, <2>4 DEF ProbeInv, AnswersComplete
<1>4. ProbeNamesPending'
  <2>1. CASE \E s \in Session : plan = <<s>> /\ probe' = pend'[s]
    BY <2>1 DEF ProbeNamesPending
  <2>2. CASE UNCHANGED probe
    <3>1. SUFFICES ASSUME probe # NoId
                   PROVE  \E s \in Session : pend'[s] = probe
      BY <2>2 DEF ProbeNamesPending
    <3>2. plan = <<>>
      BY <3>1 DEF Planned
    <3>3. Range(plan) = {}
      BY <3>2 DEF Range
    <3>4. pend' = [s \in Session |-> pend[s]]
      BY <3>3 DEF Schedule
    <3> QED
      BY <3>1, <3>4 DEF ProbeInv, ProbeNamesPending
  <2> QED
    BY <2>1, <2>2 DEF Schedule
<1> QED
  BY <1>2, <1>3, <1>4 DEF ProbeInv

LEMMA ExecuteKeepsProbe ==
  ASSUME ProbeInv, Execute
  PROVE  ProbeInv'
<1>0. \A moves, stale : \A n \in DOMAIN moves : Answers(moves, stale)[n] \in Answer
  BY DEF Answers, Answer
<1>1. PICK i \in DOMAIN flight :
        \E stale \in IF MayBeStale THEN SUBSET Range(flight[i].moves) ELSE {{}} :
          flight' = [flight EXCEPT ![i] =
                       [moves |-> flight[i].moves, freed |-> flight[i].freed,
                        run |-> TRUE, answers |-> Answers(flight[i].moves, stale)]]
  BY DEF Execute
<1>2. /\ flight' = [flight EXCEPT ![i] = flight'[i]]
      /\ \A n \in DOMAIN flight'[i].moves : flight'[i].answers[n] \in Answer
  BY <1>0, <1>1
<1>3. IsSequence(flight)'
  BY <1>2, ExceptIsSequence DEF ProbeInv
<1>4. AnswersComplete'
  <2>1. DOMAIN flight' = DOMAIN flight
    BY <1>2
  <2>2. SUFFICES ASSUME NEW j \in DOMAIN flight, flight'[j].run
                 PROVE  \A n \in DOMAIN flight'[j].moves :
                          flight'[j].answers[n] \in Answer
    BY <2>1 DEF AnswersComplete
  <2>3. CASE j = i
    BY <1>2, <2>3
  <2>4. CASE j # i
    BY <1>2, <2>2, <2>4 DEF ProbeInv, AnswersComplete
  <2> QED
    BY <2>3, <2>4
<1>5. ProbeNamesPending'
  BY DEF Execute, backoff, ProbeInv, ProbeNamesPending
<1> QED
  BY <1>3, <1>4, <1>5 DEF ProbeInv

LEMMA UpdateKeepsProbe ==
  ASSUME ProbeInv, Update
  PROVE  ProbeInv'
<1> DEFINE step == Head(flight)
<1>1. /\ IsSequence(flight) /\ flight # <<>> /\ step.run
      /\ flight' = Tail(flight)
  BY DEF Update, ProbeInv
<1>2. IsSequence(flight)'
  BY <1>1, TailIsSequence
<1>3. AnswersComplete'
  <2>1. SUFFICES ASSUME NEW i \in DOMAIN flight', flight'[i].run
                 PROVE  \A n \in DOMAIN flight'[i].moves :
                          flight'[i].answers[n] \in Answer
    BY DEF AnswersComplete
  <2>2. i + 1 \in DOMAIN flight /\ flight'[i] = flight[i + 1]
    BY <1>1, <2>1, TailIsSequence
  <2> QED
    BY <2>1, <2>2 DEF ProbeInv, AnswersComplete
<1>4. \A n \in DOMAIN step.moves : step.answers[n] \in Answer
  BY <1>1, TailIsSequence DEF ProbeInv, AnswersComplete
<1> HIDE DEF step
<1>5. ProbeNamesPending'
  <2>1. SUFFICES ASSUME probe' # NoId
                 PROVE  \E s \in Session : pend'[s] = probe'
    BY DEF ProbeNamesPending
  <2>2. Backoff(step) /\ Settle(step)
    BY DEF Update, step
  <2>3. /\ UNCHANGED probe
        /\ ~ \E s \in Answered(step, "SUCCESS") : pend[s] = probe
        /\ ~ \E s \in Answered(step, "STALE") : pend[s] = probe
        /\ Answered(step, "CAPACITY") = {}
    BY <2>1, <2>2 DEF Backoff, backoff
  <2>4. PICK s \in Session : pend[s] = probe
    BY <2>1, <2>3 DEF ProbeInv, ProbeNamesPending
  <2>5. s \notin Range(step.moves)
    <3>1. SUFFICES ASSUME s \in Range(step.moves)
                   PROVE  FALSE
      OBVIOUS
    <3>2. PICK n \in DOMAIN step.moves : step.moves[n] = s
      BY <3>1 DEF Range
    <3>3. s \in Answered(step, step.answers[n])
      BY <3>2 DEF Answered
    <3> QED
      BY <1>4, <2>3, <2>4, <3>2, <3>3 DEF Answer
  <2>6. pend'[s] = pend[s]
    BY <2>2, <2>4, <2>5 DEF Settle
  <2> QED
    BY <2>3, <2>4, <2>6
<1> QED
  BY <1>2, <1>3, <1>5 DEF ProbeInv
-----------------------------------------------------------------------------
(* A probe the policy waits for is a transition that is still pending, so  *)
(* its answer is still to come and will let demotion go on.                *)
THEOREM ProbeAlwaysPending == Spec => []ProbeNamesPending
<1>1. Init => ProbeInv
  <2> SUFFICES ASSUME Init
               PROVE  ProbeInv
    OBVIOUS
  <2>1. flight = <<>> /\ probe = NoId
    BY DEF Init
  <2>2. IsSequence(flight)
    <3>1. flight \in Seq({})
      BY <2>1
    <3> QED
      BY <3>1 DEF IsSequence
  <2>3. AnswersComplete
    BY <2>1 DEF AnswersComplete
  <2> QED
    BY <2>1, <2>2, <2>3 DEF ProbeInv, ProbeNamesPending
<1>2. ProbeInv /\ [Next]_vars => ProbeInv'
  <2> SUFFICES ASSUME ProbeInv, [Next]_vars
               PROVE  ProbeInv'
    OBVIOUS
  <2>1. CASE Schedule
    BY <2>1, ScheduleKeepsProbe
  <2>2. CASE Execute
    BY <2>2, ExecuteKeepsProbe
  <2>3. CASE Update
    BY <2>3, UpdateKeepsProbe
  <2>4. CASE UNCHANGED <<pend, flight, probe>>
    BY <2>4 DEF ProbeInv, AnswersComplete, ProbeNamesPending, IsSequence
  <2>5. ASSUME NEW s \in Session,
               Open(s) \/ Grow(s) \/ EndTurn(s) \/ NextTurn(s) \/ Finish(s)
        PROVE  UNCHANGED <<pend, flight, probe>>
    BY <2>5 DEF Open, Grow, EndTurn, NextTurn, Finish, backoff
  <2>6. Others => UNCHANGED <<pend, flight, probe>>
    BY DEF Others, backoff
  <2>7. UNCHANGED vars => UNCHANGED <<pend, flight, probe>>
    BY DEF vars, backoff
  <2> QED
    BY <2>1, <2>2, <2>3, <2>4, <2>5, <2>6, <2>7 DEF Next
<1>3. ProbeInv => ProbeNamesPending
  BY DEF ProbeInv
<1> QED
  BY <1>1, <1>2, <1>3, PTL DEF Spec
-----------------------------------------------------------------------------
(* Plans in flight and pending transitions.                                *)

PolicyTyped ==
  /\ order \in Seq(Session) /\ IsInjective(order)
  /\ pend \in [Session -> Id \cup {NoId}]
  /\ \A i \in DOMAIN flight :
       flight[i].moves \in Seq(Session) /\ IsInjective(flight[i].moves)

(* A transition is pending exactly as long as a step in flight moves it,   *)
(* and no two steps do.                                                    *)
PendingInFlight ==
  \A s \in Session : pend[s] # NoId <=>
    \E i \in DOMAIN flight : s \in Range(flight[i].moves)
MovesApart ==
  \A i, j \in DOMAIN flight :
    Range(flight[i].moves) \cap Range(flight[j].moves) # {} => i = j

PlanInv == ProbeInv /\ PolicyTyped /\ PendingInFlight /\ MovesApart

\* A set has an injection into every set that is no smaller.
LEMMA InjectionExists ==
  ASSUME NEW R, NEW F, IsFiniteSet(R), IsFiniteSet(F), Cardinality(R) <= Cardinality(F)
  PROVE  \E f \in [R -> F] : \A s, t \in R : f[s] = f[t] => s = t
<1> DEFINE k == Cardinality(R)
           m == Cardinality(F)
<1>1. k \in Nat /\ m \in Nat /\ ExistsBijection(1 .. k, R) /\ ExistsBijection(1 .. m, F)
  BY FS_CardinalityType
<1>2. k <= m
  OBVIOUS
<1> HIDE DEF k, m
<1>3. ExistsInjection(1 .. k, 1 .. m)
  BY <1>1, <1>2, Fun_NatInjLeq
<1>4. ExistsInjection(R, 1 .. k) /\ ExistsInjection(1 .. m, F)
  BY <1>1, Fun_ExistsBijEquiv
<1>5. ExistsInjection(R, F)
  BY <1>3, <1>4, Fun_ExistsInjTransitive
<1>6. PICK f \in Injection(R, F) : TRUE
  BY <1>5, Fun_ExistsInj
<1> QED BY <1>6, Fun_InjectionProperties

(* There are always ids left for a plan of sessions that have none.        *)
LEMMA FreshIdsExist ==
  ASSUME NEW plan, Range(plan) \subseteq Session, probe = NoId,
         pend \in [Session -> Id \cup {NoId}], \A s \in Range(plan) : pend[s] = NoId
  PROVE  /\ FreshIds(plan) \in [Range(plan) -> Id]
         /\ \A s \in Range(plan) : FreshIds(plan)[s] # NoId
<1> DEFINE R == Range(plan)
           rest == Session \ R
           taken == {pend[s] : s \in Session} \cup {probe}
           free == Id \ taken
           N == Cardinality(Session)
           used == {pend[s] : s \in rest}
<1>1. IsFiniteSet(Session) /\ N \in Nat /\ NoId \notin Nat
  BY IdAssumption, FS_CardinalityType
<1>2. Id = 1 .. N + 1
  BY DEF Id
<1> HIDE DEF N
<1>3. IsFiniteSet(Id) /\ Cardinality(Id) = N + 1 /\ NoId \notin Id
  BY <1>1, <1>2, FS_Interval
<1> HIDE DEF R
<1>4. IsFiniteSet(R) /\ Cardinality(R) \in Nat /\ R \subseteq Session
  BY <1>1, FS_Subset, FS_CardinalityType DEF R
<1>5. IsFiniteSet(rest) /\ Cardinality(rest) = N - Cardinality(R)
  <2>1. Session \cap R = R
    BY <1>4
  <2> QED BY <1>1, <2>1, FS_Difference DEF N
<1>6. IsFiniteSet(used) /\ Cardinality(used) <= Cardinality(rest) /\ Cardinality(used) \in Nat
  <2> DEFINE g == [s \in rest |-> pend[s]]
  <2>1. g \in Surjection(rest, used)
    <3>1. g \in [rest -> used] /\ \A u \in used : \E s \in rest : g[s] = u
      OBVIOUS
    <3> HIDE DEF g, used, rest
    <3> QED BY <3>1, Fun_IsSurj
  <2> HIDE DEF g, used, rest
  <2> QED BY <1>5, <2>1, FS_Surjection, FS_CardinalityType
<1>7. Id \ taken = Id \ used
  <2>1. \A s \in R : pend[s] = NoId
    BY DEF R
  <2>2. \A s \in Session : s \in R \/ s \in rest
    OBVIOUS
  <2>3. used \subseteq taken
    BY <1>4
  <2>4. taken \subseteq used \cup {NoId}
    BY <2>1, <2>2
  <2> HIDE DEF used, taken
  <2> QED BY <1>3, <2>3, <2>4
<1> HIDE DEF used, rest, taken
<1>8. IsFiniteSet(free) /\ Cardinality(R) <= Cardinality(free)
  <2>1. /\ IsFiniteSet(Id \ used)
        /\ Cardinality(Id \ used) = Cardinality(Id) - Cardinality(Id \cap used)
    BY <1>3, FS_Difference, Zenon
  <2>3. Cardinality(Id \cap used) <= Cardinality(used) /\ Cardinality(Id \cap used) \in Nat
    BY <1>6, FS_Intersection, FS_CardinalityType
  <2>4. Cardinality(R) <= Cardinality(Id \ used)
    BY <1>1, <1>3, <1>4, <1>5, <1>6, <2>1, <2>3
  <2> QED BY <1>7, <2>1, <2>4
<1>9. \E ids \in [R -> free] : \A s, t \in R : ids[s] = ids[t] => s = t
  <2> HIDE DEF free
  <2> QED BY <1>4, <1>8, InjectionExists
<1>10. FreshIds(plan) = CHOOSE ids \in [R -> free] : \A s, t \in R : ids[s] = ids[t] => s = t
  BY DEF FreshIds, R, taken
<1>11. FreshIds(plan) \in [R -> free]
  BY <1>9, <1>10
<1> QED BY <1>3, <1>11 DEF R

\* The sessions a step may plan for: idle, with nothing pending, each once.
LEMMA CandidatesProperties ==
  ASSUME PolicyTyped
  PROVE  /\ Candidates \in Seq(Session) /\ IsInjective(Candidates)
         /\ \A s \in Range(Candidates) : pend[s] = NoId
<1> DEFINE S == {s \in Session : /\ phase[s] = "IDLE" /\ tier[s] = "HOT"
                                 /\ pend[s] = NoId /\ full[s] > 0}
<1>1. Candidates = Only(order, S) /\ \A s \in S : pend[s] = NoId
  BY DEF Candidates
<1> HIDE DEF S
<1> QED BY <1>1, OnlyProperties DEF PolicyTyped

\* The first n elements of a sequence.
LEMMA FirstProperties ==
  ASSUME NEW S, NEW q \in Seq(S), IsInjective(q), NEW n \in 0 .. Len(q)
  PROVE  /\ SubSeq(q, 1, n) \in Seq(S) /\ IsInjective(SubSeq(q, 1, n))
         /\ DOMAIN SubSeq(q, 1, n) = 1 .. n
         /\ \A k \in 1 .. n : SubSeq(q, 1, n)[k] = q[k]
         /\ Range(SubSeq(q, 1, n)) \subseteq Range(q)
         /\ n > 0 => Range(SubSeq(q, 1, n)) \ {q[n]} = Range(SubSeq(q, 1, n - 1))
<1>1. /\ Len(q) \in Nat /\ DOMAIN q = 1 .. Len(q) /\ n \in Nat
      /\ \A k \in 1 .. Len(q) : q[k] \in S
  BY LenProperties, ElementOfSeq
<1>2. ASSUME NEW m \in 0 .. Len(q)
      PROVE  /\ SubSeq(q, 1, m) \in Seq(S) /\ DOMAIN SubSeq(q, 1, m) = 1 .. m
             /\ \A k \in 1 .. m : SubSeq(q, 1, m)[k] = q[k]
  <2>1. \A k \in 1 .. m : q[k] \in S
    BY <1>1
  <2>2. /\ SubSeq(q, 1, m) \in Seq(S)
        /\ Len(SubSeq(q, 1, m)) = IF 1 <= m THEN m - 1 + 1 ELSE 0
        /\ \A i \in 1 .. m - 1 + 1 : SubSeq(q, 1, m)[i] = q[1 + i - 1]
    BY <1>1, <2>1, SubSeqProperties
  <2>3. Len(SubSeq(q, 1, m)) = m /\ DOMAIN SubSeq(q, 1, m) = 1 .. Len(SubSeq(q, 1, m))
    BY <2>2, LenProperties
  <2>4. \A i \in 1 .. m : i \in 1 .. m - 1 + 1 /\ 1 + i - 1 = i
    BY <1>1
  <2> QED BY <2>2, <2>3, <2>4
<1>3. IsInjective(SubSeq(q, 1, n))
  BY <1>1, <1>2 DEF IsInjective
<1>4. Range(SubSeq(q, 1, n)) \subseteq Range(q)
  BY <1>1, <1>2 DEF Range
<1>5. n > 0 => Range(SubSeq(q, 1, n)) \ {q[n]} = Range(SubSeq(q, 1, n - 1))
  <2> SUFFICES ASSUME n > 0
               PROVE  Range(SubSeq(q, 1, n)) \ {q[n]} = Range(SubSeq(q, 1, n - 1))
    OBVIOUS
  <2>1. n - 1 \in 0 .. Len(q) /\ n \in 0 .. Len(q)
    BY <1>1
  <2>2. Range(SubSeq(q, 1, n)) = {q[k] : k \in 1 .. n}
    BY <1>2 DEF Range
  <2>3. Range(SubSeq(q, 1, n - 1)) = {q[k] : k \in 1 .. n - 1}
    BY <1>2, <2>1 DEF Range
  <2>4. \A k \in 1 .. n - 1 : q[k] # q[n]
    BY <1>1 DEF IsInjective
  <2>5. \A k \in 1 .. n : k \in 1 .. n - 1 \/ k = n
    BY <1>1
  <2> QED BY <1>1, <2>2, <2>3, <2>4, <2>5
<1> QED BY <1>2, <1>3, <1>4, <1>5

(* A plan ends where it has done enough, or with the candidates.           *)
LEMMA PlanSizeProperties ==
  ASSUME PolicyTyped
  PROVE  /\ PlanSize \in 0 .. Len(Candidates)
         /\ probeRequired => PlanSize <= 1
         /\ ~probeRequired => \A k \in 0 .. PlanSize - 1 : OverStop(k)
<1> DEFINE L == Len(Candidates)
<1>1. L \in Nat /\ (Candidates # <<>> => L > 0)
  BY CandidatesProperties, LenProperties, EmptySeq
<1>2. CASE probeRequired
  BY <1>1, <1>2 DEF PlanSize
<1>3. CASE ~probeRequired
  <2>1. PlanSize = CHOOSE n \in 0 .. L :
          (\A k \in 0 .. n - 1 : OverStop(k)) /\ (n = L \/ ~OverStop(n))
    BY <1>3 DEF PlanSize
  <2> HIDE DEF L
  <2> DEFINE T == {n \in 0 .. L : n = L \/ ~OverStop(n)}
  <2>2. T \in SUBSET Nat /\ L \in T
    BY <1>1
  <2>3. PICK n \in T : \A m \in T : n <= m
    BY <2>2, LeastNumber
  <2>4. n \in 0 .. L /\ (n = L \/ ~OverStop(n))
    OBVIOUS
  <2>5. \A k \in 0 .. n - 1 : OverStop(k)
    BY <1>1, <2>3, <2>4
  <2>6. PlanSize \in 0 .. L /\ \A k \in 0 .. PlanSize - 1 : OverStop(k)
    BY <2>1, <2>4, <2>5
  <2> QED BY <1>3, <2>6 DEF L
<1> QED BY <1>2, <1>3

(* What a step plans are candidates, in their order; without the last one  *)
(* the projected use would stay above the lower watermark.                 *)
LEMMA PlannedProperties ==
  ASSUME PolicyTyped
  PROVE  /\ Planned \in Seq(Session) /\ IsInjective(Planned)
         /\ \A s \in Range(Planned) : pend[s] = NoId
         /\ Planned # <<>> =>
              /\ probe = NoId /\ ~(cooldown > 0)
              /\ \E last \in Range(Planned) :
                   Projected(Range(Planned) \ {last}) > StopBlocks
<1>1. CASE Planned = <<>>
  <2>1. <<>> \in Seq(Session) /\ IsInjective(<<>>) /\ Range(<<>>) = {}
    BY DEF IsInjective, Range
  <2> QED BY <1>1, <2>1
<1>2. CASE Planned # <<>>
  <2> DEFINE C == Candidates
             n == PlanSize
  <2>1. /\ Planned = SubSeq(C, 1, n) /\ ~(cooldown > 0) /\ probe = NoId /\ Pressure
    BY <1>2 DEF Planned
  <2>2. C \in Seq(Session) /\ IsInjective(C) /\ \A s \in Range(C) : pend[s] = NoId
    BY CandidatesProperties
  <2>3. /\ n \in 0 .. Len(C) /\ (probeRequired => n <= 1)
        /\ ~probeRequired => \A k \in 0 .. n - 1 : OverStop(k)
    BY PlanSizeProperties
  <2>4. \A k : OverStop(k) <=> Projected(Range(SubSeq(C, 1, k))) > StopBlocks
    BY DEF OverStop
  <2> HIDE DEF C, n
  <2>5. /\ SubSeq(C, 1, n) \in Seq(Session) /\ IsInjective(SubSeq(C, 1, n))
        /\ DOMAIN SubSeq(C, 1, n) = 1 .. n
        /\ \A k \in 1 .. n : SubSeq(C, 1, n)[k] = C[k]
        /\ Range(SubSeq(C, 1, n)) \subseteq Range(C)
        /\ n > 0 => Range(SubSeq(C, 1, n)) \ {C[n]} = Range(SubSeq(C, 1, n - 1))
    BY <2>2, <2>3, FirstProperties
  <2>6. n > 0 /\ n \in Nat
    <3>1. Len(C) \in Nat
      BY <2>2, LenProperties
    <3>2. n # 0
      <4> SUFFICES ASSUME n = 0 PROVE FALSE
        OBVIOUS
      <4>1. Len(SubSeq(C, 1, n)) = 0
        <5>1. DOMAIN SubSeq(C, 1, n) = 1 .. Len(SubSeq(C, 1, n)) /\ Len(SubSeq(C, 1, n)) \in Nat
          BY <2>5, LenProperties
        <5> QED BY <2>5, <5>1
      <4> QED BY <1>2, <2>1, <2>5, <4>1, EmptySeq
    <3> QED BY <2>3, <3>1, <3>2
  <2>7. C[n] \in Range(SubSeq(C, 1, n))
    BY <2>5, <2>6 DEF Range
  <2>8. Projected(Range(SubSeq(C, 1, n)) \ {C[n]}) > StopBlocks
    <3>1. CASE probeRequired
      <4>1. n = 1
        BY <2>3, <2>6, <3>1
      <4>2. Range(SubSeq(C, 1, n)) \ {C[n]} = {}
        BY <2>5, <4>1 DEF Range
      <4> QED BY <2>1, <4>2 DEF Pressure
    <3>2. CASE ~probeRequired
      <4>1. OverStop(n - 1)
        BY <2>3, <2>6, <3>2
      <4> QED BY <2>4, <2>5, <2>6, <4>1
    <3> QED BY <3>1, <3>2
  <2> QED BY <2>1, <2>2, <2>5, <2>7, <2>8
<1> QED BY <1>1, <1>2

\* One step of the policy leaves order, pending and the moves in flight.
LEMMA SchedulePlans ==
  ASSUME PlanInv, Schedule
  PROVE  /\ IsSequence(flight) /\ Planned \in Seq(Session) /\ IsInjective(Planned)
         /\ DOMAIN flight = 1 .. Len(flight) /\ Len(flight) \in Nat
         /\ DOMAIN flight' = 1 .. Len(flight) + 1 /\ Len(flight') = Len(flight) + 1
         /\ \A i \in DOMAIN flight : flight'[i] = flight[i]
         /\ flight'[Len(flight) + 1].moves = Planned
         /\ pend' \in [Session -> Id \cup {NoId}]
         /\ \A s \in Session : IF s \in Range(Planned)
                               THEN pend[s] = NoId /\ pend'[s] # NoId
                               ELSE pend'[s] = pend[s]
         /\ UNCHANGED order
<1> DEFINE plan == Planned
           step == [moves |-> plan, freed |-> toFree,
                    answers |-> <<>>, run |-> FALSE]
<1>1. /\ flight' = Append(flight, step) /\ IsSequence(flight)
      /\ pend' = [s \in Session |-> IF s \in Range(plan) THEN FreshIds(plan)[s] ELSE pend[s]]
      /\ UNCHANGED order
  BY DEF Schedule, PlanInv, ProbeInv, sessionVars
<1>2. step.moves = plan
  OBVIOUS
<1>3. /\ plan \in Seq(Session) /\ IsInjective(plan)
      /\ \A s \in Range(plan) : pend[s] = NoId
      /\ plan # <<>> => probe = NoId
  BY PlannedProperties DEF PlanInv
<1> HIDE DEF plan, step
<1>4. /\ DOMAIN flight = 1 .. Len(flight) /\ Len(flight) \in Nat
      /\ DOMAIN flight' = 1 .. Len(flight) + 1 /\ Len(flight') = Len(flight) + 1
      /\ \A i \in DOMAIN flight : flight'[i] = flight[i]
      /\ flight'[Len(flight) + 1].moves = plan
  <2>1. /\ DOMAIN flight = 1 .. Len(flight) /\ Len(flight) \in Nat
        /\ DOMAIN flight' = 1 .. Len(flight) + 1 /\ Len(flight') = Len(flight) + 1
        /\ \A i \in DOMAIN flight : flight'[i] = flight[i]
        /\ flight'[Len(flight) + 1] = step
    BY <1>1, AppendIsSequence
  <2> QED BY <1>2, <2>1
<1>5. Range(plan) \subseteq Session
  BY <1>3, RangeOfSeq
<1>6. ASSUME NEW s \in Range(plan) PROVE FreshIds(plan)[s] \in Id /\ FreshIds(plan)[s] # NoId
  <2>1. plan # <<>>
    BY <1>6 DEF Range
  <2>2. /\ FreshIds(plan) \in [Range(plan) -> Id]
        /\ \A t \in Range(plan) : FreshIds(plan)[t] # NoId
    BY <1>3, <1>5, <2>1, FreshIdsExist DEF PlanInv, PolicyTyped
  <2> QED BY <2>2
<1>7. /\ pend' \in [Session -> Id \cup {NoId}]
      /\ \A s \in Session : IF s \in Range(plan)
                            THEN pend[s] = NoId /\ pend'[s] # NoId
                            ELSE pend'[s] = pend[s]
  <2>1. pend \in [Session -> Id \cup {NoId}]
    BY DEF PlanInv, PolicyTyped
  <2>2. \A s \in Session : pend'[s] \in Id \cup {NoId}
    BY <1>1, <1>6, <2>1
  <2>3. pend' \in [Session -> Id \cup {NoId}]
    BY <1>1, <2>2
  <2> QED BY <1>1, <1>3, <1>6, <2>3
<1> QED BY <1>1, <1>3, <1>4, <1>7 DEF plan

LEMMA ScheduleKeepsPlans ==
  ASSUME PlanInv, Schedule
  PROVE  PlanInv'
<1> DEFINE plan == Planned
           n == Len(flight) + 1
<1>1. /\ IsSequence(flight) /\ plan \in Seq(Session) /\ IsInjective(plan)
      /\ DOMAIN flight = 1 .. Len(flight) /\ Len(flight) \in Nat
      /\ DOMAIN flight' = 1 .. n
      /\ \A i \in DOMAIN flight : flight'[i] = flight[i]
      /\ flight'[n].moves = plan
      /\ pend' \in [Session -> Id \cup {NoId}]
      /\ \A s \in Session : IF s \in Range(plan)
                            THEN pend[s] = NoId /\ pend'[s] # NoId
                            ELSE pend'[s] = pend[s]
      /\ UNCHANGED order
  BY SchedulePlans
<1>2. /\ PolicyTyped /\ PendingInFlight /\ MovesApart /\ ProbeInv
  BY DEF PlanInv
<1>3. DOMAIN flight' = DOMAIN flight \cup {n} /\ n \notin DOMAIN flight
  BY <1>1
<1> HIDE DEF plan, n
<1>4. PolicyTyped'
  BY <1>1, <1>2, <1>3 DEF PolicyTyped
<1>5. PendingInFlight'
  <2> SUFFICES ASSUME NEW s \in Session
               PROVE  pend'[s] # NoId <=> \E i \in DOMAIN flight' : s \in Range(flight'[i].moves)
    BY DEF PendingInFlight
  <2>1. CASE s \in Range(plan)
    BY <1>1, <1>3, <2>1
  <2>2. CASE s \notin Range(plan)
    BY <1>1, <1>2, <1>3, <2>2 DEF PendingInFlight
  <2> QED BY <2>1, <2>2
<1>6. MovesApart'
  <2>1. \A i \in DOMAIN flight : Range(flight[i].moves) \cap Range(plan) = {}
    <3> SUFFICES ASSUME NEW i \in DOMAIN flight, NEW s \in Range(flight[i].moves), s \in Range(plan)
                 PROVE  FALSE
      OBVIOUS
    <3>1. s \in Session
      BY <1>1, RangeOfSeq
    <3> QED BY <1>1, <1>2, <3>1 DEF PendingInFlight
  <2>2. SUFFICES ASSUME NEW i \in DOMAIN flight', NEW j \in DOMAIN flight',
                        Range(flight'[i].moves) \cap Range(flight'[j].moves) # {}
                 PROVE  i = j
    BY DEF MovesApart
  <2>3. CASE i \in DOMAIN flight /\ j \in DOMAIN flight
    BY <1>1, <1>2, <2>2, <2>3 DEF MovesApart
  <2>4. CASE i = n \/ j = n
    BY <1>1, <1>3, <2>1, <2>2, <2>4
  <2> QED BY <1>3, <2>3, <2>4
<1>7. ProbeInv'
  BY <1>2, ScheduleKeepsProbe
<1> QED BY <1>4, <1>5, <1>6, <1>7 DEF PlanInv

\* A step the worker runs keeps its moves.
LEMMA ExecuteMoves ==
  ASSUME IsSequence(flight), Execute
  PROVE  /\ DOMAIN flight' = DOMAIN flight /\ Len(flight') = Len(flight)
         /\ \A j \in DOMAIN flight : flight'[j].moves = flight[j].moves
         /\ UNCHANGED <<order, pend, probe, probeRequired, failures, cooldown>>
<1>1. PICK i \in DOMAIN flight : \E x :
        flight' = [flight EXCEPT ![i] = x] /\ x.moves = flight[i].moves
  BY ZenonT(30) DEF Execute
<1>2. PICK x : flight' = [flight EXCEPT ![i] = x] /\ x.moves = flight[i].moves
  BY <1>1
<1>3. DOMAIN flight' = DOMAIN flight /\ \A j \in DOMAIN flight : flight'[j].moves = flight[j].moves
  BY <1>2
<1>4. Len(flight') = Len(flight)
  <2>1. IsSequence(flight) /\ IsSequence(flight')
    BY <1>2, ExceptIsSequence
  <2>2. /\ DOMAIN flight = 1 .. Len(flight) /\ Len(flight) \in Nat
        /\ DOMAIN flight' = 1 .. Len(flight') /\ Len(flight') \in Nat
    BY <2>1, LenProperties DEF IsSequence
  <2> QED BY <1>3, <2>2
<1>5. UNCHANGED <<order, pend, probe, probeRequired, failures, cooldown>>
  BY DEF Execute, backoff, sessionVars
<1> QED BY <1>3, <1>4, <1>5

LEMMA ExecuteKeepsPlans ==
  ASSUME PlanInv, Execute
  PROVE  PlanInv'
<1>1. /\ DOMAIN flight' = DOMAIN flight
      /\ \A j \in DOMAIN flight : flight'[j].moves = flight[j].moves
      /\ UNCHANGED <<order, pend, probe>>
  BY ExecuteMoves DEF PlanInv, ProbeInv
<1>2. ProbeInv'
  BY ExecuteKeepsProbe DEF PlanInv
<1>3. PolicyTyped' /\ PendingInFlight' /\ MovesApart'
  BY <1>1 DEF PlanInv, PolicyTyped, PendingInFlight, MovesApart
<1> QED BY <1>2, <1>3 DEF PlanInv

\* The oldest step leaves and the others move up.
LEMMA UpdateMoves ==
  ASSUME IsSequence(flight), Update
  PROVE  /\ Head(flight) = flight[1] /\ 1 \in DOMAIN flight
         /\ DOMAIN flight = 1 .. Len(flight) /\ Len(flight) \in Nat \ {0}
         /\ Len(flight') = Len(flight) - 1
         /\ \A i \in DOMAIN flight' : i + 1 \in DOMAIN flight /\ flight'[i] = flight[i + 1]
         /\ \A i \in DOMAIN flight \ {1} : i - 1 \in DOMAIN flight' /\ flight'[i - 1] = flight[i]
<1>1. flight # <<>> /\ flight' = Tail(flight)
  BY DEF Update
<1>2. PICK S : flight \in Seq(S)
  BY DEF IsSequence
<1>3. /\ 1 \in DOMAIN flight /\ Head(flight) = flight[1]
      /\ DOMAIN flight = 1 .. Len(flight) /\ Len(flight) \in Nat \ {0}
      /\ DOMAIN flight' = 1 .. Len(flight) - 1 /\ Len(flight') = Len(flight) - 1
      /\ \A i \in DOMAIN flight' : i + 1 \in DOMAIN flight /\ flight'[i] = flight[i + 1]
  BY <1>1, <1>2
<1>4. ASSUME NEW i \in DOMAIN flight, i # 1
      PROVE  i - 1 \in DOMAIN flight' /\ flight'[i - 1] = flight[i]
  <2>1. i - 1 \in DOMAIN flight' /\ (i - 1) + 1 = i
    BY <1>3, <1>4
  <2> QED BY <1>3, <2>1
<1> QED BY <1>3, <1>4

LEMMA UpdateKeepsPlans ==
  ASSUME PlanInv, Update
  PROVE  PlanInv'
<1> DEFINE step == Head(flight)
           resumed == {s \in Range(step.moves) : wish[s] = "TURN"}
<1>1. IsSequence(flight) /\ PolicyTyped /\ PendingInFlight /\ MovesApart
  BY DEF PlanInv, ProbeInv
<1>2. /\ step = flight[1] /\ 1 \in DOMAIN flight
      /\ \A i \in DOMAIN flight' : i + 1 \in DOMAIN flight /\ flight'[i] = flight[i + 1]
      /\ \A i \in DOMAIN flight \ {1} : i - 1 \in DOMAIN flight' /\ flight'[i - 1] = flight[i]
      /\ DOMAIN flight = 1 .. Len(flight)
      /\ DOMAIN flight' \subseteq Nat \ {0}
  <2>1. DOMAIN flight' \subseteq Nat \ {0}
    <3>1. IsSequence(flight')
      BY <1>1, TailIsSequence DEF Update
    <3> QED BY <3>1, LenProperties DEF IsSequence
  <2> QED BY <1>1, <2>1, UpdateMoves
<1>3. /\ pend' = [s \in Session |-> IF s \in Range(step.moves) THEN NoId ELSE pend[s]]
      /\ order' = Only(order, Session \ resumed) \o Only(step.moves, resumed)
  BY DEF Update, Settle
<1>4. step.moves \in Seq(Session) /\ IsInjective(step.moves)
  BY <1>1, <1>2 DEF PolicyTyped
<1> HIDE DEF step, resumed
<1>5. order' \in Seq(Session) /\ IsInjective(order')
  <2>1. /\ Only(order, Session \ resumed) \in Seq(Session) /\ IsInjective(Only(order, Session \ resumed))
        /\ Range(Only(order, Session \ resumed)) \cap resumed = {}
    BY <1>1, OnlyProperties DEF PolicyTyped
  <2>2. /\ Only(step.moves, resumed) \in Seq(Session) /\ IsInjective(Only(step.moves, resumed))
        /\ Range(Only(step.moves, resumed)) \subseteq resumed
    BY <1>4, OnlyProperties
  <2>3. Range(Only(order, Session \ resumed)) \cap Range(Only(step.moves, resumed)) = {}
    BY <2>1, <2>2
  <2> QED BY <1>3, <2>1, <2>2, <2>3, ConcatInjective, ConcatProperties
<1>6. PolicyTyped'
  <2>1. pend' \in [Session -> Id \cup {NoId}]
    BY <1>1, <1>3 DEF PolicyTyped
  <2> QED BY <1>1, <1>2, <1>5, <2>1 DEF PolicyTyped
<1>7. MovesApart'
  <2> SUFFICES ASSUME NEW i \in DOMAIN flight', NEW j \in DOMAIN flight',
                      Range(flight'[i].moves) \cap Range(flight'[j].moves) # {}
               PROVE  i = j
    BY DEF MovesApart
  <2>1. i + 1 = j + 1
    BY <1>1, <1>2 DEF MovesApart
  <2> QED BY <1>2, <2>1
<1>8. PendingInFlight'
  <2> SUFFICES ASSUME NEW s \in Session
               PROVE  pend'[s] # NoId <=> \E i \in DOMAIN flight' : s \in Range(flight'[i].moves)
    BY DEF PendingInFlight
  <2>1. ASSUME pend'[s] # NoId
        PROVE  \E i \in DOMAIN flight' : s \in Range(flight'[i].moves)
    <3>1. s \notin Range(step.moves) /\ pend[s] # NoId
      BY <1>3, <2>1
    <3>2. PICK i \in DOMAIN flight : s \in Range(flight[i].moves)
      BY <1>1, <3>1 DEF PendingInFlight
    <3>3. i # 1
      BY <1>2, <3>1, <3>2
    <3> QED BY <1>2, <3>2, <3>3
  <2>2. ASSUME NEW i \in DOMAIN flight', s \in Range(flight'[i].moves)
        PROVE  pend'[s] # NoId
    <3>1. i + 1 \in DOMAIN flight /\ s \in Range(flight[i + 1].moves) /\ i + 1 # 1
      BY <1>2, <2>2
    <3>2. s \notin Range(step.moves)
      BY <1>1, <1>2, <3>1 DEF MovesApart
    <3>3. pend[s] # NoId
      BY <1>1, <3>1 DEF PendingInFlight
    <3> QED BY <1>3, <3>2, <3>3
  <2> QED BY <2>1, <2>2
<1>9. ProbeInv'
  BY UpdateKeepsProbe DEF PlanInv
<1> QED BY <1>6, <1>7, <1>8, <1>9 DEF PlanInv

\* A session that becomes active goes to the end of the order.
LEMMA LatestProperties ==
  ASSUME PolicyTyped, NEW s \in Session
  PROVE  Latest(s) \in Seq(Session) /\ IsInjective(Latest(s))
<1>1. /\ Only(order, Session \ {s}) \in Seq(Session) /\ IsInjective(Only(order, Session \ {s}))
      /\ s \notin Range(Only(order, Session \ {s}))
  BY OnlyProperties DEF PolicyTyped
<1> QED BY <1>1, AppendRange DEF Latest

\* At first the sessions are in any order.
LEMMA FirstOrder ==
  SetToSeq(Session) \in Seq(Session) /\ IsInjective(SetToSeq(Session))
<1> DEFINE N == Cardinality(Session)
<1>1. IsFiniteSet(Session) /\ N \in Nat /\ ExistsBijection(1 .. N, Session)
  BY IdAssumption, FS_CardinalityType
<1> HIDE DEF N
<1>2. ExistsInjection(1 .. N, Session)
  BY <1>1, Fun_ExistsBijEquiv
<1>3. PICK f \in Injection(1 .. N, Session) : TRUE
  BY <1>2, Fun_ExistsInj
<1>4. f \in [1 .. N -> Session] /\ \A i, j \in 1 .. N : f[i] = f[j] => i = j
  BY <1>3, Fun_InjectionProperties
<1>5. IsInjective(f)
  BY <1>4 DEF IsInjective
<1>6. SetToSeq(Session) \in [1 .. N -> Session] /\ IsInjective(SetToSeq(Session))
  BY <1>4, <1>5 DEF SetToSeq, N
<1> QED BY <1>1, <1>6

(* A transition is pending exactly as long as one step in flight moves its *)
(* session, whatever is refused, found stale, queued behind it or ended.   *)
THEOREM PolicyInvariant == Spec => []PlanInv
<1>1. Init => PlanInv
  <2> SUFFICES ASSUME Init
               PROVE  PlanInv
    OBVIOUS
  <2>1. flight = <<>> /\ probe = NoId /\ pend = [s \in Session |-> NoId] /\ order = SetToSeq(Session)
    BY DEF Init
  <2>2. IsSequence(flight)
    <3>1. flight \in Seq({})
      BY <2>1
    <3> QED BY <3>1 DEF IsSequence
  <2>3. ProbeInv
    BY <2>1, <2>2 DEF ProbeInv, AnswersComplete, ProbeNamesPending
  <2>4. PolicyTyped /\ PendingInFlight /\ MovesApart
    BY <2>1, FirstOrder DEF PolicyTyped, PendingInFlight, MovesApart
  <2> QED BY <2>3, <2>4 DEF PlanInv
<1>2. PlanInv /\ [Next]_vars => PlanInv'
  <2> SUFFICES ASSUME PlanInv, [Next]_vars
               PROVE  PlanInv'
    OBVIOUS
  <2>1. CASE Schedule
    BY <2>1, ScheduleKeepsPlans
  <2>2. CASE Execute
    BY <2>2, ExecuteKeepsPlans
  <2>3. CASE Update
    BY <2>3, UpdateKeepsPlans
  <2>4. ASSUME UNCHANGED <<pend, flight, probe>>, order' \in Seq(Session), IsInjective(order')
        PROVE  PlanInv'
    BY <2>4 DEF PlanInv, ProbeInv, AnswersComplete, ProbeNamesPending, IsSequence,
                PolicyTyped, PendingInFlight, MovesApart
  <2>5. order \in Seq(Session) /\ IsInjective(order)
    BY DEF PlanInv, PolicyTyped
  <2>6. ASSUME NEW s \in Session,
               Open(s) \/ Grow(s) \/ EndTurn(s) \/ NextTurn(s) \/ Finish(s)
        PROVE  PlanInv'
    <3>1. UNCHANGED <<pend, flight, probe>>
      BY <2>6 DEF Open, Grow, EndTurn, NextTurn, Finish, backoff
    <3>2. order' = order \/ order' = Latest(s)
      BY <2>6 DEF Open, Grow, EndTurn, NextTurn, Finish
    <3>3. order' \in Seq(Session) /\ IsInjective(order')
      BY <2>5, <3>2, LatestProperties DEF PlanInv
    <3> QED BY <2>4, <3>1, <3>3
  <2>7. CASE Others
    BY <2>4, <2>5, <2>7 DEF Others, backoff, sessionVars
  <2>8. CASE UNCHANGED vars
    BY <2>4, <2>5, <2>8 DEF vars, backoff, sessionVars
  <2> QED BY <2>1, <2>2, <2>3, <2>6, <2>7, <2>8 DEF Next
<1> QED BY <1>1, <1>2, PTL DEF Spec

(* Every step demotes only what the projected use still has above the      *)
(* lower watermark, what earlier steps are demoting being counted.         *)
THEOREM NoSecondReleaseHolds == Spec => NoSecondRelease
<1> DEFINE new == {s \in Session : pend[s] = NoId /\ pend'[s] # NoId}
           enough == new # {} => \E last \in new :
                       Used - Sum(Pending \cup (new \ {last}), full) > StopBlocks
<1>1. PlanInv /\ [Next]_vars => [enough]_vars
  <2> SUFFICES ASSUME PlanInv, Next PROVE enough
    OBVIOUS
  <2>1. CASE Schedule
    <3>1. \A s \in Session : IF s \in Range(Planned) THEN pend[s] = NoId /\ pend'[s] # NoId
                             ELSE pend'[s] = pend[s]
      BY <2>1, SchedulePlans
    <3>2. Range(Planned) \subseteq Session
      BY <2>1, SchedulePlans, RangeOfSeq
    <3>3. new = Range(Planned)
      BY <3>1, <3>2
    <3>4. new # {} => Planned # <<>>
      BY <3>3 DEF Range
    <3> HIDE DEF new
    <3>5. new # {} => \E last \in new : Projected(new \ {last}) > StopBlocks
      BY <3>3, <3>4, PlannedProperties DEF PlanInv
    <3> QED BY <3>5 DEF Projected
  <2>2. CASE Update
    <3>1. \A s \in Session : pend'[s] = NoId \/ pend'[s] = pend[s]
      BY <2>2 DEF Update, Settle
    <3> QED BY <3>1
  <2>3. CASE UNCHANGED pend
    BY <2>3
  <2>4. UNCHANGED pend \/ Schedule \/ Update
    BY DEF Next, Open, Grow, EndTurn, NextTurn, Finish, Others, Execute
  <2> QED BY <2>1, <2>2, <2>3, <2>4
<1> QED BY <1>1, PolicyInvariant, PTL DEF Spec, NoSecondRelease
-----------------------------------------------------------------------------
(* Two steps in flight are the most the engine core schedules ahead        *)
(* without pipeline parallelism.                                           *)

(* While a probe is owed, what was planned before the refusal is in the    *)
(* oldest step, and no plan is made before that step has been answered:    *)
(* the cooldown or the other step in flight is in the way.                 *)
OldMovesDrain ==
  probeRequired =>
    \A i \in DOMAIN flight : flight[i].moves # <<>> =>
      i = 1 /\ (cooldown > 0 \/ Len(flight) = 2)

(* The probe is the only move of all steps in flight.                      *)
ProbeOnlyMove ==
  probe # NoId =>
    \E i \in DOMAIN flight :
      /\ \E s \in Session : flight[i].moves = <<s>> /\ pend[s] = probe
      /\ \A j \in DOMAIN flight \ {i} : flight[j].moves = <<>>

AloneInv ==
  /\ PlanInv /\ OldMovesDrain /\ ProbeOnlyMove
  /\ Len(flight) <= Depth
  /\ failures \in Nat /\ cooldown \in Nat

\* A power of two is a number of subsets.
LEMMA PowersOfTwo ==
  ASSUME NEW k \in Nat PROVE 2 ^ k \in Nat \ {0}
<1> DEFINE S == 1 .. k
<1>1. IsFiniteSet(S) /\ Cardinality(S) = k
  BY FS_Interval
<1> HIDE DEF S
<1>2. IsFiniteSet(SUBSET S) /\ Cardinality(SUBSET S) = 2 ^ k
  BY <1>1, FS_SUBSET
<1>3. SUBSET S # {}
  OBVIOUS
<1>4. Cardinality(SUBSET S) \in Nat /\ Cardinality(SUBSET S) # 0
  BY <1>2, <1>3, FS_CardinalityType, FS_EmptySet
<1> QED BY <1>2, <1>4

\* A refusal is always followed by a cooldown.
LEMMA CooldownPositive ==
  ASSUME NEW n \in Nat \ {0} PROVE CooldownAfter(n) \in Nat \ {0}
<1>1. n - 1 \in Nat
  OBVIOUS
<1>2. 2 ^ (n - 1) \in Nat \ {0}
  BY <1>1, PowersOfTwo
<1> QED BY <1>2, BackoffAssumption DEF CooldownAfter

LEMMA ScheduleKeepsAlone ==
  ASSUME Depth <= 2, AloneInv, Schedule
  PROVE  AloneInv'
<1> DEFINE plan == Planned
           n == Len(flight) + 1
<1>1. /\ Len(flight) \in Nat /\ DOMAIN flight = 1 .. Len(flight)
      /\ DOMAIN flight' = 1 .. n /\ Len(flight') = n
      /\ \A i \in DOMAIN flight : flight'[i] = flight[i]
      /\ flight'[n].moves = plan
      /\ plan = <<>> => \A s \in Session : pend'[s] = pend[s]
  <2>1. plan = <<>> => Range(plan) = {}
    BY DEF Range
  <2> QED BY <2>1, SchedulePlans DEF AloneInv
<1>2. /\ n \in Nat /\ DOMAIN flight' = DOMAIN flight \cup {n} /\ n \notin DOMAIN flight
      /\ Len(flight) < Depth /\ Depth \in Nat
  BY <1>1, BackoffAssumption DEF Schedule
<1>3. /\ plan # <<>> => ~(cooldown > 0) /\ probe = NoId
      /\ \/ \E s \in Session : /\ probeRequired /\ plan = <<s>> /\ probe' = pend'[s]
                               /\ probeRequired' = FALSE
         \/ (plan = <<>> \/ ~probeRequired) /\ UNCHANGED <<probe, probeRequired>>
  <2>1. plan # <<>> => ~(cooldown > 0) /\ probe = NoId
    BY PlannedProperties DEF AloneInv, PlanInv
  <2>2. \/ /\ probeRequired
           /\ \E s \in Session : plan = <<s>> /\ probe' = pend'[s]
           /\ probeRequired' = FALSE
        \/ (plan = <<>> \/ ~probeRequired) /\ UNCHANGED <<probe, probeRequired>>
    BY DEF Schedule
  <2> HIDE DEF plan
  <2> QED BY <2>1, <2>2
<1>4. /\ cooldown' = IF cooldown > 0 THEN cooldown - 1 ELSE 0
      /\ UNCHANGED failures /\ cooldown \in Nat /\ failures \in Nat
  BY DEF Schedule, AloneInv
<1>5. PlanInv'
  BY ScheduleKeepsPlans DEF AloneInv
<1> HIDE DEF plan
<1>6. Len(flight') <= Depth /\ failures' \in Nat /\ cooldown' \in Nat
  BY <1>1, <1>2, <1>4
<1> HIDE DEF n
<1>7. OldMovesDrain'
  <2> SUFFICES ASSUME probeRequired', NEW i \in DOMAIN flight', flight'[i].moves # <<>>
               PROVE  i = 1 /\ (cooldown' > 0 \/ Len(flight') = 2)
    BY DEF OldMovesDrain
  <2>1. plan = <<>> /\ probeRequired
    <3>1. CASE \E s \in Session : /\ probeRequired /\ plan = <<s>> /\ probe' = pend'[s]
                                  /\ probeRequired' = FALSE
      BY <3>1
    <3>2. CASE (plan = <<>> \/ ~probeRequired) /\ UNCHANGED <<probe, probeRequired>>
      BY <3>2
    <3> QED BY <1>3, <3>1, <3>2
  <2>2. i \in DOMAIN flight /\ flight[i].moves # <<>>
    BY <1>1, <1>2, <2>1
  <2>3. i = 1 /\ (cooldown > 0 \/ Len(flight) = 2)
    BY <2>1, <2>2 DEF AloneInv, OldMovesDrain
  <2>4. Len(flight) = 1 /\ cooldown > 0
    BY <1>1, <1>2, <2>2, <2>3
  <2> QED BY <1>1, <2>3, <2>4 DEF n
<1>8. ProbeOnlyMove'
  <2> SUFFICES ASSUME probe' # NoId PROVE ProbeOnlyMove'
    BY DEF ProbeOnlyMove
  <2>1. ASSUME NEW s \in Session, probeRequired, plan = <<s>>, probe' = pend'[s]
        PROVE  ProbeOnlyMove'
    <3>1. \A j \in DOMAIN flight : flight[j].moves = <<>>
      <4>1. ~(cooldown > 0) /\ Len(flight) # 2
        BY <1>1, <1>2, <1>3, <2>1
      <4> QED BY <2>1, <4>1 DEF AloneInv, OldMovesDrain
    <3>2. \A j \in DOMAIN flight' \ {n} : flight'[j].moves = <<>>
      BY <1>1, <1>2, <3>1
    <3>3. n \in DOMAIN flight'
      BY <1>2
    <3> QED BY <1>1, <2>1, <3>2, <3>3 DEF ProbeOnlyMove
  <2>2. CASE UNCHANGED probe
    <3>1. plan = <<>>
      BY <1>3, <2>2
    <3>2. \A s \in Session : pend'[s] = pend[s]
      BY <1>1, <3>1
    <3>3. PICK i \in DOMAIN flight :
            /\ \E s \in Session : flight[i].moves = <<s>> /\ pend[s] = probe
            /\ \A j \in DOMAIN flight \ {i} : flight[j].moves = <<>>
      BY <2>2 DEF AloneInv, ProbeOnlyMove
    <3>4. i \in DOMAIN flight' /\ flight'[i] = flight[i]
      BY <1>1, <1>2
    <3>5. \A j \in DOMAIN flight' \ {i} : flight'[j].moves = <<>>
      BY <1>1, <1>2, <3>1, <3>3
    <3> QED BY <2>2, <3>2, <3>3, <3>4, <3>5 DEF ProbeOnlyMove
  <2> QED BY <1>3, <2>1, <2>2
<1> QED BY <1>5, <1>6, <1>7, <1>8 DEF AloneInv

LEMMA ExecuteKeepsAlone ==
  ASSUME AloneInv, Execute
  PROVE  AloneInv'
<1>1. /\ DOMAIN flight' = DOMAIN flight /\ Len(flight') = Len(flight)
      /\ \A j \in DOMAIN flight : flight'[j].moves = flight[j].moves
      /\ UNCHANGED <<pend, probe, probeRequired, failures, cooldown>>
  BY ExecuteMoves DEF AloneInv, PlanInv, ProbeInv
<1>2. PlanInv'
  BY ExecuteKeepsPlans DEF AloneInv
<1>3. OldMovesDrain' /\ ProbeOnlyMove'
  BY <1>1 DEF AloneInv, OldMovesDrain, ProbeOnlyMove
<1> QED BY <1>1, <1>2, <1>3 DEF AloneInv

LEMMA UpdateKeepsAlone ==
  ASSUME Depth <= 2, AloneInv, Update
  PROVE  AloneInv'
<1> DEFINE step == Head(flight)
           failed == IF failures < MaxFailures THEN failures + 1 ELSE failures
<1>1. /\ step = flight[1] /\ 1 \in DOMAIN flight
      /\ DOMAIN flight = 1 .. Len(flight) /\ Len(flight) \in Nat \ {0}
      /\ Len(flight') = Len(flight) - 1
      /\ \A i \in DOMAIN flight' : i + 1 \in DOMAIN flight /\ flight'[i] = flight[i + 1]
      /\ \A i \in DOMAIN flight \ {1} : i - 1 \in DOMAIN flight' /\ flight'[i - 1] = flight[i]
  BY UpdateMoves DEF AloneInv, PlanInv, ProbeInv
<1>2. /\ step.run /\ Backoff(step)
      /\ \A s \in Session : pend'[s] = IF s \in Range(step.moves) THEN NoId ELSE pend[s]
  BY DEF Update, Settle
<1>3. PlanInv'
  BY UpdateKeepsPlans DEF AloneInv
<1>4. \A m \in DOMAIN step.moves : step.answers[m] \in Answer
  BY <1>1, <1>2 DEF AloneInv, PlanInv, ProbeInv, AnswersComplete
<1>5. /\ Len(flight) <= Depth /\ Depth \in Nat /\ failed \in Nat \ {0}
      /\ failures \in Nat /\ cooldown \in Nat
  BY BackoffAssumption DEF AloneInv
<1>6. CooldownAfter(failed) \in Nat \ {0}
  <2> HIDE DEF failed
  <2> QED BY <1>5, CooldownPositive
<1>7. /\ Answered(step, "CAPACITY") # {} => cooldown' = CooldownAfter(failed)
      /\ \/ failures' = failed /\ cooldown' = CooldownAfter(failed)
         \/ failures' = 0 /\ cooldown' = 0
         \/ UNCHANGED <<failures, cooldown>>
  BY <1>2 DEF Backoff, backoff
<1>8. \A i \in DOMAIN flight' : i \in Nat /\ i + 1 # 1
  BY <1>1
<1> HIDE DEF step, failed
<1>9. Len(flight') <= Depth /\ failures' \in Nat /\ cooldown' \in Nat
  BY <1>1, <1>5, <1>6, <1>7
<1>10. OldMovesDrain'
  <2> SUFFICES ASSUME probeRequired', NEW i \in DOMAIN flight', flight'[i].moves # <<>>
               PROVE  i = 1 /\ (cooldown' > 0 \/ Len(flight') = 2)
    BY DEF OldMovesDrain
  <2>1. i + 1 \in DOMAIN flight /\ flight[i + 1].moves # <<>> /\ i + 1 # 1 /\ i = 1
    <3>1. i + 1 \in DOMAIN flight /\ flight'[i] = flight[i + 1] /\ i \in Nat /\ i + 1 # 1
      BY <1>1, <1>8
    <3>2. i + 1 <= Len(flight) /\ Len(flight) \in Nat
      BY <1>1, <3>1
    <3>3. i = 1
      BY <1>5, <3>1, <3>2
    <3> QED BY <3>1, <3>3
  <2>2. CASE Answered(step, "CAPACITY") # {}
    BY <1>6, <1>7, <2>1, <2>2
  <2>3. CASE Answered(step, "CAPACITY") = {} /\ probeRequired
    BY <2>1, <2>3 DEF AloneInv, OldMovesDrain
  <2>4. CASE Answered(step, "CAPACITY") = {} /\ ~probeRequired
    <3>1. PICK s \in Answered(step, "STALE") : pend[s] = probe
      BY <1>2, <2>4 DEF Backoff, backoff
    <3>2. PICK m \in DOMAIN step.moves : s = step.moves[m]
      BY <3>1 DEF Answered
    <3>3. step.moves # <<>> /\ s \in Range(step.moves)
      BY <3>2 DEF Range
    <3>4. s \in Session
      BY <1>1, <3>3, RangeOfSeq DEF AloneInv, PlanInv, PolicyTyped
    <3>5. probe # NoId
      BY <1>1, <3>1, <3>3, <3>4 DEF AloneInv, PlanInv, PendingInFlight
    <3> QED BY <1>1, <2>1, <3>3, <3>5 DEF AloneInv, ProbeOnlyMove
  <2> QED BY <2>2, <2>3, <2>4
<1>11. ProbeOnlyMove'
  <2> SUFFICES ASSUME probe' # NoId PROVE ProbeOnlyMove'
    BY DEF ProbeOnlyMove
  <2>1. /\ UNCHANGED probe
        /\ ~ \E s \in Answered(step, "SUCCESS") : pend[s] = probe
        /\ ~ \E s \in Answered(step, "STALE") : pend[s] = probe
        /\ Answered(step, "CAPACITY") = {}
    BY <1>2 DEF Backoff, backoff
  <2>2. PICK i \in DOMAIN flight :
          /\ \E s \in Session : flight[i].moves = <<s>> /\ pend[s] = probe
          /\ \A j \in DOMAIN flight \ {i} : flight[j].moves = <<>>
    BY <2>1 DEF AloneInv, ProbeOnlyMove
  <2>3. PICK s \in Session : flight[i].moves = <<s>> /\ pend[s] = probe
    BY <2>2
  <2>4. i # 1
    <3> SUFFICES ASSUME i = 1 PROVE FALSE
      OBVIOUS
    <3>1. step.moves = <<s>>
      BY <1>1, <2>3
    <3>2. 1 \in DOMAIN step.moves /\ step.moves[1] = s
      BY <3>1
    <3>3. step.answers[1] \in Answer /\ s \in Answered(step, step.answers[1])
      BY <1>4, <3>2 DEF Answered
    <3> QED BY <2>1, <2>3, <3>3 DEF Answer
  <2>5. step.moves = <<>>
    BY <1>1, <2>2, <2>4
  <2>6. pend'[s] = pend[s]
    <3>1. Range(step.moves) = {}
      BY <2>5 DEF Range
    <3> QED BY <1>2, <3>1
  <2>7. i - 1 \in DOMAIN flight' /\ flight'[i - 1] = flight[i]
    BY <1>1, <2>4
  <2>8. \A j \in DOMAIN flight' \ {i - 1} : flight'[j].moves = <<>>
    <3> SUFFICES ASSUME NEW j \in DOMAIN flight', j # i - 1 PROVE flight'[j].moves = <<>>
      OBVIOUS
    <3>1. j + 1 \in DOMAIN flight /\ flight'[j] = flight[j + 1] /\ j + 1 # i
      BY <1>1, <1>8
    <3> QED BY <2>2, <3>1
  <2> QED BY <2>1, <2>3, <2>6, <2>7, <2>8 DEF ProbeOnlyMove
<1> QED BY <1>3, <1>9, <1>10, <1>11 DEF AloneInv

(* With at most two steps in flight, no transition is pending beside the   *)
(* probe the policy waits for: no late answer can be taken for the probe's.*)
THEOREM ProbeIsAlone == ASSUME Depth <= 2 PROVE Spec => []ProbeAlone
<1>1. Init /\ PlanInv => AloneInv
  <2> SUFFICES ASSUME Init, PlanInv
               PROVE  AloneInv
    OBVIOUS
  <2>1. /\ flight = <<>> /\ probe = NoId /\ ~probeRequired /\ failures = 0 /\ cooldown = 0
    BY DEF Init
  <2>2. Len(flight) <= Depth
    BY <2>1, BackoffAssumption
  <2> QED BY <2>1, <2>2 DEF AloneInv, OldMovesDrain, ProbeOnlyMove
<1>2. AloneInv /\ PlanInv' /\ [Next]_vars => AloneInv'
  <2> SUFFICES ASSUME AloneInv, PlanInv', [Next]_vars
               PROVE  AloneInv'
    OBVIOUS
  <2>1. CASE Schedule
    BY <2>1, ScheduleKeepsAlone
  <2>2. CASE Execute
    BY <2>2, ExecuteKeepsAlone
  <2>3. CASE Update
    BY <2>3, UpdateKeepsAlone
  <2>4. CASE UNCHANGED <<pend, flight, probe, probeRequired, failures, cooldown>>
    BY <2>4 DEF AloneInv, OldMovesDrain, ProbeOnlyMove
  <2>5. ASSUME NEW s \in Session,
               Open(s) \/ Grow(s) \/ EndTurn(s) \/ NextTurn(s) \/ Finish(s)
        PROVE  UNCHANGED <<pend, flight, probe, probeRequired, failures, cooldown>>
    BY <2>5 DEF Open, Grow, EndTurn, NextTurn, Finish, backoff
  <2>6. Others => UNCHANGED <<pend, flight, probe, probeRequired, failures, cooldown>>
    BY DEF Others, backoff
  <2>7. UNCHANGED vars => UNCHANGED <<pend, flight, probe, probeRequired, failures, cooldown>>
    BY DEF vars, backoff
  <2> QED
    BY <2>1, <2>2, <2>3, <2>4, <2>5, <2>6, <2>7 DEF Next
<1>3. AloneInv => ProbeAlone
  <2> SUFFICES ASSUME AloneInv, probe # NoId
               PROVE  Cardinality(Pending) = 1
    BY DEF ProbeAlone
  <2>1. PICK i \in DOMAIN flight :
          /\ \E s \in Session : flight[i].moves = <<s>> /\ pend[s] = probe
          /\ \A j \in DOMAIN flight \ {i} : flight[j].moves = <<>>
    BY DEF AloneInv, ProbeOnlyMove
  <2>2. PICK s \in Session : flight[i].moves = <<s>> /\ pend[s] = probe
    BY <2>1
  <2>3. Range(flight[i].moves) = {s} /\ \A j \in DOMAIN flight \ {i} : Range(flight[j].moves) = {}
    BY <2>1, <2>2 DEF Range
  <2>4. Pending = {s}
    BY <2>2, <2>3, ZenonT(30) DEF AloneInv, PlanInv, PendingInFlight, Pending
  <2> QED BY <2>4, FS_Singleton
<1> QED
  BY <1>1, <1>2, <1>3, PolicyInvariant, PTL DEF Spec
=============================================================================
