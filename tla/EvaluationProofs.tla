-------------------------- MODULE EvaluationProofs --------------------------
(* The reports about a pair of runs fit together, for any runs; the        *)
(* examples of an evaluation are different ones, its data types compared   *)
(* on the same prompts, its scores fractions of one and no answer counted  *)
(* twice.                                                                  *)
EXTENDS ResumeQualityStudy, EvaluationReport, WellFoundedInduction,
        FiniteSetTheorems, TLAPS

\* A result as the driver scores it: no answer is never exact.
WellScored(s) ==
  /\ s.exact \in BOOLEAN /\ s.parseFailure \in BOOLEAN
  /\ s.parseFailure <=> s.answer = NoAnswer
  /\ s.exact <=> s.answer # NoAnswer /\ s.answer = s.gold

\* Both sessions finished their two turns.
Completed(s) == s.error = "none" /\ s.turns = 2

-----------------------------------------------------------------------------
(* A mixed session that counts had all its complete blocks in WARM before  *)
(* it resumed, and read some of them while it answered: a counter that was *)
(* lost, or did not move, excludes it.                                     *)
THEOREM EligibleReadWarm ==
  ASSUME NEW s, s.complete \in Int, s.before \in Nat, s.after \subseteq Nat,
         SessionQuality(TRUE, s).exclusion = "none"
  PROVE  /\ s.complete > 0
         /\ 0 .. s.complete - 1 \subseteq WarmIndices(s.residency, s.id)
         /\ \E n \in s.after : n > s.before
<1> DEFINE confirmed == TRUE /\ CompleteBlocksAreWarm(s.complete, s.residency,
                                                      s.id, s.numBlocks)
           hadWarm == HadWarmSlots(s.before, s.after)
<1>1. ExclusionReason(s.complete, confirmed, hadWarm) = "none"
  BY DEF SessionQuality
<1>2. s.complete > 0 /\ confirmed /\ hadWarm
  <2> HIDE DEF confirmed, hadWarm
  <2>1. s.complete > 0
    BY <1>1 DEF ExclusionReason
  <2>2. confirmed
    BY <1>1, <2>1 DEF ExclusionReason
  <2>3. hadWarm
    BY <1>1, <2>1, <2>2 DEF ExclusionReason
  <2> QED
    BY <2>1, <2>2, <2>3
<1>3. s.after # {}
  BY <1>2 DEF HadWarmSlots
<1>4. \E n \in s.after : n > s.before
  <2>1. (CHOOSE n \in s.after : TRUE) \in s.after
    BY <1>3
  <2>2. (CHOOSE n \in s.after : TRUE) > s.before
    BY <1>2, <1>3 DEF HadWarmSlots
  <2> QED
    BY <2>1, <2>2
<1> QED
  BY <1>2, <1>4 DEF CompleteBlocksAreWarm
-----------------------------------------------------------------------------
\* A set and what a condition leaves of it, counted.
LEMMA SplitCount ==
  ASSUME NEW S, IsFiniteSet(S), NEW A, NEW B, A \cup B = S, A \cap B = {}
  PROVE  /\ IsFiniteSet(A) /\ IsFiniteSet(B)
         /\ Cardinality(A) \in Nat /\ Cardinality(B) \in Nat
         /\ Cardinality(S) = Cardinality(A) + Cardinality(B)
<1>1. IsFiniteSet(A) /\ IsFiniteSet(B)
  BY FS_Subset
<1>2. Cardinality(A) \in Nat /\ Cardinality(B) \in Nat
  BY <1>1, FS_CardinalityType
<1>3. Cardinality(A \cup B) = Cardinality(A) + Cardinality(B) - Cardinality(A \cap B)
  BY <1>1, FS_Union
<1>4. Cardinality(A \cap B) = 0
  BY FS_EmptySet
<1> QED
  BY <1>1, <1>2, <1>3, <1>4

-----------------------------------------------------------------------------
(* The notebooks' categories and the driver's counts of the same completed *)
(* sessions differ only in the sessions without an answer: the driver (and *)
(* the notebook of 20) takes two missing answers for the same answer, and  *)
(* counts a missing one as a wrong one.                                    *)
THEOREM ReportsAgree ==
  ASSUME NEW hot, NEW mix, NEW i \in Paired(hot, mix),
         WellScored(hot[i]), WellScored(mix[i]),
         Completed(hot[i]), Completed(mix[i]), hot[i].gold = mix[i].gold
  PROVE  LET l == hot[i]
             r == mix[i]
             category == PairedCorrectness(l, r)
         IN /\ i \in BothCorrect(hot, mix) <=> category = "both_correct"
            /\ i \in OnlyAllHot(hot, mix) <=>
                 \/ category = "only_all_hot_correct"
                 \/ category = "mixed_extraction_failure" /\ l.exact
            /\ i \in OnlyMixed(hot, mix) <=>
                 \/ category = "only_mixed_correct"
                 \/ category = "all_hot_extraction_failure" /\ r.exact
            /\ i \in Identical(hot, mix) <=>
                 AnswersIdentical(l, r) \/ category = "both_extraction_failure"
            /\ i \in Identical(hot, mix) <=>
                 PairClass(l, r) = "identical_extracted_answer"
            /\ i \in OnlyMixed(hot, mix) <=>
                 PairClass(l, r) = "divergent_only_mixed_correct"
<1> DEFINE l == hot[i]
           r == mix[i]
           category == PairedCorrectness(l, r)
<1>1. QuestionStatus(l) = "completed" /\ QuestionStatus(r) = "completed"
  BY DEF Completed, QuestionStatus
<1>2. /\ IsExtractionFailure(l) <=> l.answer = NoAnswer
      /\ IsExtractionFailure(r) <=> r.answer = NoAnswer
      /\ IsExtractionFailure(l) \in BOOLEAN /\ IsExtractionFailure(r) \in BOOLEAN
  BY DEF WellScored, IsExtractionFailure
<1>3. category =
        IF IsExtractionFailure(l)
        THEN IF IsExtractionFailure(r) THEN "both_extraction_failure"
                                       ELSE "all_hot_extraction_failure"
        ELSE IF IsExtractionFailure(r) THEN "mixed_extraction_failure"
        ELSE Correctness(l, r)
  BY <1>1 DEF PairedCorrectness
<1>4. /\ l.exact <=> l.answer # NoAnswer /\ l.answer = l.gold
      /\ r.exact <=> r.answer # NoAnswer /\ r.answer = l.gold
      /\ l.exact \in BOOLEAN /\ r.exact \in BOOLEAN
  BY DEF WellScored
<1>5. /\ i \in BothCorrect(hot, mix) <=> l.exact /\ r.exact
      /\ i \in OnlyAllHot(hot, mix) <=> l.exact /\ ~r.exact
      /\ i \in OnlyMixed(hot, mix) <=> r.exact /\ ~l.exact
      /\ i \in Identical(hot, mix) <=> l.answer = r.answer
  BY DEF BothCorrect, OnlyAllHot, OnlyMixed, Identical
<1> HIDE DEF l, r, category
<1>6. i \in BothCorrect(hot, mix) <=> category = "both_correct"
  BY <1>2, <1>3, <1>4, <1>5 DEF Correctness
<1>7. i \in OnlyAllHot(hot, mix) <=>
        \/ category = "only_all_hot_correct"
        \/ category = "mixed_extraction_failure" /\ l.exact
  BY <1>2, <1>3, <1>4, <1>5 DEF Correctness
<1>8. i \in OnlyMixed(hot, mix) <=>
        \/ category = "only_mixed_correct"
        \/ category = "all_hot_extraction_failure" /\ r.exact
  BY <1>2, <1>3, <1>4, <1>5 DEF Correctness
<1>9. i \in Identical(hot, mix) <=>
        AnswersIdentical(l, r) \/ category = "both_extraction_failure"
  BY <1>2, <1>3, <1>5 DEF AnswersIdentical, Correctness
<1>10. /\ i \in Identical(hot, mix) <=>
            PairClass(l, r) = "identical_extracted_answer"
       /\ i \in OnlyMixed(hot, mix) <=>
            PairClass(l, r) = "divergent_only_mixed_correct"
  BY <1>4, <1>5 DEF PairClass
<1> QED
  BY <1>6, <1>7, <1>8, <1>9, <1>10 DEF l, r, category
-----------------------------------------------------------------------------
LEMMA QuotientUnique ==
  ASSUME NEW p \in Nat \ {0}, NEW a \in Int, NEW b \in Int,
         NEW r \in 0 .. p - 1, NEW s \in 0 .. p - 1, a * p + r = b * p + s
  PROVE  a = b /\ r = s
<1>1. ASSUME NEW m \in Int, NEW n \in Int, m < n
      PROVE  m * p + p <= n * p
  <2>1. (m + 1) * p <= n * p
    BY <1>1
  <2> QED
    BY <2>1
<1>2. ~(a < b)
  BY <1>1
<1>3. ~(b < a)
  BY <1>1
<1> QED
  BY <1>2, <1>3

(* A data set that passes the notebook's check of its batches has every    *)
(* question exactly once in each mode, at the same place of the same batch *)
(* and with the same gold answer: pairing by question index loses none and *)
(* overwrites none, whatever directories were found.                       *)
THEOREM EveryQuestionPairedOnce ==
  ASSUME NEW batches \in Nat, NEW perBatch \in Nat \ {0}, NEW found,
         DatasetComplete(found, batches, perBatch),
         NEW q \in 0 .. batches * perBatch - 1
  PROVE  \E d \in found, k \in 1 .. perBatch :
           /\ \A mode \in Mode : IsAt(d, k, mode, q)
           /\ d.files["all-hot"].sessions[k].gold = d.files["mixed"].sessions[k].gold
           /\ \A e \in found, j \in Int, mode \in Mode :
                IsAt(e, j, mode, q) => e = d /\ j = k
<1> DEFINE b == q \div perBatch
           r == q % perBatch
<1>1. /\ b \in Int /\ r \in 0 .. perBatch - 1 /\ q = b * perBatch + r
  OBVIOUS
<1> HIDE DEF b, r
<1>2. b + 1 \in 1 .. batches
  <2>1. b >= 0
    <3>1. SUFFICES ASSUME b <= -1 PROVE FALSE
      BY <1>1
    <3>2. b * perBatch <= -1 * perBatch
      BY <1>1, <3>1
    <3> QED
      BY <1>1, <3>2
  <2>2. b < batches
    <3>1. SUFFICES ASSUME b >= batches PROVE FALSE
      BY <1>1
    <3>2. b * perBatch >= batches * perBatch
      BY <1>1, <3>1
    <3> QED
      BY <1>1, <3>2
  <2> QED
    BY <1>1, <2>1, <2>2
<1>3. \A e \in found : \E n \in 1 .. batches :
        e.number = n /\ e.start = (n - 1) * perBatch
  <2>1. SUFFICES ASSUME NEW e \in found
                 PROVE  \E n \in 1 .. batches :
                          e.number = n /\ e.start = (n - 1) * perBatch
    OBVIOUS
  <2>2. <<e.number, e.start>> \in {<<n, (n - 1) * perBatch>> : n \in 1 .. batches}
    BY DEF DatasetComplete, BatchesExpected
  <2> QED
    BY <2>2
<1>4. PICK d \in found : d.number = b + 1 /\ d.start = b * perBatch
  <2> DEFINE keys == {<<d.number, d.start>> : d \in found}
             expected == {<<n, (n - 1) * perBatch>> : n \in 1 .. batches}
  <2>1. PICK n \in 1 .. batches : n = b + 1
    BY <1>2
  <2>2. <<n, (n - 1) * perBatch>> \in expected
    OBVIOUS
  <2>3. keys = expected
    BY DEF DatasetComplete, BatchesExpected
  <2>4. <<n, (n - 1) * perBatch>> \in keys
    BY <2>2, <2>3
  <2>5. n - 1 = b
    BY <1>1, <2>1
  <2> QED
    BY <2>1, <2>4, <2>5
<1>5. \A e \in found, mode \in Mode :
        /\ DOMAIN e.files[mode].sessions = 1 .. perBatch
        /\ \A k \in 1 .. perBatch : e.files[mode].sessions[k].index = e.start + k - 1
  BY DEF DatasetComplete, FileSound
<1>6. \A mode \in Mode : IsAt(d, r + 1, mode, q)
  BY <1>1, <1>4, <1>5 DEF IsAt
<1>7. d.files["all-hot"].sessions[r + 1].gold = d.files["mixed"].sessions[r + 1].gold
  BY <1>1 DEF DatasetComplete, SameQuestions
<1>8. ASSUME NEW e \in found, NEW j \in Int, NEW mode \in Mode, IsAt(e, j, mode, q)
      PROVE  e = d /\ j = r + 1
  <2>1. PICK n \in 1 .. batches : e.number = n /\ e.start = (n - 1) * perBatch
    BY <1>3
  <2>2. j \in 1 .. perBatch /\ q = e.start + j - 1
    BY <1>5, <1>8 DEF IsAt
  <2>3. (n - 1) * perBatch + (j - 1) = b * perBatch + r
    BY <1>1, <2>1, <2>2
  <2>4. n - 1 = b /\ j - 1 = r
    BY <1>1, <2>2, <2>3, QuotientUnique
  <2>5. e.number = d.number
    BY <1>4, <2>1, <2>4
  <2> QED
    BY <1>1, <2>4, <2>5 DEF DatasetComplete, BatchesExpected
<1>9. r + 1 \in 1 .. perBatch
  BY <1>1
<1> QED
  BY <1>6, <1>7, <1>8, <1>9
-----------------------------------------------------------------------------
(* Of a complete data set the tables pair what belongs together: the rows  *)
(* of a question are of that question, with one id, one gold answer and    *)
(* one batch, so what the notebook asserts of its pairs cannot fail.       *)
THEOREM PairingAssertionsHold ==
  ASSUME NEW batches \in Nat, NEW perBatch \in Nat \ {0}, NEW found,
         DatasetComplete(found, batches, perBatch)
  PROVE  LET run(mode) == Run(found, batches, perBatch, mode) IN
         /\ PairsMatch(run("all-hot"), run("mixed"))
         /\ \A mode \in Mode : \A q \in DOMAIN run(mode) : run(mode)[q].index = q
<1> DEFINE run(mode) == Run(found, batches, perBatch, mode)
           hot == run("all-hot")
           mix == run("mixed")
<1>1. \A mode : DOMAIN run(mode) = 0 .. batches * perBatch - 1
  BY DEF Run
<1>2. ASSUME NEW q \in 0 .. batches * perBatch - 1
      PROVE  /\ hot[q].id = mix[q].id /\ hot[q].gold = mix[q].gold
             /\ hot[q].batch = mix[q].batch
             /\ \A mode \in Mode : run(mode)[q].index = q
  <2>1. PICK d \in found, k \in 1 .. perBatch :
          /\ \A mode \in Mode : IsAt(d, k, mode, q)
          /\ \A e \in found, j \in Int, mode \in Mode :
               IsAt(e, j, mode, q) => e = d /\ j = k
    BY EveryQuestionPairedOnce
  <2>2. ASSUME NEW mode \in Mode
        PROVE  run(mode)[q] = SessionRecord(d.files[mode].sessions[k], d)
    <3> DEFINE place == CHOOSE p \in found \X (1 .. perBatch) :
                          IsAt(p[1], p[2], mode, q)
    <3>1. /\ <<d, k>> \in found \X (1 .. perBatch)
          /\ IsAt(<<d, k>>[1], <<d, k>>[2], mode, q)
      BY <2>1
    <3>2. place \in found \X (1 .. perBatch) /\ IsAt(place[1], place[2], mode, q)
      BY <3>1
    <3>3. place[1] = d /\ place[2] = k
      BY <3>2, <2>1
    <3>4. run(mode)[q] = Row(found, perBatch, mode, q)
      BY DEF Run
    <3> QED
      BY <3>3, <3>4 DEF Row
  <2>3. SameQuestions(d, perBatch)
    BY DEF DatasetComplete
  <2>4. "all-hot" \in Mode /\ "mixed" \in Mode
    BY DEF Mode
  <2> DEFINE l == d.files["all-hot"].sessions[k]
             r == d.files["mixed"].sessions[k]
  <2>5. hot[q] = SessionRecord(l, d) /\ mix[q] = SessionRecord(r, d)
    BY <2>2, <2>4
  <2>6. l.id = r.id /\ l.gold = r.gold
    BY <2>3 DEF SameQuestions
  <2>7. ASSUME NEW mode \in Mode PROVE run(mode)[q].index = q
    <3> DEFINE here == d.files[mode].sessions[k]
    <3>1. here.index = q
      BY <2>1, <2>7 DEF IsAt
    <3>2. run(mode)[q] = SessionRecord(here, d)
      BY <2>2, <2>7
    <3> HIDE DEF run, here
    <3>3. SessionRecord(here, d).index = here.index
      BY DEF SessionRecord
    <3> QED
      BY <3>1, <3>2, <3>3
  <2> HIDE DEF run, hot, mix, l, r
  <2> QED
    BY <2>5, <2>6, <2>7 DEF SessionRecord
<1> HIDE DEF run
<1> QED
  BY <1>1, <1>2 DEF PairsMatch, run

(* What the notebook counts of a mixed session says where its history was: *)
(* as many entries as complete blocks, all of which were resident, are the *)
(* complete blocks themselves, once each and in the one KV group - nothing *)
(* of the tail was in WARM - and every one had a shadow HOT block, and a   *)
(* HOT block that is not the null block still stood in its place of the    *)
(* worker's block table.                                                   *)
THEOREM ResidencyIsTheHistory ==
  ASSUME NEW s, NEW d, s.complete \in Nat, IsFiniteSet(s.residency),
         \A e \in s.residency : e.request = s.id,
         CompleteBlocksAreWarm(s.complete, s.residency, s.id, Len(s.blockIds)),
         Len(s.blockIds) \in Nat,
         MixedSessionAccepted(SessionRecord(s, d))
  PROVE  /\ {e.index : e \in s.residency} = 0 .. s.complete - 1
         /\ \A e \in s.residency : e.group = 0 /\ e.shadow # {}
         /\ \A i \in 0 .. s.complete - 1 : s.blockIds[i + 1] # 0
<1> DEFINE history == 0 .. s.complete - 1
           entries == {e \in s.residency : e.request = s.id /\ e.group = 0
                                           /\ e.index \in history}
           place == [e \in entries |-> e.index]
           shadows == {e \in s.residency : e.shadow # {}}
           zero == {e \in s.residency : /\ e.index < Len(s.blockIds)
                                        /\ s.blockIds[e.index + 1] = 0}
<1>1. /\ Cardinality(s.residency) = s.complete
      /\ Cardinality(zero) = 0
      /\ Cardinality(shadows) = Cardinality(s.residency)
  BY DEF MixedSessionAccepted, SessionRecord, ResidencyCounts
<1>2. /\ history \subseteq WarmIndices(s.residency, s.id)
      /\ Len(s.blockIds) >= s.complete
  BY DEF CompleteBlocksAreWarm
<1>3. place \in Surjection(entries, history)
  <2>1. \A i \in history : \E e \in entries : place[e] = i
    BY <1>2 DEF WarmIndices
  <2>2. place \in [entries -> history]
    OBVIOUS
  <2> QED
    BY <2>1, <2>2 DEF Surjection
<1>4. IsFiniteSet(entries) /\ Cardinality(entries) <= Cardinality(s.residency)
  BY FS_Subset
<1>5. Cardinality(history) <= Cardinality(entries)
  <2> HIDE DEF entries, history, place
  <2> QED
    BY <1>3, <1>4, FS_Surjection
<1>6. Cardinality(history) = s.complete
  <2>1. 0 \in Int /\ s.complete - 1 \in Int
    OBVIOUS
  <2>2. Cardinality(history) = IF 0 > s.complete - 1 THEN 0
                               ELSE (s.complete - 1) - 0 + 1
    BY <2>1, FS_Interval
  <2> QED
    BY <2>2
<1>7. Cardinality(entries) = Cardinality(s.residency)
  <2>1. Cardinality(entries) \in Nat
    BY <1>4, FS_CardinalityType
  <2> HIDE DEF entries, history
  <2> QED
    BY <2>1, <1>1, <1>4, <1>5, <1>6
<1>8. entries = s.residency
  <2>1. entries \subseteq s.residency
    OBVIOUS
  <2> HIDE DEF entries
  <2> QED
    BY <2>1, <1>7, FS_Subset
<1>9. shadows = s.residency
  <2>1. shadows \subseteq s.residency
    OBVIOUS
  <2> HIDE DEF shadows
  <2> QED
    BY <2>1, <1>1, FS_Subset
<1>10. zero = {}
  <2>1. IsFiniteSet(zero)
    BY FS_Subset
  <2> HIDE DEF zero
  <2> QED
    BY <2>1, <1>1, FS_EmptySet
<1>11. \A i \in history : \E e \in s.residency : e.index = i
  BY <1>2 DEF WarmIndices
<1>12. ASSUME NEW i \in history PROVE s.blockIds[i + 1] # 0
  <2>1. PICK e \in s.residency : e.index = i
    BY <1>11
  <2>2. e.index < Len(s.blockIds)
    BY <2>1, <1>2
  <2> QED
    BY <2>1, <2>2, <1>10
<1>13. {e.index : e \in s.residency} = history
  <2>1. \A e \in s.residency : e.index \in history
    BY <1>8
  <2> HIDE DEF history
  <2> QED
    BY <2>1, <1>11
<1> QED
  BY <1>8, <1>9, <1>12, <1>13
-----------------------------------------------------------------------------
(* Two completed sessions with the same question, in the words of the      *)
(* notebook.                                                               *)
Comparable(l, r) ==
  /\ WellScored(l) /\ WellScored(r) /\ Completed(l) /\ Completed(r)
  /\ l.gold = r.gold /\ (l.tokens = r.tokens => l.answer = r.answer)

LEMMA CategoryTold ==
  ASSUME NEW l, NEW r, Comparable(l, r)
  PROVE  LET c == PairedCorrectness(l, r)
             none(s) == s.answer = NoAnswer
         IN /\ c \in {"both_correct", "both_incorrect", "only_all_hot_correct",
                      "only_mixed_correct", "both_extraction_failure",
                      "all_hot_extraction_failure", "mixed_extraction_failure"}
            /\ c = "both_correct" <=> l.exact /\ r.exact
            /\ c = "only_all_hot_correct" <=> l.exact /\ ~r.exact /\ ~none(r)
            /\ c = "only_mixed_correct" <=> ~l.exact /\ r.exact /\ ~none(l)
            /\ c = "both_incorrect" <=> ~l.exact /\ ~r.exact /\ ~none(l) /\ ~none(r)
            /\ c = "both_extraction_failure" <=> none(l) /\ none(r)
            /\ c = "all_hot_extraction_failure" <=> none(l) /\ ~none(r)
            /\ c = "mixed_extraction_failure" <=> ~none(l) /\ none(r)
<1>1. QuestionStatus(l) = "completed" /\ QuestionStatus(r) = "completed"
  BY DEF Comparable, Completed, QuestionStatus
<1>2. IsExtractionFailure(l) = (l.answer = NoAnswer)
  BY DEF Comparable, WellScored, IsExtractionFailure
<1>3. IsExtractionFailure(r) = (r.answer = NoAnswer)
  BY DEF Comparable, WellScored, IsExtractionFailure
<1>4. /\ l.exact \in BOOLEAN /\ r.exact \in BOOLEAN
      /\ l.answer = NoAnswer => ~l.exact
      /\ r.answer = NoAnswer => ~r.exact
  BY DEF Comparable, WellScored
<1>5. PairedCorrectness(l, r) =
        IF l.answer = NoAnswer
        THEN IF r.answer = NoAnswer THEN "both_extraction_failure"
                                    ELSE "all_hot_extraction_failure"
        ELSE IF r.answer = NoAnswer THEN "mixed_extraction_failure"
        ELSE Correctness(l, r)
  BY <1>1, <1>2, <1>3 DEF PairedCorrectness
<1> QED
  BY <1>4, <1>5 DEF Correctness

(* Each panel of the figure counts a question at most once.  The outcomes  *)
(* cover all; what the divergences leave out are questions whose           *)
(* extraction failed in a mode.                                            *)
THEOREM PanelsCountOnce ==
  ASSUME NEW hot, NEW mix, \A q \in DOMAIN hot : Comparable(hot[q], mix[q])
  PROVE  LET questions == Questions(hot, mix)
             outcome == OutcomePanel(questions)
             divergence == DivergencePanel(questions)
         IN /\ \A m, n \in 1 .. 5 : m # n => /\ outcome[m] \cap outcome[n] = {}
                                             /\ divergence[m] \cap divergence[n] = {}
            /\ UNION {outcome[n] : n \in 1 .. 5} = DOMAIN hot
            /\ DOMAIN hot \ UNION {divergence[n] : n \in 1 .. 5}
                 \subseteq ExtractionFailures(questions)
<1> DEFINE questions == Questions(hot, mix)
           outcome == OutcomePanel(questions)
           divergence == DivergencePanel(questions)
<1>1. /\ DOMAIN questions = DOMAIN hot
      /\ \A q \in DOMAIN hot :
           /\ questions[q].category = PairedCorrectness(hot[q], mix[q])
           /\ questions[q].identicalTokens = (hot[q].tokens = mix[q].tokens)
           /\ questions[q].identicalAnswers = AnswersIdentical(hot[q], mix[q])
  BY DEF Questions, PairedRecord
<1> HIDE DEF questions
<1>2. ASSUME NEW q \in DOMAIN hot
      PROVE  LET c == questions[q].category
                 same == questions[q].identicalAnswers
                 alike == questions[q].identicalTokens
             IN /\ c \in {"both_correct", "both_incorrect", "only_all_hot_correct",
                          "only_mixed_correct", "both_extraction_failure",
                          "all_hot_extraction_failure", "mixed_extraction_failure"}
                /\ c = "both_correct" => same
                /\ c \in {"only_all_hot_correct", "only_mixed_correct"} =>
                     ~same /\ ~alike
                /\ c = "both_incorrect" /\ alike => same
                /\ same \in BOOLEAN /\ alike \in BOOLEAN
  <2> DEFINE l == hot[q]
             r == mix[q]
  <2>1. Comparable(l, r)
    OBVIOUS
  <2>2. /\ WellScored(l) /\ WellScored(r) /\ l.gold = r.gold
        /\ l.tokens = r.tokens => l.answer = r.answer
    BY <2>1 DEF Comparable
  <2>3. AnswersIdentical(l, r) = (l.answer # NoAnswer /\ l.answer = r.answer)
    BY <2>2 DEF WellScored, AnswersIdentical, IsExtractionFailure
  <2>4. questions[q].identicalAnswers = (l.answer # NoAnswer /\ l.answer = r.answer)
    BY <1>1, <2>3
  <2>5. /\ questions[q].category = PairedCorrectness(l, r)
        /\ questions[q].identicalTokens = (l.tokens = r.tokens)
    BY <1>1
  <2> HIDE DEF l, r
  <2> QED
    BY <2>1, <2>2, <2>4, <2>5, CategoryTold DEF WellScored
<1>3. outcome = <<Category(questions, "both_correct"),
                  Category(questions, "both_incorrect"),
                  Category(questions, "only_mixed_correct"),
                  Category(questions, "only_all_hot_correct"),
                  ExtractionFailures(questions)>>
  BY DEF OutcomePanel
<1>4. divergence = <<IdenticalTokens(questions), SameAnswerOtherText(questions),
                     {q \in Category(questions, "both_incorrect") :
                        ~questions[q].identicalAnswers},
                     Category(questions, "only_mixed_correct"),
                     Category(questions, "only_all_hot_correct")>>
  BY DEF DivergencePanel
<1> HIDE DEF outcome, divergence
<1>5. \A q, c : q \in Category(questions, c) <=>
        q \in DOMAIN hot /\ questions[q].category = c
  BY <1>1 DEF Category
<1>6. \A q : q \in ExtractionFailures(questions) <=>
        /\ q \in DOMAIN hot
        /\ questions[q].category \in
             {"both_extraction_failure", "all_hot_extraction_failure",
              "mixed_extraction_failure"}
  BY <1>5 DEF ExtractionFailures
<1>7. \A q : /\ q \in IdenticalTokens(questions) <=>
                  q \in DOMAIN hot /\ questions[q].identicalTokens
             /\ q \in SameAnswerOtherText(questions) <=>
                  /\ q \in DOMAIN hot /\ ~questions[q].identicalTokens
                  /\ questions[q].identicalAnswers
  BY <1>1 DEF IdenticalTokens, SameAnswerOtherText
<1>8. \A m, n \in 1 .. 5 : m # n => outcome[m] \cap outcome[n] = {}
  BY <1>2, <1>3, <1>5, <1>6
<1>9. \A m, n \in 1 .. 5 : m # n => divergence[m] \cap divergence[n] = {}
  BY <1>2, <1>4, <1>5, <1>7
<1>10. UNION {outcome[n] : n \in 1 .. 5} = DOMAIN hot
  <2>1. \A q \in DOMAIN hot : \E n \in 1 .. 5 : q \in outcome[n]
    BY <1>2, <1>3, <1>5, <1>6
  <2>2. \A n \in 1 .. 5 : outcome[n] \subseteq DOMAIN hot
    BY <1>3, <1>5, <1>6
  <2> QED
    BY <2>1, <2>2
<1>11. ASSUME NEW q \in DOMAIN hot, q \notin ExtractionFailures(questions)
       PROVE  \E n \in 1 .. 5 : q \in divergence[n]
  BY <1>2, <1>4, <1>5, <1>6, <1>7, <1>11
<1>12. DOMAIN hot \ UNION {divergence[n] : n \in 1 .. 5}
         \subseteq ExtractionFailures(questions)
  BY <1>11
<1> QED
  BY <1>8, <1>9, <1>10, <1>12 DEF outcome, divergence, questions

(* What the notebook concludes: the difference in exact matches, which it   *)
(* gives with the two one-sided counts as if they made it up, is made up of *)
(* these and of the questions that one mode has right and the other gave no *)
(* answer to.                                                               *)
THEOREM GapExplained ==
  ASSUME NEW hot, NEW mix, IsFiniteSet(DOMAIN hot), DOMAIN mix = DOMAIN hot,
         \A q \in DOMAIN hot : Comparable(hot[q], mix[q])
  PROVE  LET questions == Questions(hot, mix)
             told == GapSentence(hot, mix)
             in(category) == Category(questions, category)
             rightAlone(run, category) == {q \in in(category) : run[q].exact}
         IN ModeCounts(mix).exact_match - ModeCounts(hot).exact_match =
              told.only_mix - told.only_hot
              + Cardinality(rightAlone(mix, "all_hot_extraction_failure"))
              - Cardinality(rightAlone(hot, "mixed_extraction_failure"))
<1> DEFINE questions == Questions(hot, mix)
           eh == Exact(hot, DOMAIN hot)
           em == Exact(mix, DOMAIN hot)
           bc == Category(questions, "both_correct")
           oh == Category(questions, "only_all_hot_correct")
           om == Category(questions, "only_mixed_correct")
           xh == {q \in Category(questions, "all_hot_extraction_failure") : mix[q].exact}
           xm == {q \in Category(questions, "mixed_extraction_failure") : hot[q].exact}
           hotOnly == oh \cup xm
           mixOnly == om \cup xh
<1>1. \A q, c : q \in Category(questions, c) <=>
        q \in DOMAIN hot /\ PairedCorrectness(hot[q], mix[q]) = c
  BY DEF Category, Questions, PairedRecord
<1>2. ASSUME NEW q \in DOMAIN hot
      PROVE  /\ hot[q].exact \in BOOLEAN /\ mix[q].exact \in BOOLEAN
             /\ hot[q].answer = NoAnswer => ~hot[q].exact
             /\ mix[q].answer = NoAnswer => ~mix[q].exact
  BY DEF Comparable, WellScored
<1>3. ASSUME NEW q \in DOMAIN hot
      PROVE  LET c == PairedCorrectness(hot[q], mix[q]) IN
             /\ c = "both_correct" <=> hot[q].exact /\ mix[q].exact
             /\ c = "only_all_hot_correct" <=>
                  hot[q].exact /\ ~mix[q].exact /\ mix[q].answer # NoAnswer
             /\ c = "only_mixed_correct" <=>
                  ~hot[q].exact /\ mix[q].exact /\ hot[q].answer # NoAnswer
             /\ c = "all_hot_extraction_failure" <=>
                  hot[q].answer = NoAnswer /\ mix[q].answer # NoAnswer
             /\ c = "mixed_extraction_failure" <=>
                  hot[q].answer # NoAnswer /\ mix[q].answer = NoAnswer
  BY CategoryTold
<1> HIDE DEF questions
<1>4. /\ \A q : q \in eh <=> q \in DOMAIN hot /\ hot[q].exact
      /\ \A q : q \in em <=> q \in DOMAIN hot /\ mix[q].exact
  BY DEF Exact
<1>5. bc \cup hotOnly = eh /\ bc \cap hotOnly = {}
  BY <1>1, <1>2, <1>3, <1>4
<1>6. bc \cup mixOnly = em /\ bc \cap mixOnly = {}
  BY <1>1, <1>2, <1>3, <1>4
<1>7. oh \cap xm = {} /\ om \cap xh = {}
  BY <1>1
<1>8. IsFiniteSet(eh) /\ IsFiniteSet(em)
  BY FS_Subset DEF Exact
<1>9. /\ ModeCounts(mix).exact_match = Cardinality(em)
      /\ ModeCounts(hot).exact_match = Cardinality(eh)
  BY DEF ModeCounts
<1>10. /\ GapSentence(hot, mix).only_mix = Cardinality(om)
       /\ GapSentence(hot, mix).only_hot = Cardinality(oh)
  BY DEF GapSentence, questions
<1> HIDE DEF eh, em, bc, oh, om, xh, xm
<1>11. /\ Cardinality(eh) = Cardinality(bc) + Cardinality(hotOnly)
       /\ IsFiniteSet(hotOnly) /\ Cardinality(bc) \in Nat
  <2> HIDE DEF hotOnly
  <2> QED
    BY <1>5, <1>8, SplitCount
<1>12. /\ Cardinality(em) = Cardinality(bc) + Cardinality(mixOnly)
       /\ IsFiniteSet(mixOnly)
  <2> HIDE DEF mixOnly
  <2> QED
    BY <1>6, <1>8, SplitCount
<1>13. /\ Cardinality(hotOnly) = Cardinality(oh) + Cardinality(xm)
       /\ Cardinality(oh) \in Nat /\ Cardinality(xm) \in Nat
  <2>1. IsFiniteSet(hotOnly)
    BY <1>11
  <2>2. oh \cup xm = hotOnly /\ oh \cap xm = {}
    BY <1>7
  <2> HIDE DEF hotOnly
  <2> QED
    BY <2>1, <2>2, SplitCount
<1>14. /\ Cardinality(mixOnly) = Cardinality(om) + Cardinality(xh)
       /\ Cardinality(om) \in Nat /\ Cardinality(xh) \in Nat
  <2>1. IsFiniteSet(mixOnly)
    BY <1>12
  <2>2. om \cup xh = mixOnly /\ om \cap xh = {}
    BY <1>7
  <2> HIDE DEF mixOnly
  <2> QED
    BY <2>1, <2>2, SplitCount
<1>15. Cardinality(em) - Cardinality(eh) =
         Cardinality(om) - Cardinality(oh) + Cardinality(xh) - Cardinality(xm)
  BY <1>11, <1>12, <1>13, <1>14
<1> QED
  BY <1>9, <1>10, <1>15 DEF xh, xm, questions

(* The counts of the 20 questions fit together: the four classes of a pair  *)
(* are all the questions, the first is that of the same answers, and the    *)
(* two one-sided classes are the questions only one mode has right.         *)
THEOREM SmallCountsAddUp ==
  ASSUME NEW hot, NEW mix, IsFiniteSet(DOMAIN hot), DOMAIN mix = DOMAIN hot,
         \A q \in DOMAIN hot : /\ WellScored(hot[q]) /\ WellScored(mix[q])
                               /\ hot[q].gold = mix[q].gold
  PROVE  LET o == SmallSummary(hot, mix) IN
         /\ o.questions = o.classes[1] + o.classes[2] + o.classes[3] + o.classes[4]
         /\ o.answers[1] = o.classes[1]
         /\ o.answers[2] = o.classes[2] + o.classes[3] + o.classes[4]
         /\ o.only[1] = o.classes[4] /\ o.only[2] = o.classes[3]
         /\ o.exact[1] = o.both[1] + o.only[1]
         /\ o.exact[2] = o.both[1] + o.only[2]
         /\ o.questions = o.both[1] + o.both[2] + o.only[1] + o.only[2]
<1> DEFINE n == DOMAIN hot
           same == PairsOf(hot, mix, "identical_extracted_answer")
           alike == PairsOf(hot, mix, "divergent_same_correctness")
           cm == PairsOf(hot, mix, "divergent_only_mixed_correct")
           ch == PairsOf(hot, mix, "divergent_only_all_hot_correct")
           identical == {q \in n : hot[q].answer = mix[q].answer}
           eh == Exact(hot, n)
           em == Exact(mix, n)
           oh == eh \ em
           om == em \ eh
           both == eh \cap em
           any == eh \cup em
           wrong == n \ any
           sided == cm \cup ch
           apart == alike \cup sided
<1>1. LET o == SmallSummary(hot, mix) IN
      /\ o.questions = Cardinality(n)
      /\ o.exact = <<Cardinality(eh), Cardinality(em)>>
      /\ o.answers = <<Cardinality(identical),
                       Cardinality(n) - Cardinality(identical)>>
      /\ o.only = <<Cardinality(oh), Cardinality(om)>>
      /\ o.both = <<Cardinality(both), Cardinality(wrong)>>
      /\ o.classes = <<Cardinality(same), Cardinality(alike),
                       Cardinality(cm), Cardinality(ch)>>
  BY DEF SmallSummary
<1>2. ASSUME NEW q \in n
      PROVE  /\ hot[q].exact \in BOOLEAN /\ mix[q].exact \in BOOLEAN
             /\ hot[q].answer = mix[q].answer => hot[q].exact = mix[q].exact
  BY DEF WellScored
<1>3. /\ \A q : q \in eh <=> q \in n /\ hot[q].exact
      /\ \A q : q \in em <=> q \in n /\ mix[q].exact
  BY DEF Exact
<1>4. \A q, c : q \in PairsOf(hot, mix, c) <=> q \in n /\ PairClass(hot[q], mix[q]) = c
  BY DEF PairsOf
<1>5. same = identical
  BY <1>4 DEF PairClass
<1>6. cm = om /\ ch = oh
  BY <1>2, <1>3, <1>4 DEF PairClass
<1>7. /\ same \cup apart = n /\ same \cap apart = {}
      /\ alike \cap sided = {} /\ cm \cap ch = {}
  <2>1. ASSUME NEW q \in n
        PROVE  PairClass(hot[q], mix[q]) \in
                 {"identical_extracted_answer", "divergent_same_correctness",
                  "divergent_only_mixed_correct", "divergent_only_all_hot_correct"}
    BY DEF PairClass
  <2> QED
    BY <1>4, <2>1
<1>8. /\ both \cup oh = eh /\ both \cap oh = {}
      /\ both \cup om = em /\ both \cap om = {}
      /\ eh \cup om = any /\ eh \cap om = {}
      /\ any \subseteq n
  BY <1>3
<1>9. any \cup wrong = n /\ any \cap wrong = {}
  BY <1>8
<1> HIDE DEF same, alike, cm, ch, eh, em, identical
<1>10. /\ Cardinality(n) = Cardinality(same) + Cardinality(apart)
       /\ IsFiniteSet(apart) /\ Cardinality(same) \in Nat
  <2>1. IsFiniteSet(n)
    OBVIOUS
  <2>2. same \cup apart = n /\ same \cap apart = {}
    BY <1>7
  <2> HIDE DEF n, apart
  <2> QED
    BY <2>1, <2>2, SplitCount
<1>11. /\ Cardinality(apart) = Cardinality(alike) + Cardinality(sided)
       /\ IsFiniteSet(sided) /\ Cardinality(alike) \in Nat
  <2>1. IsFiniteSet(apart)
    BY <1>10
  <2>2. alike \cup sided = apart /\ alike \cap sided = {}
    BY <1>7
  <2> HIDE DEF apart, sided
  <2> QED
    BY <2>1, <2>2, SplitCount
<1>12. /\ Cardinality(sided) = Cardinality(cm) + Cardinality(ch)
       /\ Cardinality(cm) \in Nat /\ Cardinality(ch) \in Nat
  <2>1. IsFiniteSet(sided)
    BY <1>11
  <2>2. cm \cup ch = sided /\ cm \cap ch = {}
    BY <1>7
  <2> HIDE DEF sided
  <2>3. Cardinality(cm) \in Nat /\ Cardinality(ch) \in Nat
    BY <2>1, <2>2, SplitCount
  <2>4. Cardinality(sided) = Cardinality(cm) + Cardinality(ch)
    BY <2>1, <2>2, SplitCount
  <2> QED
    BY <2>3, <2>4
<1>13. /\ Cardinality(n) = Cardinality(any) + Cardinality(wrong)
       /\ IsFiniteSet(any) /\ Cardinality(wrong) \in Nat
  <2>1. IsFiniteSet(n)
    OBVIOUS
  <2>2. any \cup wrong = n /\ any \cap wrong = {}
    BY <1>9
  <2> HIDE DEF n, any, wrong
  <2> QED
    BY <2>1, <2>2, SplitCount
<1>14. /\ Cardinality(any) = Cardinality(eh) + Cardinality(om)
       /\ IsFiniteSet(eh) /\ Cardinality(om) \in Nat
  <2>1. IsFiniteSet(any)
    BY <1>13
  <2>2. eh \cup om = any /\ eh \cap om = {}
    BY <1>8
  <2> HIDE DEF any, om
  <2> QED
    BY <2>1, <2>2, SplitCount
<1>15. /\ Cardinality(eh) = Cardinality(both) + Cardinality(oh)
       /\ Cardinality(both) \in Nat /\ Cardinality(oh) \in Nat
  <2>1. IsFiniteSet(eh)
    BY <1>14
  <2>2. both \cup oh = eh /\ both \cap oh = {}
    BY <1>8
  <2> HIDE DEF both, oh
  <2> QED
    BY <2>1, <2>2, SplitCount
<1>16. Cardinality(em) = Cardinality(both) + Cardinality(om)
  <2>1. IsFiniteSet(em)
    BY <1>13, FS_Subset DEF any
  <2>2. both \cup om = em /\ both \cap om = {}
    BY <1>8
  <2> HIDE DEF both, om
  <2> QED
    BY <2>1, <2>2, SplitCount
<1> HIDE DEF n, oh, om, both, any, wrong, sided, apart
<1> QED
  BY <1>1, <1>5, <1>6, <1>10, <1>11, <1>12, <1>13, <1>14, <1>15, <1>16
-----------------------------------------------------------------------------
-----------------------------------------------------------------------------
(* Least and greatest elements.                                            *)

\* A set of naturals that is not empty has a least element.
LEMMA LeastNatural ==
  ASSUME NEW T, T \subseteq Nat, T # {}
  PROVE  \E m \in T : \A k \in T : m <= k
<1> DEFINE less == {ss \in Nat \X Nat : ss[1] < ss[2]}
<1>1. IsWellFoundedOn(less, Nat)
  BY NatLessThanWellFounded DEF OpToRel
<1>2. PICK m \in T : \A k \in T : ~(<<k, m>> \in less)
  <2> HIDE DEF less
  <2> QED
    BY <1>1, WFMin
<1>3. ASSUME NEW k \in T PROVE m <= k
  <2>1. ~(k < m)
    BY <1>2
  <2> QED
    BY <2>1
<1> QED
  BY <1>3

\* Of a bounded set of naturals that is not empty, one is the greatest.
LEMMA GreatestUpTo ==
  ASSUME NEW n \in Nat, NEW T, T \subseteq 1 .. n, T # {}
  PROVE  \E m \in T : \A k \in T : k <= m
<1> DEFINE below == {n - k : k \in T}
<1>1. below \subseteq Nat /\ below # {}
  <2>1. \A k \in T : n - k \in Nat
    OBVIOUS
  <2> QED
    BY <2>1
<1>2. PICK d \in below : \A k \in below : d <= k
  <2> HIDE DEF below
  <2> QED
    BY <1>1, LeastNatural
<1>3. PICK m \in T : d = n - m
  OBVIOUS
<1>4. ASSUME NEW k \in T PROVE k <= m
  <2>1. n - m <= n - k
    BY <1>2, <1>3
  <2> QED
    BY <2>1
<1> QED
  BY <1>4

-----------------------------------------------------------------------------
(* inspect_qasper_e_lengths.py.                                            *)

LEMMA DistanceType ==
  ASSUME NEW a \in Nat, NEW b \in Nat
  PROVE  Distance(a, b) \in Nat
BY DEF Distance

NearestOf(n, lengths, i, used, target) ==
  /\ i \in (0 .. n - 1) \ used
  /\ \A j \in (0 .. n - 1) \ used :
       Distance(lengths[i], target) <= Distance(lengths[j], target)

\* Of the examples left over, one is closest to the target, and it is chosen.
LEMMA ClosestChosen ==
  ASSUME NEW n \in Nat, NEW lengths \in [0 .. n - 1 -> Nat], NEW target \in Nat,
         NEW used, DOMAIN lengths \ used # {}
  PROVE  NearestOf(n, lengths, Closest(lengths, used, target), used, target)
<1> DEFINE left == (0 .. n - 1) \ used
           d(i) == Distance(lengths[i], target)
           distances == {d(i) : i \in left}
<1>1. left # {} /\ \A i \in left : lengths[i] \in Nat /\ d(i) \in Nat
  BY DistanceType
<1>2. PICK least \in distances : \A other \in distances : least <= other
  <2>1. distances \subseteq Nat /\ distances # {}
    BY <1>1
  <2> HIDE DEF distances
  <2> QED
    BY <2>1, LeastNatural
<1> DEFINE nearest == {i \in left : d(i) = least}
<1>3. PICK first \in nearest : \A i \in nearest : first <= i
  <2>1. nearest \subseteq Nat /\ nearest # {}
    BY <1>2
  <2> HIDE DEF nearest
  <2> QED
    BY <2>1, LeastNatural
<1>4. ASSUME NEW j \in left
      PROVE  d(first) < d(j) \/ (d(first) = d(j) /\ first <= j)
  <2>1. d(first) = least /\ least <= d(j) /\ d(j) \in Nat /\ d(first) \in Nat
    BY <1>1, <1>2, <1>3
  <2>2. d(j) = least => first <= j
    BY <1>3
  <2> QED
    BY <2>1, <2>2
<1> DEFINE chosen == Closest(lengths, used, target)
<1>5. /\ chosen \in left
      /\ \A j \in left : d(chosen) < d(j) \/ (d(chosen) = d(j) /\ chosen <= j)
  BY <1>3, <1>4 DEF Closest
<1>6. ASSUME NEW j \in left PROVE d(chosen) <= d(j)
  <2>1. d(chosen) \in Nat /\ d(j) \in Nat
    BY <1>1, <1>5
  <2> HIDE DEF chosen, d
  <2> QED
    BY <1>5, <2>1, SMTT(30)
<1> QED
  BY <1>5, <1>6 DEF NearestOf

\* Of four examples three names leave one over.
LEMMA SomeLeft ==
  ASSUME NEW n \in Nat, n >= 4, NEW a, NEW b, NEW c
  PROVE  (0 .. n - 1) \ {a, b, c} # {}
<1>1. \E k \in {0, 1, 2, 3} : k # a /\ k # b /\ k # c
  OBVIOUS
<1>2. {0, 1, 2, 3} \subseteq 0 .. n - 1
  OBVIOUS
<1> QED
  BY <1>1, <1>2

\* Of at least four examples the script chooses four different ones, each as
\* close to its target as any that the earlier targets have left.
THEOREM SelectionDistinct ==
  ASSUME NEW n \in Nat, n >= 4, NEW lengths \in [0 .. n - 1 -> Nat]
  PROVE  /\ Selection(lengths) \in [1 .. 4 -> 0 .. n - 1]
         /\ \A a, b \in 1 .. 4 : Selection(lengths)[a] = Selection(lengths)[b] => a = b
         /\ \A a \in 1 .. 4 : \A j \in 0 .. n - 1 :
              (\A b \in 1 .. a - 1 : j # Selection(lengths)[b]) =>
                Distance(lengths[Selection(lengths)[a]], Targets[a])
                  <= Distance(lengths[j], Targets[a])
<1> DEFINE i1 == Closest(lengths, {}, Targets[1])
           i2 == Closest(lengths, {i1}, Targets[2])
           i3 == Closest(lengths, {i1, i2}, Targets[3])
           i4 == Closest(lengths, {i1, i2, i3}, Targets[4])
           Near(i, used, t) == NearestOf(n, lengths, i, used, Targets[t])
<1>1. \A t \in 1 .. 4 : Targets[t] \in Nat
  <2>1. Targets \in [1 .. 4 -> Nat]
    BY DEF Targets
  <2> QED
    BY <2>1
<1>2. DOMAIN lengths = 0 .. n - 1 /\ \A target \in {Targets[t] : t \in 1 .. 4} : target \in Nat
  BY <1>1
<1>3. /\ Near(i1, {}, 1) /\ Near(i2, {i1}, 2)
      /\ Near(i3, {i1, i2}, 3) /\ Near(i4, {i1, i2, i3}, 4)
  <2>1. Near(i1, {}, 1)
    <3>1. (0 .. n - 1) \ {0, 0, 0} # {}
      BY SomeLeft
    <3>2. DOMAIN lengths \ {} # {}
      BY <3>1, <1>2
    <3>3. Targets[1] \in Nat
      BY <1>1
    <3> QED
      BY <3>2, <3>3, ClosestChosen
  <2>2. Near(i2, {i1}, 2)
    <3> HIDE DEF i1
    <3>1. (0 .. n - 1) \ {i1, i1, i1} # {}
      BY SomeLeft
    <3>2. DOMAIN lengths \ {i1} # {}
      BY <3>1, <1>2
    <3>3. Targets[2] \in Nat
      BY <1>1
    <3> QED
      BY <3>2, <3>3, ClosestChosen
  <2>3. Near(i3, {i1, i2}, 3)
    <3> HIDE DEF i1, i2
    <3>1. (0 .. n - 1) \ {i1, i2, i2} # {}
      BY SomeLeft
    <3>2. DOMAIN lengths \ {i1, i2} # {}
      BY <3>1, <1>2
    <3>3. Targets[3] \in Nat
      BY <1>1
    <3> QED
      BY <3>2, <3>3, ClosestChosen
  <2>4. Near(i4, {i1, i2, i3}, 4)
    <3> HIDE DEF i1, i2, i3
    <3>1. (0 .. n - 1) \ {i1, i2, i3} # {}
      BY SomeLeft
    <3>2. DOMAIN lengths \ {i1, i2, i3} # {}
      BY <3>1, <1>2
    <3>3. Targets[4] \in Nat
      BY <1>1
    <3> QED
      BY <3>2, <3>3, ClosestChosen
  <2> QED
    BY <2>1, <2>2, <2>3, <2>4
<1>4. Selection(lengths) = <<i1, i2, i3, i4>>
  BY DEF Selection
<1> HIDE DEF i1, i2, i3, i4
<1> DEFINE s == Selection(lengths)
<1>5. s[1] = i1 /\ s[2] = i2 /\ s[3] = i3 /\ s[4] = i4
  BY <1>4
<1>6. \A a \in 1 .. 4 : a = 1 \/ a = 2 \/ a = 3 \/ a = 4
  OBVIOUS
<1>7. s \in [1 .. 4 -> 0 .. n - 1]
  <2> DEFINE ids == 0 .. n - 1
  <2>1. i1 \in ids /\ i2 \in ids /\ i3 \in ids /\ i4 \in ids
    BY <1>3 DEF NearestOf
  <2> HIDE DEF ids
  <2>2. <<i1, i2, i3, i4>> \in [1 .. 4 -> ids]
    BY <2>1
  <2> QED
    BY <1>4, <2>2 DEF ids
<1>8. ASSUME NEW a \in 1 .. 4, NEW b \in 1 .. 4, s[a] = s[b]
      PROVE  a = b
  <2>1. i2 # i1 /\ i3 # i1 /\ i3 # i2 /\ i4 # i1 /\ i4 # i2 /\ i4 # i3
    BY <1>3 DEF NearestOf
  <2> HIDE DEF s
  <2> QED
    BY <1>5, <1>6, <1>8, <2>1
<1>9. ASSUME NEW a \in 1 .. 4, NEW j \in 0 .. n - 1, \A b \in 1 .. a - 1 : j # s[b]
      PROVE  Distance(lengths[s[a]], Targets[a]) <= Distance(lengths[j], Targets[a])
  <2>1. CASE a = 1
    BY <1>3, <1>5, <2>1 DEF NearestOf
  <2>2. CASE a = 2
    <3>1. j # i1
      BY <1>9, <1>5, <2>2
    <3> QED
      BY <1>3, <1>5, <2>2, <3>1 DEF NearestOf
  <2>3. CASE a = 3
    <3>1. j # i1 /\ j # i2
      BY <1>9, <1>5, <2>3
    <3> QED
      BY <1>3, <1>5, <2>3, <3>1 DEF NearestOf
  <2>4. CASE a = 4
    <3>1. j # i1 /\ j # i2 /\ j # i3
      BY <1>9, <1>5, <2>4
    <3> QED
      BY <1>3, <1>5, <2>4, <3>1 DEF NearestOf
  <2> QED
    BY <1>6, <2>1, <2>2, <2>3, <2>4
<1> QED
  BY <1>7, <1>8, <1>9

\* Every percentile that is printed is one of the lengths.
THEOREM PercentileInRange ==
  ASSUME NEW n \in Nat, n > 0, NEW percent \in 0 .. 100
  PROVE  PercentilePosition(n, percent) \in 0 .. n - 1
<1> DEFINE x == (n - 1) * percent
<1>1. x \in Nat /\ x <= 100 * (n - 1)
  OBVIOUS
<1>2. RoundEven(x, 100) \in 0 .. n - 1
  <2> HIDE DEF x
  <2>1. x \div 100 \in 0 .. n - 1
    BY <1>1
  <2>2. x % 100 # 0 => x \div 100 < n - 1
    BY <1>1
  <2>3. 2 * (x % 100) < 100 \/ x % 100 # 0
    BY <1>1
  <2>4. x % 100 # 0 => x \div 100 + 1 \in 0 .. n - 1
    BY <1>1, <2>1, <2>2
  <2> QED
    BY <2>1, <2>3, <2>4 DEF RoundEven
<1> QED
  BY <1>2 DEF PercentilePosition

-----------------------------------------------------------------------------
(* analyze_qasper_e_baseline.py.                                           *)

LEMMA OccurrencesFinite ==
  ASSUME NEW W, NEW p \in Seq(W)
  PROVE  IsFiniteSet(Occurrences(p)) /\ Cardinality(Occurrences(p)) <= Len(p)
<1> DEFINE nth(n) == <<p[n], Cardinality({m \in 1 .. n : p[m] = p[n]})>>
<1>1. Len(p) \in Nat /\ DOMAIN p = 1 .. Len(p)
  OBVIOUS
<1>2. IsFiniteSet(1 .. Len(p)) /\ Cardinality(1 .. Len(p)) = Len(p)
  BY <1>1, FS_Interval
<1>3. Occurrences(p) = {nth(n) : n \in 1 .. Len(p)}
  BY <1>1 DEF Occurrences
<1> DEFINE f == [n \in 1 .. Len(p) |-> nth(n)]
<1>4. f \in Surjection(1 .. Len(p), Occurrences(p))
  <2> HIDE DEF nth
  <2>1. f \in [1 .. Len(p) -> Occurrences(p)]
    BY <1>3
  <2>2. \A o \in Occurrences(p) : \E n \in 1 .. Len(p) : f[n] = o
    BY <1>3
  <2> QED
    BY <2>1, <2>2 DEF Surjection
<1> HIDE DEF f
<1>5. IsFiniteSet(Occurrences(p)) /\ Cardinality(Occurrences(p)) <= Cardinality(1 .. Len(p))
  BY <1>2, <1>4, FS_Surjection
<1> QED
  BY <1>2, <1>5

\* A score is a fraction between nothing and one, whatever the words.
THEOREM F1Bounded ==
  ASSUME NEW W, NEW p \in Seq(W), NEW r \in Seq(W)
  PROVE  /\ TokenF1(p, r)[1] \in Nat
         /\ TokenF1(p, r)[2] \in Nat \ {0}
         /\ TokenF1(p, r)[1] <= TokenF1(p, r)[2]
<1> DEFINE shared == SharedTokens(p, r)
<1>1. /\ shared \in Nat
      /\ shared <= Cardinality(Occurrences(p))
      /\ shared <= Cardinality(Occurrences(r))
  <2>1. IsFiniteSet(Occurrences(p)) /\ IsFiniteSet(Occurrences(r))
    BY OccurrencesFinite
  <2>2. /\ Occurrences(p) \cap Occurrences(r) \in SUBSET Occurrences(p)
        /\ Occurrences(p) \cap Occurrences(r) \in SUBSET Occurrences(r)
    OBVIOUS
  <2>3. IsFiniteSet(Occurrences(p) \cap Occurrences(r))
    BY <2>1, <2>2, FS_Subset
  <2> QED
    BY <2>1, <2>2, <2>3, FS_Subset, FS_CardinalityType DEF SharedTokens
<1>2. shared <= Len(p) /\ shared <= Len(r)
  <2>1. /\ Cardinality(Occurrences(p)) \in Nat /\ Cardinality(Occurrences(p)) <= Len(p)
        /\ Cardinality(Occurrences(r)) \in Nat /\ Cardinality(Occurrences(r)) <= Len(r)
    BY OccurrencesFinite, FS_CardinalityType
  <2> HIDE DEF shared
  <2> QED
    BY <1>1, <2>1
<1>3. Len(p) \in Nat /\ Len(r) \in Nat
  OBVIOUS
<1>4. CASE p = <<>> \/ r = <<>> \/ shared = 0
  BY <1>4 DEF TokenF1
<1>5. CASE ~(p = <<>> \/ r = <<>> \/ shared = 0)
  <2>1. TokenF1(p, r) = <<2 * shared, Len(p) + Len(r)>>
    BY <1>5 DEF TokenF1
  <2> HIDE DEF shared
  <2>2. shared > 0 /\ 2 * shared <= Len(p) + Len(r) /\ 2 * shared \in Nat
    BY <1>1, <1>2, <1>3, <1>5
  <2>3. TokenF1(p, r)[1] = 2 * shared /\ TokenF1(p, r)[2] = Len(p) + Len(r)
    BY <2>1
  <2>4. Len(p) + Len(r) \in Nat \ {0}
    <3>1. Len(p) + Len(r) >= 2 * shared /\ shared >= 1
      BY <1>1, <2>2
    <3> QED
      BY <1>1, <1>3, <3>1
  <2> QED
    BY <2>2, <2>3, <2>4
<1> QED
  BY <1>4, <1>5

\* The last record of an index is one of the records.
LEMMA LastRecord ==
  ASSUME NEW records, NEW n \in Nat, DOMAIN records = 1 .. n,
         NEW i \in DOMAIN ByIndex(records)
  PROVE  \E k \in DOMAIN records : /\ records[k].dataset_index = i
                                  /\ ByIndex(records)[i] = records[k]
<1> DEFINE those == {k \in 1 .. n : records[k].dataset_index = i}
<1>1. i \in {records[k].dataset_index : k \in 1 .. n}
  BY DEF ByIndex
<1>2. PICK k \in those : \A m \in those : m <= k
  <2>1. those \subseteq 1 .. n /\ those # {}
    BY <1>1
  <2> HIDE DEF those
  <2> QED
    BY <2>1, GreatestUpTo
<1> DEFINE last == CHOOSE m \in DOMAIN records :
                     /\ records[m].dataset_index = i
                     /\ \A o \in DOMAIN records :
                          records[o].dataset_index = i => o <= m
<1>3. last \in 1 .. n /\ records[last].dataset_index = i
  BY <1>2
<1>4. ByIndex(records)[i] = records[last]
  BY <1>1 DEF ByIndex
<1> HIDE DEF last
<1> QED
  BY <1>3, <1>4

\* The file of a run that was not refused: of each example its own record, with
\* the number of tokens the prompt had when it was chosen.
LEMMA BaselineRecords ==
  ASSUME NEW n \in Nat, n >= 4, NEW chosen \in [0 .. n - 1 -> Nat],
         NEW dtype, NEW lengths, NEW answer, NEW records,
         records = Baseline(dtype, SelectedExamples(chosen), lengths, answer),
         records # Raised,
         \A i \in DOMAIN lengths : answer[i].prompt_tokens = lengths[i]
  PROVE  /\ DOMAIN records = 1 .. 4
         /\ \A k \in 1 .. 4 :
              records[k].prompt_tokens = chosen[records[k].dataset_index]
<1> DEFINE selected == SelectedExamples(chosen)
<1>1. ~(selected = Raised \/ PromptsChanged(selected, lengths))
  BY DEF Baseline
<1>2. selected = [k \in 1 .. 4 |->
                    LET i == Selection(chosen)[k] IN
                    [target_tokens |-> Targets[k], index |-> i,
                     prompt_tokens |-> chosen[i], bucket |-> Bucket(chosen[i])]]
  <2>1. selected # Raised
    BY <1>1
  <2> QED
    BY <2>1 DEF SelectedExamples
<1> HIDE DEF selected
<1>3. DOMAIN selected = 1 .. 4
  BY <1>2
<1>4. \A k \in 1 .. 4 : selected[k].prompt_tokens = chosen[selected[k].index]
  BY <1>2
<1>5. records = [k \in 1 .. 4 |-> Measured(dtype, selected[k], answer)]
  BY <1>1, <1>3 DEF Baseline, selected
<1>6. ASSUME NEW k \in 1 .. 4
      PROVE  records[k].prompt_tokens = chosen[records[k].dataset_index]
  <2>1. /\ selected[k].index \in DOMAIN lengths
        /\ lengths[selected[k].index] = selected[k].prompt_tokens
    BY <1>1, <1>3 DEF PromptsChanged
  <2>2. /\ records[k].prompt_tokens = answer[selected[k].index].prompt_tokens
        /\ records[k].dataset_index = selected[k].index
    <3>1. records[k] = Measured(dtype, selected[k], answer)
      BY <1>5
    <3>2. /\ Measured(dtype, selected[k], answer).prompt_tokens
              = answer[selected[k].index].prompt_tokens
          /\ Measured(dtype, selected[k], answer).dataset_index
              = selected[k].index
      BY DEF Measured
    <3> QED
      BY <3>1, <3>2
  <2> QED
    BY <1>4, <2>1, <2>2
<1> QED
  BY <1>5, <1>6

\* What is compared was asked alike: two runs of one selection, of whatever
\* data type and under whatever tokenizer, that were both not refused gave the
\* example of each compared record a prompt of the same number of tokens,
\* given an engine that counts a prompt as the tokenizer does.
THEOREM ComparedPromptsAlike ==
  ASSUME NEW n \in Nat, n >= 4, NEW chosen \in [0 .. n - 1 -> Nat],
         NEW before, NEW after, NEW answer1, NEW answer2, NEW auto, NEW int8,
         auto = Baseline("auto", SelectedExamples(chosen), before, answer1),
         int8 = Baseline("int8_per_token_head", SelectedExamples(chosen), after, answer2),
         auto # Raised, int8 # Raised,
         \A k \in DOMAIN before : answer1[k].prompt_tokens = before[k],
         \A k \in DOMAIN after : answer2[k].prompt_tokens = after[k],
         NEW i \in ComparedIndices(auto, int8, auto, int8)
  PROVE  /\ ByIndex(auto)[i].prompt_tokens = ByIndex(int8)[i].prompt_tokens
         /\ ComparisonRecord(i, auto, int8, auto, int8).prompt_tokens = chosen[i]
<1>1. i \in DOMAIN ByIndex(auto) /\ i \in DOMAIN ByIndex(int8)
  BY DEF ComparedIndices
<1>2. PICK k \in 1 .. 4 : auto[k].dataset_index = i /\ ByIndex(auto)[i] = auto[k]
  <2>1. DOMAIN auto = 1 .. 4
    BY BaselineRecords
  <2>2. \E o \in DOMAIN auto : auto[o].dataset_index = i /\ ByIndex(auto)[i] = auto[o]
    BY <1>1, <2>1, LastRecord, ZenonT(30)
  <2> QED
    BY <2>1, <2>2
<1>3. PICK m \in 1 .. 4 : int8[m].dataset_index = i /\ ByIndex(int8)[i] = int8[m]
  <2>1. DOMAIN int8 = 1 .. 4
    BY BaselineRecords
  <2>2. \E o \in DOMAIN int8 : int8[o].dataset_index = i /\ ByIndex(int8)[i] = int8[o]
    BY <1>1, <2>1, LastRecord, ZenonT(30)
  <2> QED
    BY <2>1, <2>2
<1>4. auto[k].prompt_tokens = chosen[i]
  <2>1. \A o \in 1 .. 4 : auto[o].prompt_tokens = chosen[auto[o].dataset_index]
    BY BaselineRecords, SMTT(30)
  <2> QED
    BY <1>2, <2>1
<1>5. int8[m].prompt_tokens = chosen[i]
  <2>1. \A o \in 1 .. 4 : int8[o].prompt_tokens = chosen[int8[o].dataset_index]
    BY BaselineRecords
  <2> QED
    BY <1>3, <2>1
<1> QED
  BY <1>2, <1>3, <1>4, <1>5 DEF ComparisonRecord

-----------------------------------------------------------------------------
(* run_math500_baseline.py.                                                *)

\* With a limit of at most the whole file no problem is answered twice in one
\* selection, also when a negative start counts from the end of the file.
THEOREM ProblemsOnce ==
  ASSUME NEW start \in Int, NEW limit \in 0 .. Problems,
         NEW i \in Indices(start, limit), NEW j \in Indices(start, limit),
         ProblemOf(i) = ProblemOf(j)
  PROVE  i = j
<1>1. i \in Int /\ j \in Int /\ i - j < 500 /\ j - i < 500
  BY DEF Indices, Problems
<1>2. i % 500 = j % 500
  BY DEF ProblemOf, Problems
<1> QED
  BY <1>1, <1>2

\* An answer that could not be verified is never counted as correct.
THEOREM ErrorsNeverCorrect ==
  ASSUME NEW index, NEW problem, NEW generated, NEW limit, NEW raises, NEW equal
  PROVE  LET record == MathRecord(index, problem, generated, limit, raises, equal)
         IN record.verification_error => ~record.correct
BY DEF MathRecord, Verified

\* So the answers that are correct and those that could not be verified are
\* different ones of the examples that are summed up.
THEOREM SummaryWithin ==
  ASSUME NEW n \in Nat, NEW records, DOMAIN records = 1 .. n,
         \A k \in 1 .. n : /\ records[k].correct \in BOOLEAN
                           /\ records[k].verification_error => ~records[k].correct
  PROVE  Where(records, LAMBDA r : r.correct)
           + Where(records, LAMBDA r : r.verification_error) <= n
<1> DEFINE right == {k \in 1 .. n : records[k].correct}
           failed == {k \in 1 .. n : records[k].verification_error}
<1>1. IsFiniteSet(1 .. n) /\ Cardinality(1 .. n) = n
  BY FS_Interval
<1>2. right \in SUBSET (1 .. n) /\ failed \in SUBSET (1 .. n) /\ right \cap failed = {}
  OBVIOUS
<1>3. right \cup failed \in SUBSET (1 .. n)
  BY <1>2
<1>4. /\ Where(records, LAMBDA r : r.correct) = Cardinality(right)
      /\ Where(records, LAMBDA r : r.verification_error) = Cardinality(failed)
  BY DEF Where
<1> HIDE DEF right, failed
<1>5. /\ IsFiniteSet(right) /\ IsFiniteSet(failed)
      /\ Cardinality(right \cup failed) <= n
  BY <1>1, <1>2, <1>3, FS_Subset
<1>6. Cardinality(right \cup failed) = Cardinality(right) + Cardinality(failed)
  <2>1. Cardinality(right \cap failed) = 0
    BY <1>2, FS_EmptySet
  <2>2. Cardinality(right \cup failed)
          = Cardinality(right) + Cardinality(failed) - Cardinality(right \cap failed)
    BY <1>5, FS_Union
  <2>3. Cardinality(right) \in Nat /\ Cardinality(failed) \in Nat
    BY <1>5, FS_CardinalityType
  <2> QED
    BY <2>1, <2>2, <2>3
<1> QED
  BY <1>4, <1>5, <1>6
=============================================================================
