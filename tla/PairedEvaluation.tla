--------------------------- MODULE PairedEvaluation ---------------------------
(***************************************************************************)
(* What a resume-quality run concludes from its sessions, and what the two *)
(* notebooks make of a pair of runs (all-HOT, mixed) over the same         *)
(* questions.  Three programs classify the same pairs:                     *)
(*   hkv_gsm8k.py pair_quality               the driver's own report       *)
(*   analyze_gsm8k_resume_quality.ipynb      the study of 100 questions    *)
(*   analyze_pressure_experiments.ipynb      the study of 20 questions     *)
(* A run is a function from session ids to result records; an answer is a  *)
(* number, NoAnswer when none could be extracted.  The notebook of the     *)
(* MATH-500 runs pairs two runs of another program by row number.          *)
(***************************************************************************)
EXTENDS Integers, FiniteSets, Sequences

NoAnswer == -9999999

-----------------------------------------------------------------------------
(* The driver: when does a mixed session count?                            *)

\* The logical blocks of a request in the residency the worker reports.
WarmIndices(residency, request) ==
  {e.index : e \in {x \in residency : x.request = request /\ x.group = 0}}

\* The tail may stay HOT; a history without a complete block never counts.
CompleteBlocksAreWarm(complete, residency, request, numBlocks) ==
  /\ complete > 0
  /\ 0 .. complete - 1 \subseteq WarmIndices(residency, request)
  /\ numBlocks >= complete

\* Mixed reads of turn 2: the counter after the run, if there is one, against
\* the one before the resume.
HadWarmSlots(before, after) ==
  (IF after = {} THEN before ELSE CHOOSE n \in after : TRUE) > before

ExclusionReason(complete, confirmed, hadWarm) ==
  IF complete <= 0 THEN "no_complete_historical_blocks"
  ELSE IF ~confirmed THEN "not_warm_before_resume"
  ELSE IF ~hadWarm THEN "no_resumed_mixed_read_step"
  ELSE "none"

\* One session as the driver leaves it: snapshot before turn 2, counters,
\* answer.
SessionQuality(mixed, s) ==
  LET confirmed == mixed /\ CompleteBlocksAreWarm(s.complete, s.residency,
                                                 s.id, s.numBlocks)
      hadWarm == HadWarmSlots(s.before, s.after)
  IN [answer |-> s.answer, gold |-> s.gold,
      parseFailure |-> s.answer = NoAnswer,
      exact |-> s.answer # NoAnswer /\ s.answer = s.gold,
      confirmed |-> confirmed, hadWarm |-> hadWarm,
      exclusion |-> IF mixed
                    THEN ExclusionReason(s.complete, confirmed, hadWarm)
                    ELSE "none",
      turns |-> s.turns, error |-> s.error]

Exact(run, ids) == {i \in ids : run[i].exact}
Eligible(mixed, run) ==
  {i \in DOMAIN run : mixed => run[i].exclusion = "none"}

\* quality_summary: of the eligible sessions, how many are exact and how many
\* gave no answer; and what the verdict of a mixed run asks of them.
Summary(mixed, run) ==
  LET eligible == Eligible(mixed, run) IN
  [selected |-> Cardinality(DOMAIN run),
   eligible |-> Cardinality(eligible),
   exact |-> Cardinality(Exact(run, eligible)),
   parseFailures |-> Cardinality({i \in eligible : run[i].parseFailure})]

SummaryRefused(mixed, run) == mixed /\ Summary(mixed, run).eligible = 0

-----------------------------------------------------------------------------
(* The driver: pair_quality.                                               *)

Missing(hot, mix) == DOMAIN hot \ DOMAIN mix
Paired(hot, mix) ==
  {i \in DOMAIN hot \cap DOMAIN mix : mix[i].exclusion = "none"}

Identical(hot, mix) == {i \in Paired(hot, mix) : hot[i].answer = mix[i].answer}
Divergent(hot, mix) == Paired(hot, mix) \ Identical(hot, mix)

BothCorrect(hot, mix) == {i \in Paired(hot, mix) : hot[i].exact /\ mix[i].exact}
OnlyAllHot(hot, mix) == {i \in Paired(hot, mix) : hot[i].exact /\ ~mix[i].exact}
OnlyMixed(hot, mix) == {i \in Paired(hot, mix) : mix[i].exact /\ ~hot[i].exact}
BothWrong(hot, mix) == {i \in Paired(hot, mix) : ~hot[i].exact /\ ~mix[i].exact}

-----------------------------------------------------------------------------
(* The notebook of 100 questions: how a session, and a pair, is called.    *)

QuestionStatus(s) ==
  IF s.error = "timeout" THEN "timed_out"
  ELSE IF s.error # "none" \/ s.turns < 2 THEN "failed"
  ELSE "completed"

IsExtractionFailure(s) == s.parseFailure \/ s.answer = NoAnswer

AnswerOutcome(s) ==
  IF QuestionStatus(s) # "completed" THEN QuestionStatus(s)
  ELSE IF IsExtractionFailure(s) THEN "extraction_failure"
  ELSE IF s.exact THEN "exact_match" ELSE "incorrect"

Correctness(l, r) ==
  IF l.exact THEN IF r.exact THEN "both_correct" ELSE "only_all_hot_correct"
  ELSE IF r.exact THEN "only_mixed_correct" ELSE "both_incorrect"

PairedCorrectness(l, r) ==
  LET statuses == {QuestionStatus(l), QuestionStatus(r)} IN
  IF "timed_out" \in statuses THEN "timed_out"
  ELSE IF "failed" \in statuses THEN "failed"
  ELSE IF IsExtractionFailure(l)
       THEN IF IsExtractionFailure(r) THEN "both_extraction_failure"
                                      ELSE "all_hot_extraction_failure"
  ELSE IF IsExtractionFailure(r) THEN "mixed_extraction_failure"
  ELSE Correctness(l, r)

\* Two sessions without an answer do not give the same one here.
AnswersIdentical(l, r) ==
  ~IsExtractionFailure(l) /\ ~IsExtractionFailure(r) /\ l.answer = r.answer

ModeCounts(run) ==
  LET number(is(_)) == Cardinality({i \in DOMAIN run : is(run[i])}) IN
  [questions |-> Cardinality(DOMAIN run),
   completed |-> number(LAMBDA s : QuestionStatus(s) = "completed"),
   failed |-> number(LAMBDA s : QuestionStatus(s) = "failed"),
   timed_out |-> number(LAMBDA s : QuestionStatus(s) = "timed_out"),
   extraction_success |-> number(LAMBDA s : ~IsExtractionFailure(s)),
   extraction_failures |-> number(IsExtractionFailure),
   incorrect |-> number(LAMBDA s : AnswerOutcome(s) = "incorrect"),
   exact_match |-> Cardinality(Exact(run, DOMAIN run))]

(* The notebook of 20 questions.                                           *)
PairClass(l, r) ==
  IF l.answer = r.answer THEN "identical_extracted_answer"
  ELSE IF r.exact /\ ~l.exact THEN "divergent_only_mixed_correct"
  ELSE IF l.exact /\ ~r.exact THEN "divergent_only_all_hot_correct"
  ELSE "divergent_same_correctness"

-----------------------------------------------------------------------------
(* The notebook of 100 questions: is the data set complete?  A batch       *)
(* directory has a number, a first question and a file per mode; a file is *)
(* present, parses and has its fields (whole), or not.  A session's id is  *)
(* the question index it spells.                                           *)

Mode == {"all-hot", "mixed"}

\* The directories found are those expected, and none twice.
BatchesExpected(found, batches, perBatch) ==
  /\ {<<d.number, d.start>> : d \in found} =
       {<<b, (b - 1) * perBatch>> : b \in 1 .. batches}
  /\ \A d, e \in found : d.number = e.number => d = e

FileSound(d, mode, perBatch) ==
  LET file == d.files[mode] IN
  /\ file.whole /\ file.passed /\ file.mode = mode
  /\ file.start = d.start /\ file.num = perBatch
  /\ DOMAIN file.sessions = 1 .. perBatch
  /\ \A k \in 1 .. perBatch : /\ file.sessions[k].index = d.start + k - 1
                              /\ file.sessions[k].id = file.sessions[k].index

SameQuestions(d, perBatch) ==
  \A k \in 1 .. perBatch :
    LET l == d.files["all-hot"].sessions[k]
        r == d.files["mixed"].sessions[k]
    IN l.index = r.index /\ l.id = r.id /\ l.gold = r.gold

\* The cell also refuses a marker of a failed attempt, other directories and
\* missing logs, which say nothing of the questions.
DatasetComplete(found, batches, perBatch) ==
  /\ BatchesExpected(found, batches, perBatch)
  /\ \A d \in found : /\ \A mode \in Mode : FileSound(d, mode, perBatch)
                      /\ SameQuestions(d, perBatch)

\* Question q is the k-th session of the file of a mode: paired_by_index keeps
\* one such place, and the checks for duplicates and gaps look for others.
IsAt(d, k, mode, q) ==
  /\ k \in DOMAIN d.files[mode].sessions
  /\ d.files[mode].sessions[k].index = q

-----------------------------------------------------------------------------
(* The MATH-500 notebook: two runs, a sequence of 0 and 1 each, of the same *)
(* length; the merge on the row numbers keeps every row.                    *)

Correct(run) == {row \in DOMAIN run : run[row] = 1}

MathOutcomes(fp16, int8) ==
  LET f == Correct(fp16)  q == Correct(int8) IN
  [both_correct |-> Cardinality(f \cap q),
   fp16_only    |-> Cardinality(f \ q),
   int8_only    |-> Cardinality(q \ f),
   both_wrong   |-> Cardinality(DOMAIN fp16 \ (f \cup q))]
=============================================================================
