------------------------------ MODULE MathStudy ------------------------------
(***************************************************************************)
(* 03_math500_fp16_int8_analysis.ipynb: two runs over MATH-500, with and   *)
(* without a quantized cache, paired by problem, and the statistics of the *)
(* difference.                                                             *)
(*                                                                         *)
(* A file has a kind and the records in it; a record is a function from    *)
(* the columns it has to values.  The value of a metric is the set of its  *)
(* number, empty when it cannot be read as one; numbers are fractions      *)
(* <<n, d>> with d > 0.                                                    *)
(***************************************************************************)
EXTENDS PairedEvaluation

LOCAL INSTANCE TLC
LOCAL INSTANCE FiniteSetsExt
LOCAL INSTANCE SequencesExt
LOCAL INSTANCE Combinatorics

Column == INSTANCE PressureStudy

-----------------------------------------------------------------------------
(* From a file to a run.                                                   *)

\* load_results: the records, or nothing when the cell stops.
LoadResults(file) ==
  LET lines == SelectSeq(file.lines, LAMBDA line : line.text # "blank")
      named == SelectSeq(<<"results", "examples", "data", "items">>,
                         LAMBDA key : key \in DOMAIN file.lists)
  IN CASE file.kind \in {"csv", "json list"} -> {file.rows}
       [] /\ file.kind = "jsonl"
          /\ \A n \in DOMAIN lines : lines[n].text = "object" ->
            {[n \in DOMAIN lines |-> lines[n].row]}
       [] file.kind = "json object" /\ named # <<>> -> {file.lists[Head(named)]}
       [] OTHER -> {}

\* The names a column may have, the first that is there is taken.
ColumnCandidates ==
  [problem_id |-> <<"problem_id", "id", "sample_id", "example_id", "index", "idx">>,
   correct |-> <<"correct", "is_correct", "exact_match", "em", "accuracy">>,
   latency_s |-> <<"latency_s", "latency", "elapsed_seconds", "generation_time_s",
                   "runtime_s">>,
   generated_tokens |-> <<"generated_tokens", "num_generated_tokens",
                          "output_tokens", "completion_tokens">>,
   peak_memory_mb |-> <<"peak_memory_mb", "gpu_peak_memory_mb", "max_memory_mb",
                        "memory_mb">>]
OptionalMetrics == {"latency_s", "generated_tokens", "peak_memory_mb"}

FindColumn(rows, name) ==
  LET present == UNION {DOMAIN rows[n] : n \in DOMAIN rows}
      found == SelectSeq(ColumnCandidates[name], LAMBDA column : column \in present)
  IN IF found = <<>> THEN {} ELSE {Head(found)}
Cell(row, column) == IF column \in DOMAIN row THEN row[column] ELSE {}

\* A score that is no number is wrong, and one below 1 is cut to 0.
Score(value) == IF value = {} THEN 0
                ELSE LET v == CHOOSE v \in value : TRUE
                     IN IF v[1] < 0 THEN -((-v[1]) \div v[2]) ELSE v[1] \div v[2]

\* normalize_results, of rows that have a column for the score (the cell stops
\* otherwise).  Without a column of ids a row is known by its number.
NormalizeResults(rows) ==
  LET column(name) == CHOOSE c \in FindColumn(rows, name) : TRUE
      metrics == {name \in OptionalMetrics : FindColumn(rows, name) # {}}
  IN [n \in DOMAIN rows |->
        [problem_id |-> IF FindColumn(rows, "problem_id") = {} THEN {n - 1}
                        ELSE Cell(rows[n], column("problem_id")),
         correct |-> Score(Cell(rows[n], column("correct"))),
         metrics |-> [name \in metrics |-> Cell(rows[n], column(name))]]]

-----------------------------------------------------------------------------
(* What is checked of two runs, and their pairs.                           *)

ProblemIds(run) == {run[n].problem_id : n \in DOMAIN run}
SingleRunValid(run, expected) ==
  /\ Len(run) = expected
  /\ \A n, k \in DOMAIN run : run[n].problem_id = run[k].problem_id => n = k
  /\ \A n \in DOMAIN run : run[n].correct \in {0, 1}
RunsValid(fp16, int8, expected) ==
  /\ SingleRunValid(fp16, expected) /\ SingleRunValid(int8, expected)
  /\ ProblemIds(fp16) = ProblemIds(int8)

Of(run, id) == run[CHOOSE n \in DOMAIN run : run[n].problem_id = id]
Merged(fp16, int8) ==
  [id \in ProblemIds(fp16) \cap ProblemIds(int8) |->
     [fp16 |-> Of(fp16, id), int8 |-> Of(int8, id)]]

Scores(pairs, run) == [id \in DOMAIN pairs |-> pairs[id][run].correct]
CorrectIn(pairs, run) == MapThenSumSet(LAMBDA id : Scores(pairs, run)[id], DOMAIN pairs)
Outcomes(pairs) == MathOutcomes(Scores(pairs, "fp16"), Scores(pairs, "int8"))

AccuracySummary(pairs) ==
  LET total == Cardinality(DOMAIN pairs)
      of(run) == [correct |-> CorrectIn(pairs, run), total |-> total,
                  accuracy |-> <<CorrectIn(pairs, run), total>>]
  IN [fp16 |-> of("fp16"), int8 |-> of("int8"),
      difference |-> <<CorrectIn(pairs, "int8") - CorrectIn(pairs, "fp16"), total>>]

-----------------------------------------------------------------------------
(* The statistics of the difference.                                       *)

\* Both runs are resampled at the same n problems, some of them repeatedly.
Resampled(pairs, sample) ==
  <<MapThenSumSet(LAMBDA k : Scores(pairs, "int8")[sample[k]]
                             - Scores(pairs, "fp16")[sample[k]], DOMAIN sample),
    Cardinality(DOMAIN pairs)>>

\* The share of a thousand of a sample, between its neighbours in proportion.
Percentile(values, thousandth) ==
  LET sorted == SortSeq(values, LAMBDA v, w : v[1] < w[1])
      at == (Len(sorted) - 1) * thousandth
      low == sorted[at \div 1000 + 1]
      high == sorted[Min({at \div 1000 + 2, Len(sorted)})]
  IN <<low[1] * (1000 - (at % 1000)) + high[1] * (at % 1000), 1000 * low[2]>>

\* The generator gives some samples.
Bootstrap(pairs, samples) ==
  LET differences == [s \in DOMAIN samples |-> Resampled(pairs, samples[s])] IN
  [point |-> AccuracySummary(pairs).difference,
   low |-> Percentile(differences, 25), high |-> Percentile(differences, 975)]

ExactMcNemar(fp16Only, int8Only) ==
  LET discordant == fp16Only + int8Only
      tail == MapThenSumSet(LAMBDA k : choose(discordant, k),
                            0 .. Min({fp16Only, int8Only}))
  IN IF discordant = 0 THEN <<1, 1>>
     ELSE <<Min({2 * tail, 2 ^ discordant}), 2 ^ discordant>>

\* A metric is summarised if both runs have it.
MedianOf(values) ==
  LET sorted == SortSeq(SetToSeq({<<values[id], id>> : id \in DOMAIN values}),
                        LAMBDA v, w : v[1][1] * w[1][2] < w[1][1] * v[1][2])
      n == Len(sorted)
      sum == Column!Plus(sorted[(n + 1) \div 2][1], sorted[n \div 2 + 1][1])
  IN <<sum[1], 2 * sum[2]>>
MetricColumn(pairs, run, metric) ==
  LET of(id) == pairs[id][run].metrics[metric] IN
  [id \in {i \in DOMAIN pairs : of(i) # {}} |-> CHOOSE v \in of(id) : TRUE]
SummarizeOptionalMetric(pairs, metric) ==
  LET some(values, least, value) ==
        IF Cardinality(DOMAIN values) < least THEN {} ELSE {value}
      summary(values) ==
        [mean |-> some(values, 1, Column!MeanOf(values)),
         median |-> some(values, 1, MedianOf(values)),
         variance |-> some(values, 2, Column!VarianceOf(values)),
         min |-> some(values, 1, Column!LeastOf(values)),
         max |-> some(values, 1, Column!GreatestOf(values))]
  IN IF \A id \in DOMAIN pairs, run \in {"fp16", "int8"} :
          metric \in DOMAIN pairs[id][run].metrics
     THEN {[run \in {"fp16", "int8"} |-> summary(MetricColumn(pairs, run, metric))]}
     ELSE {}

\* What is saved, and the numbers the last cell expects.
StatisticsSummary(pairs, samples) ==
  [num_examples |-> Cardinality(DOMAIN pairs),
   accuracy |-> AccuracySummary(pairs),
   bootstrap_ci_95 |-> <<Bootstrap(pairs, samples).low, Bootstrap(pairs, samples).high>>,
   paired_outcomes |-> Outcomes(pairs),
   exact_mcnemar_pvalue |-> ExactMcNemar(Outcomes(pairs).fp16_only,
                                         Outcomes(pairs).int8_only)]
ResultReproduced(pairs) ==
  /\ CorrectIn(pairs, "fp16") = 224 /\ CorrectIn(pairs, "int8") = 218
  /\ Outcomes(pairs) = [both_correct |-> 167, fp16_only |-> 57,
                        int8_only |-> 51, both_wrong |-> 225]
=============================================================================
