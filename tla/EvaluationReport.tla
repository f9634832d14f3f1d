--------------------------- MODULE EvaluationReport ---------------------------
(***************************************************************************)
(* What the single-model experiments make of their inputs and outputs:     *)
(*   inspect_qasper_e_lengths.py     chooses four examples by length       *)
(*   run_qasper_e_baseline.py        answers them under one KV data type   *)
(*   analyze_qasper_e_baseline.py    compares the two data types           *)
(*   run_math500_baseline.py         selects, judges and sums up           *)
(*   run_concurrency.py, run_prompt_lengths.py, run_kv_experiment.py       *)
(* How the two long evaluations survive being killed is in                 *)
(* ResumableEvaluation.                                                    *)
(*                                                                         *)
(* Examples and problems are counted from 0, as in the files.  A rate is a *)
(* pair <<numerator, denominator>>.  A program that raises leaves Raised.  *)
(***************************************************************************)
EXTENDS Integers, Sequences, FiniteSets, SequencesExt

CONSTANTS Raised,       \* What is left of a program that raised.
          Absent,       \* A field without a value.
          Articles,     \* The words a, an and the.
          Bare(_),      \* A word in lower case, without its punctuation.
          Blank         \* What Bare leaves of a word of punctuation.

Rate(n, seconds) == <<n, seconds>>
GuardedRate(n, seconds) == IF seconds > 0 THEN <<n, seconds>> ELSE <<0, 1>>

-----------------------------------------------------------------------------
(* inspect_qasper_e_lengths.py.  lengths maps each example to the tokens   *)
(* of its prompt.                                                          *)

BucketLimits == {2048, 4096, 8192, 16384, 32768}

\* 0 stands for "0-2K", 5 for ">32K".
Bucket(tokens) == Cardinality({limit \in BucketLimits : tokens > limit})
BucketCount(lengths, bucket) ==
  Cardinality({i \in DOMAIN lengths : Bucket(lengths[i]) = bucket})

\* Python rounds a tie to the even neighbour.
RoundEven(n, d) ==
  LET low == n \div d
      twice == 2 * (n % d)
  IN IF twice < d \/ (twice = d /\ low % 2 = 0) THEN low ELSE low + 1

\* The position of a percentile among n sorted lengths, from 0.
PercentilePosition(n, percent) == RoundEven((n - 1) * percent, 100)

Distance(a, b) == IF a < b THEN b - a ELSE a - b

\* min returns the first of the closest that are not used.
Closest(lengths, used, target) ==
  CHOOSE i \in DOMAIN lengths \ used :
    \A j \in DOMAIN lengths \ used :
      LET di == Distance(lengths[i], target)
          dj == Distance(lengths[j], target)
      IN di < dj \/ (di = dj /\ i <= j)

Targets == <<2048, 4096, 8192, 16384>>

\* main: four examples near the four targets, each used once; with fewer than
\* four examples min raises on an empty list.
Selection(lengths) ==
  LET i1 == Closest(lengths, {}, Targets[1])
      i2 == Closest(lengths, {i1}, Targets[2])
      i3 == Closest(lengths, {i1, i2}, Targets[3])
      i4 == Closest(lengths, {i1, i2, i3}, Targets[4])
  IN <<i1, i2, i3, i4>>

SelectedExamples(lengths) ==
  IF Cardinality(DOMAIN lengths) < 4 THEN Raised
  ELSE [n \in 1 .. 4 |->
          LET i == Selection(lengths)[n] IN
          [target_tokens |-> Targets[n], index |-> i,
           prompt_tokens |-> lengths[i], bucket |-> Bucket(lengths[i])]]

-----------------------------------------------------------------------------
(* run_qasper_e_baseline.py, with the examples inspect has chosen.  answer *)
(* maps an example to what the engine returns: the text, its tokens, the   *)
(* seconds, and the number of tokens the engine itself made of the prompt. *)

\* load_jsonl stops at the first line that is no JSON.
Rows(file) ==
  LET given == SelectSeq(file, LAMBDA line : line # "blank") IN
  IF \E n \in DOMAIN given : given[n] = "broken" THEN Raised ELSE given

\* The dataset or the tokenizer has changed since the examples were chosen.
PromptsChanged(selected, lengths) ==
  \E n \in DOMAIN selected :
    \/ selected[n].index \notin DOMAIN lengths
    \/ lengths[selected[n].index] # selected[n].prompt_tokens

Measured(dtype, example, answer) ==
  LET a == answer[example.index] IN
  [kv_cache_dtype |-> dtype, dataset_index |-> example.index,
   target_prompt_tokens |-> example.target_tokens,
   prompt_tokens |-> a.prompt_tokens, output_tokens |-> a.tokens,
   generation_time_seconds |-> a.seconds,
   output_tokens_per_second |-> GuardedRate(a.tokens, a.seconds),
   total_tokens_per_second |->
     GuardedRate(a.prompt_tokens + a.tokens, a.seconds),
   reference_answers |-> a.references, generated_text |-> a.text]

\* Both files are written when every example has been answered: a run that
\* raises on the last one leaves those of the run before.
Baseline(dtype, selected, lengths, answer) ==
  IF selected = Raised \/ PromptsChanged(selected, lengths) THEN Raised
  ELSE [n \in DOMAIN selected |-> Measured(dtype, selected[n], answer)]

-----------------------------------------------------------------------------
(* analyze_qasper_e_baseline.py.                                           *)

\* normalize_answer and split.
Normal(text) ==
  SelectSeq([n \in DOMAIN text |-> Bare(text[n])],
            LAMBDA word : word \notin Articles \cup {Blank})

\* A multiset of words as a set: the k-th occurrence of each.
Occurrences(words) ==
  {<<words[n], Cardinality({m \in 1 .. n : words[m] = words[n]})>> :
     n \in DOMAIN words}
SharedTokens(p, r) == Cardinality(Occurrences(p) \cap Occurrences(r))

\* token_f1 as a fraction: 2PR/(P+R) with P = s/|p| and R = s/|r| is
\* 2s/(|p|+|r|).
TokenF1(p, r) ==
  IF p = <<>> \/ r = <<>> THEN IF p = r THEN <<1, 1>> ELSE <<0, 1>>
  ELSE IF SharedTokens(p, r) = 0 THEN <<0, 1>>
  ELSE <<2 * SharedTokens(p, r), Len(p) + Len(r)>>

AtMost(a, b) == a[1] * b[2] <= b[1] * a[2]

\* qa_f1: the best of the references.
QaF1(prediction, references) ==
  IF references = {} THEN <<0, 1>>
  ELSE LET scores == {TokenF1(Normal(prediction), Normal(r)) : r \in references}
       IN CHOOSE best \in scores : \A score \in scores : AtMost(score, best)

\* load_csv and load_jsonl keep the last row of an index.
ByIndex(records) ==
  [i \in {records[n].dataset_index : n \in DOMAIN records} |->
     records[CHOOSE n \in DOMAIN records :
               /\ records[n].dataset_index = i
               /\ \A m \in DOMAIN records :
                    records[m].dataset_index = i => m <= n]]

\* A CSV holds the measurements of a record, a JSONL also its texts.  They
\* are files of their own: a run killed between the two leaves them unequal.
ComparedIndices(autoCsv, int8Csv, autoJsonl, int8Jsonl) ==
  DOMAIN ByIndex(autoCsv) \cap DOMAIN ByIndex(int8Csv)
    \cap DOMAIN ByIndex(autoJsonl) \cap DOMAIN ByIndex(int8Jsonl)

ChangeOf(from, to) == <<to - from, from>>

ComparisonRecord(i, autoCsv, int8Csv, autoJsonl, int8Jsonl) ==
  LET am == ByIndex(autoCsv)[i]    im == ByIndex(int8Csv)[i]
      ao == ByIndex(autoJsonl)[i]  io == ByIndex(int8Jsonl)[i]
  IN [dataset_index |-> i, prompt_tokens |-> am.prompt_tokens,
      auto_output_tokens |-> am.output_tokens,
      int8_output_tokens |-> im.output_tokens,
      int8_time_change |->
        ChangeOf(am.generation_time_seconds, im.generation_time_seconds),
      auto_f1 |-> QaF1(ao.generated_text, ao.reference_answers),
      int8_f1 |-> QaF1(io.generated_text, ao.reference_answers),
      outputs_identical |-> ao.generated_text = io.generated_text]

\* Without a common example there is no first record to name the columns.
Comparison(autoCsv, int8Csv, autoJsonl, int8Jsonl) ==
  LET common == ComparedIndices(autoCsv, int8Csv, autoJsonl, int8Jsonl)
      tokens(i) == ByIndex(autoCsv)[i].prompt_tokens
  IN IF common = {} THEN Raised
     ELSE LET order == SetToSortSeq(common, LAMBDA i, j : tokens(i) < tokens(j))
          IN [n \in DOMAIN order |->
                ComparisonRecord(order[n], autoCsv, int8Csv, autoJsonl, int8Jsonl)]

-----------------------------------------------------------------------------
(* run_math500_baseline.py.                                                *)

Problems == 500

\* main takes --start-index as it is given: a negative one counts from the end
\* of the file, below -500 the first example raises.
Indices(start, limit) ==
  start .. (IF start + limit < Problems THEN start + limit ELSE Problems) - 1
ProblemOf(index) == index % Problems
IndexRaises(start, limit) == \E i \in Indices(start, limit) : i < -Problems

\* extract_final_response: a text is the sequence of its parts between closing
\* tags, a part NIL when only spaces are left.
FinalResponse(parts) == parts[Len(parts)]

\* verify_math_answer: an answer that cannot be parsed or compared is wrong.
Verified(gold, answer, raises, equal) ==
  IF raises[<<gold, answer>>] THEN [correct |-> FALSE, verification_error |-> TRUE]
  ELSE [correct |-> equal[<<gold, answer>>], verification_error |-> FALSE]

MathRecord(index, problem, generated, limit, raises, equal) ==
  LET final == FinalResponse(generated.parts)
      judged == Verified(problem.answer, final, raises, equal)
  IN [dataset_index |-> index, level |-> problem.level,
      subject |-> problem.subject, final_response |-> final,
      correct |-> judged.correct,
      verification_error |-> judged.verification_error,
      output_tokens |-> generated.tokens,
      reached_max_tokens |-> generated.tokens >= limit]

Where(records, is(_)) == Cardinality({n \in DOMAIN records : is(records[n])})

\* groupby leaves out the rows whose key is missing.
GroupSummary(records, key(_)) ==
  [k \in {key(records[n]) : n \in DOMAIN records} \ {Absent} |->
     [examples |-> Where(records, LAMBDA r : key(r) = k),
      correct |-> Where(records, LAMBDA r : key(r) = k /\ r.correct)]]

\* print_summary: of all the records of the file, those of earlier invocations
\* and of any selection among them.
MathSummary(records) ==
  IF records = <<>> THEN Absent
  ELSE [examples |-> Len(records),
        correct |-> Where(records, LAMBDA r : r.correct),
        truncated |-> Where(records, LAMBDA r : r.reached_max_tokens),
        verification_errors |-> Where(records, LAMBDA r : r.verification_error),
        by_level |-> GroupSummary(records, LAMBDA r : r.level),
        by_subject |-> GroupSummary(records, LAMBDA r : r.subject)]

-----------------------------------------------------------------------------
(* The engine measurements.  recoded maps a number of tokens to the number *)
(* that its text, decoded and encoded again, has: the tokenizer need not   *)
(* return to the same one.                                                 *)

ServedLen == 2048
BatchSizes == <<40, 48, 56, 64>>
ConcurrencyPrompt == 1024
PromptLengths == <<128, 512, 1024, 1536>>

\* build_prompt of both scripts; base is the length of the repeated text.
BuildPrompt(base, target, recoded) ==
  IF base < target THEN Raised ELSE recoded[target]

\* An engine accepts a prompt that leaves room for a token.
Served(tokens) == tokens < ServedLen

\* run_concurrency.py: each batch is run twice, the second time is measured;
\* a result file without a directory raises before the first batch.
ConcurrencyResults(dtype, inDirectory, base, recoded, outputs, seconds) ==
  LET actual == BuildPrompt(base, ConcurrencyPrompt, recoded) IN
  IF actual = Raised \/ ~inDirectory \/ ~Served(actual) THEN Raised
  ELSE [n \in DOMAIN BatchSizes |->
          LET batch == BatchSizes[n]
              input == actual * batch
          IN [kv_cache_dtype |-> dtype, concurrent_requests |-> batch,
              prompt_tokens_per_request |-> actual,
              total_input_tokens |-> input, total_output_tokens |-> outputs[n],
              requests_per_second |-> Rate(batch, seconds[n]),
              output_tokens_per_second |-> Rate(outputs[n], seconds[n]),
              total_tokens_per_second |-> Rate(input + outputs[n], seconds[n])]]

\* run_prompt_lengths.py: one request for each length.
PromptLengthResults(dtype, inDirectory, base, recoded, outputs, seconds) ==
  LET actual(n) == BuildPrompt(base, PromptLengths[n], recoded) IN
  IF ~inDirectory \/ \E n \in DOMAIN PromptLengths :
                       actual(n) = Raised \/ ~Served(actual(n))
  THEN Raised
  ELSE [n \in DOMAIN PromptLengths |->
          [kv_cache_dtype |-> dtype, prompt_tokens |-> actual(n),
           generated_tokens |-> outputs[n],
           output_tokens_per_second |-> Rate(outputs[n], seconds[n])]]

\* run_kv_experiment.py: one prompt, and a file only when one is asked for.
KvResult(dtype, model, save, output, seconds) ==
  IF ~save THEN Absent
  ELSE [model |-> model, kv_cache_dtype |-> dtype, generated_tokens |-> output,
        throughput_tokens_per_second |-> Rate(output, seconds)]
=============================================================================
