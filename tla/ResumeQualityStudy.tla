-------------------------- MODULE ResumeQualityStudy --------------------------
(***************************************************************************)
(* The tables, checks and conclusions of the two notebooks about resume    *)
(* quality: analyze_gsm8k_resume_quality.ipynb (100 questions), once its   *)
(* data set is complete (PairedEvaluation), and the section of             *)
(* analyze_pressure_experiments.ipynb about 20 questions.                  *)
(*                                                                         *)
(* A log has the stamps of its lines, in seconds of the year, and the      *)
(* numbers of blocks of its hot->warm lines; a log that is not there has   *)
(* neither.  The residency of a session is the set of the entries of its   *)
(* request before it resumed, each with its KV group, its logical block    *)
(* and the set of its shadow HOT block.                                    *)
(***************************************************************************)
EXTENDS PairedEvaluation

Sets == INSTANCE FiniteSetsExt

-----------------------------------------------------------------------------
(* Rows of the tables.                                                     *)

\* Both stamps are given the year in which the run ended.
LogWall(log) ==
  IF Len(log.stamps) < 2
  THEN [seconds |-> {}, transitions |-> 0, changed |-> 0]
  ELSE [seconds |-> {log.stamps[Len(log.stamps)] - log.stamps[1]},
        transitions |-> Len(log.changed),
        changed |-> Sets!MapThenSumSet(LAMBDA k : log.changed[k], DOMAIN log.changed)]

ResidencyCounts(s) ==
  [blocks |-> Cardinality(s.residency),
   zeroBacked |-> Cardinality({e \in s.residency :
                                 /\ e.index < Len(s.blockIds)
                                 /\ s.blockIds[e.index + 1] = 0}),
   shadows |-> Cardinality({e \in s.residency : e.shadow # {}})]

SessionRecord(s, d) ==
  [batch |-> d.number, id |-> s.id, index |-> s.index, gold |-> s.gold,
   answer |-> IF IsExtractionFailure(s) THEN NoAnswer ELSE s.answer,
   exact |-> s.exact, parseFailure |-> s.parseFailure, turns |-> s.turns,
   error |-> s.error, eligible |-> s.exclusion = "none", tokens |-> s.tokens,
   readSteps |-> s.readSteps, observed |-> s.observed,
   confirmed |-> s.confirmed, hadWarm |-> s.hadWarm, complete |-> s.complete,
   residency |-> ResidencyCounts(s)]

FileRecord(d, mode) ==
  LET f == d.files[mode] IN
  [batch |-> d.number, start |-> d.start, mode |-> mode, passed |-> f.passed,
   errors |-> f.errors, async |-> f.async, sequential |-> f.sequential,
   selected |-> f.quality.selected, completed |-> f.quality.completed,
   exact |-> f.quality.exact, parseFailures |-> f.quality.parseFailures,
   hkv |-> f.hkv, wall |-> LogWall(f.log)]
Files(found, mode) == {FileRecord(d, mode) : d \in found}

\* paired_by_index: the row of question q in a mode.
Row(found, perBatch, mode, q) ==
  LET place == CHOOSE p \in found \X (1 .. perBatch) : IsAt(p[1], p[2], mode, q)
  IN SessionRecord(place[1].files[mode].sessions[place[2]], place[1])
Run(found, batches, perBatch, mode) ==
  [q \in 0 .. batches * perBatch - 1 |-> Row(found, perBatch, mode, q)]

PairedRecord(l, r) ==
  [index |-> l.index, id |-> l.id, gold |-> l.gold, batch |-> l.batch,
   extracted |-> [all_hot |-> ~IsExtractionFailure(l),
                  mixed |-> ~IsExtractionFailure(r)],
   exact |-> [all_hot |-> l.exact, mixed |-> r.exact],
   identicalTokens |-> l.tokens = r.tokens,
   identicalAnswers |-> AnswersIdentical(l, r),
   category |-> PairedCorrectness(l, r)]
Questions(hot, mix) == [q \in DOMAIN hot |-> PairedRecord(hot[q], mix[q])]

-----------------------------------------------------------------------------
(* What the notebook asserts of its tables.                                *)

PairsMatch(hot, mix) ==
  \A q \in DOMAIN hot : /\ hot[q].id = mix[q].id /\ hot[q].gold = mix[q].gold
                        /\ hot[q].batch = mix[q].batch

FileAccepted(f, perBatch) ==
  /\ f.passed /\ f.errors = 0 /\ f.async /\ f.sequential
  /\ f.selected = perBatch /\ f.completed = perBatch
  /\ \E seconds \in f.wall.seconds : seconds >= 0

CountsAgree(files, run) ==
  LET failed == {q \in DOMAIN run : run[q].parseFailure} IN
  /\ Sets!MapThenSumSet(LAMBDA f : f.exact, files) = Cardinality(Exact(run, DOMAIN run))
  /\ Sets!MapThenSumSet(LAMBDA f : f.parseFailures, files) = Cardinality(failed)
  /\ Cardinality({q \in DOMAIN run : AnswerOutcome(run[q]) = "extraction_failure"})
       = Cardinality(failed)

TablesAccepted(found, batches, perBatch) ==
  LET run(mode) == Run(found, batches, perBatch, mode) IN
  /\ PairsMatch(run("all-hot"), run("mixed"))
  /\ \A mode \in Mode :
       /\ \A f \in Files(found, mode) : FileAccepted(f, perBatch)
       /\ CountsAgree(Files(found, mode), run(mode))

\* A mixed session read the history it had in WARM, and nothing else was there.
MixedSessionAccepted(row) ==
  /\ row.confirmed /\ row.hadWarm /\ row.eligible /\ row.readSteps > 0
  /\ row.residency.blocks = row.complete /\ row.observed = row.complete
  /\ row.residency.zeroBacked = 0
  /\ row.residency.shadows = row.residency.blocks

MixedFileAccepted(f) ==
  /\ f.hkv.dtype = "int8" /\ f.hkv.dtypeBytes = 1 /\ f.hkv.warmObserved
  /\ f.hkv.storage > 0 /\ f.hkv.map > 0
  /\ f.hkv.finalWarm = 0 /\ f.hkv.cleanup /\ f.hkv.consistent
  /\ f.wall.changed = f.hkv.peakBlocks

AllHotFileAccepted(f) ==
  ~f.hkv.warmObserved /\ f.hkv.storage = 0 /\ f.wall.transitions = 0

HkvAccepted(found, batches, perBatch) ==
  /\ \A q \in 0 .. batches * perBatch - 1 :
       MixedSessionAccepted(Run(found, batches, perBatch, "mixed")[q])
  /\ \A f \in Files(found, "mixed") : MixedFileAccepted(f)
  /\ \A f \in Files(found, "all-hot") : AllHotFileAccepted(f)

ReadGaps(mix) == {q \in DOMAIN mix : mix[q].readSteps # Len(mix[q].tokens)}

\* WARM blocks at the peak that no evaluated session had.
BeyondEvaluated(f, mix) ==
  f.hkv.peakBlocks - Sets!MapThenSumSet(LAMBDA q : mix[q].residency.blocks,
                                   {q \in DOMAIN mix : mix[q].batch = f.batch})

-----------------------------------------------------------------------------
(* The tables and the panels of the figure.                                *)

PerformanceRow(files, run) ==
  LET most(value(_)) == Sets!Max({value(f) : f \in files}) IN
  [tokens |-> Sets!MapThenSumSet(LAMBDA q : Len(run[q].tokens), DOMAIN run),
   wall |-> Sets!MapThenSumSet(LAMBDA f : CHOOSE s \in f.wall.seconds : TRUE, files),
   allocated |-> most(LAMBDA f : f.hkv.allocated),
   reserved |-> most(LAMBDA f : f.hkv.reserved),
   storage |-> most(LAMBDA f : f.hkv.storage),
   peakBlocks |-> most(LAMBDA f : f.hkv.peakBlocks)]

BatchQuality(questions, batch) ==
  LET of == {q \in DOMAIN questions : questions[q].batch = batch} IN
  [questions |-> Cardinality(of),
   all_hot_exact |-> Cardinality({q \in of : questions[q].exact.all_hot}),
   mixed_exact |-> Cardinality({q \in of : questions[q].exact.mixed}),
   all_hot_failures |-> Cardinality({q \in of : ~questions[q].extracted.all_hot}),
   mixed_failures |-> Cardinality({q \in of : ~questions[q].extracted.mixed})]

Category(questions, category) ==
  {q \in DOMAIN questions : questions[q].category = category}
ExtractionFailures(questions) ==
  UNION {Category(questions, category) :
           category \in {"both_extraction_failure", "all_hot_extraction_failure",
                         "mixed_extraction_failure"}}
IdenticalTokens(questions) ==
  {q \in DOMAIN questions : questions[q].identicalTokens}
SameAnswerOtherText(questions) ==
  {q \in DOMAIN questions : /\ ~questions[q].identicalTokens
                            /\ questions[q].identicalAnswers}
DifferentAnswers(questions) ==
  {q \in DOMAIN questions : /\ ~questions[q].identicalAnswers
                            /\ questions[q].extracted.all_hot
                            /\ questions[q].extracted.mixed}

\* The questions that are listed one by one.
AnswerSplits(questions) ==
  Category(questions, "only_all_hot_correct") \union
  Category(questions, "only_mixed_correct") \union
  ExtractionFailures(questions) \union DifferentAnswers(questions)

OutcomePanel(questions) ==
  <<Category(questions, "both_correct"), Category(questions, "both_incorrect"),
    Category(questions, "only_mixed_correct"),
    Category(questions, "only_all_hot_correct"), ExtractionFailures(questions)>>
DivergencePanel(questions) ==
  <<IdenticalTokens(questions), SameAnswerOtherText(questions),
    {q \in Category(questions, "both_incorrect") : ~questions[q].identicalAnswers},
    Category(questions, "only_mixed_correct"),
    Category(questions, "only_all_hot_correct")>>

DivergenceSummary(questions) ==
  [identical_token_sequence |-> Cardinality(IdenticalTokens(questions)),
   identical_extracted_answer |->
     Cardinality({q \in DOMAIN questions : questions[q].identicalAnswers}),
   different_text_same_extracted_answer |->
     Cardinality(SameAnswerOtherText(questions)),
   different_extracted_answer |-> Cardinality(DifferentAnswers(questions)),
   categories |->
     [category \in {"both_correct", "both_incorrect", "only_all_hot_correct",
                    "only_mixed_correct", "both_extraction_failure",
                    "all_hot_extraction_failure", "mixed_extraction_failure"} |->
        Cardinality(Category(questions, category))]]

\* What is concluded of the difference in exact matches.
GapSentence(hot, mix) ==
  LET gap == ModeCounts(mix).exact_match - ModeCounts(hot).exact_match
      questions == Questions(hot, mix)
  IN [better |-> IF gap = 0 THEN "none" ELSE IF gap > 0 THEN "mixed" ELSE "all-hot",
      by |-> IF gap < 0 THEN -gap ELSE gap,
      only_hot |-> Cardinality(Category(questions, "only_all_hot_correct")),
      only_mix |-> Cardinality(Category(questions, "only_mixed_correct"))]

-----------------------------------------------------------------------------
(* The directories beside the one that is studied.  A directory has a path *)
(* and the words its name holds (begins with smoke, and so on).            *)

FailureHint(log) ==
  IF "no module experiments" \in log.says THEN "import failed before generation"
  ELSE IF "engine failed" \in log.says THEN "vLLM engine failed to start"
  ELSE IF log.says = {} THEN "log is empty"
  ELSE "see the log for the recorded error"

RunRole(dir, final, failedAttempts, prior) ==
  IF dir.path = final THEN "final 100-question aggregate"
  ELSE IF dir.path \in failedAttempts THEN "failed attempt"
  ELSE IF dir.path = prior THEN "earlier 20-question run"
  ELSE IF dir.words \cap {"^smoke", "debug", "retry"} # {} THEN "smoke, debug, or retry"
  ELSE IF "^preflight" \in dir.words THEN "preflight"
  ELSE IF "sync" \in dir.words THEN "synchronous-scheduling trial"
  ELSE "earlier or partial run"

\* A failed attempt left no result.
InventoryAccepted(dirs, failedAttempts) ==
  \A dir \in dirs : dir.path \in failedAttempts => dir.results = 0

SavedTables(hot, mix, files) ==
  LET questions == Questions(hot, mix) IN
  [gsm8k_quality_summary |->
     [quality |-> <<ModeCounts(hot), ModeCounts(mix)>>,
      performance |-> <<PerformanceRow(files["all-hot"], hot),
                        PerformanceRow(files["mixed"], mix)>>,
      pairing |-> DivergenceSummary(questions)],
   gsm8k_per_question |-> questions,
   gsm8k_divergent_answers |-> AnswerSplits(questions)]

-----------------------------------------------------------------------------
(* The section about 20 questions.  A file tells its mode itself: the name *)
(* of the file is not looked at.  A file has its sessions as a sequence.   *)

\* Of every batch directory both files are there, else the cell stops.
BothFiles(dirs) == \A d \in dirs : {"all_hot.json", "mixed.json"} \subseteq DOMAIN d.named
Loaded(dirs) ==
  UNION {{d.named[name] : name \in {"all_hot.json", "mixed.json"}} : d \in dirs}
OfKind(files, mode) == {f \in files : f.mode = mode}

SmallFilesAccepted(dirs, batches, questions) ==
  LET files == Loaded(dirs) IN
  /\ BothFiles(dirs) /\ Cardinality(dirs) = batches
  /\ \A f \in files : f.async /\ f.sequential /\ f.passed
                      /\ f.hkv.consistent /\ f.hkv.cleanup
  /\ Sets!MapThenSumSet(LAMBDA f : f.quality.eligible, OfKind(files, "mixed")) = questions
  /\ \A f \in OfKind(files, "mixed") : f.hkv.warmObserved

\* The sessions of a mode by question: the two modes have the same questions
\* as often, and a question that a mode has twice stops the pairing.
Places(files, mode) ==
  UNION {{<<f, k>> : k \in DOMAIN f.sessions} : f \in OfKind(files, mode)}
At(place) == place[1].sessions[place[2]]
SmallPairable(files, questions) ==
  /\ \A mode \in Mode :
       /\ Cardinality(Places(files, mode)) = questions
       /\ \A p, q \in Places(files, mode) : At(p).index = At(q).index => p = q
  /\ {At(p).index : p \in Places(files, "all-hot")} =
       {At(p).index : p \in Places(files, "mixed")}
SmallRun(files, mode) ==
  [q \in {At(p).index : p \in Places(files, mode)} |->
     At(CHOOSE p \in Places(files, mode) : At(p).index = q)]

PairsOf(hot, mix, class) == {q \in DOMAIN hot : PairClass(hot[q], mix[q]) = class}

SmallSummary(hot, mix) ==
  LET n == DOMAIN hot
      identical == {q \in n : hot[q].answer = mix[q].answer}
      count(S) == Cardinality(S)
  IN [questions |-> count(n),
      exact |-> <<count(Exact(hot, n)), count(Exact(mix, n))>>,
      parse |-> <<count({q \in n : hot[q].parseFailure}),
                  count({q \in n : mix[q].parseFailure})>>,
      answers |-> <<count(identical), count(n) - count(identical)>>,
      only |-> <<count(Exact(hot, n) \ Exact(mix, n)),
                 count(Exact(mix, n) \ Exact(hot, n))>>,
      both |-> <<count(Exact(hot, n) \cap Exact(mix, n)),
                 count(n \ (Exact(hot, n) \union Exact(mix, n)))>>,
      classes |-> <<count(PairsOf(hot, mix, "identical_extracted_answer")),
                    count(PairsOf(hot, mix, "divergent_same_correctness")),
                    count(PairsOf(hot, mix, "divergent_only_mixed_correct")),
                    count(PairsOf(hot, mix, "divergent_only_all_hot_correct"))>>]

\* The result of the study is written into the cell as well.
SmallResultAsserted(summary) ==
  /\ summary.exact = <<7, 8>> /\ summary.parse = <<1, 1>>
  /\ summary.answers = <<17, 3>> /\ summary.only = <<0, 1>>
  /\ summary.both = <<7, 12>> /\ summary.classes = <<17, 2, 1, 0>>

\* It saves under the names the study of 100 questions uses.
SmallTables(hot, mix) ==
  [gsm8k_quality_summary |-> SmallSummary(hot, mix),
   gsm8k_per_question |-> [mode \in Mode |-> IF mode = "mixed" THEN mix ELSE hot],
   gsm8k_divergent_answers |->
     DOMAIN hot \ PairsOf(hot, mix, "identical_extracted_answer")]
=============================================================================
