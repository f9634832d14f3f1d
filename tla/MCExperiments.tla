---------------------------- MODULE MCExperiments ----------------------------
(* The three experiment drivers that run an engine.  A behaviour is a run  *)
(* of one of them; the others stand at their end, unused.                  *)
EXTENDS TraceReplay, ResumeQuality, SmokeRun

LOCAL INSTANCE TLC

CONSTANTS Raised, Absent

Turns(s) == IF s = 1 THEN 3 ELSE 2

Lower(word) == word
Told == INSTANCE EvaluationReport
          WITH Bare <- Lower, Blank <- "", Articles <- {"the"}

\* The definitions behind the scores and selections are those intended, on
\* small texts and lengths: an F1 of one means the same words as often, in any
\* order, and two runs over unchanged data are compared example by example.
ScoresAsIntended ==
  LET texts == UNION {[1 .. n -> {"x", "y"}] : n \in 0 .. 3}
      times(text, word) == Cardinality({n \in DOMAIN text : text[n] = word})
  IN \A p, r \in texts :
       /\ Cardinality(Told!Occurrences(p)) = Len(p)
       /\ Told!TokenF1(p, r) = Told!TokenF1(r, p)
       /\ Told!AtMost(<<1, 1>>, Told!TokenF1(p, r)) <=>
            \A word \in {"x", "y"} : times(p, word) = times(r, word)
ComparedAsIntended ==
  \A lengths \in [0 .. 4 -> {0, 2048, 5000}] :
    LET reply(text) ==
          [i \in 0 .. 4 |-> [prompt_tokens |-> lengths[i], tokens |-> 2,
             seconds |-> 1, references |-> {<<"x">>}, text |-> text]]
        run(dtype, text) ==
          Told!Baseline(dtype, Told!SelectedExamples(lengths), lengths, reply(text))
        auto == run("auto", <<"the", "x">>)
        int8 == run("int8_per_token_head", <<"x", "y">>)
        compared == Told!Comparison(auto, int8, auto, int8)
    IN /\ Len(compared) = 4
       /\ \A n \in 1 .. 4 :
            /\ compared[n].prompt_tokens = lengths[compared[n].dataset_index]
            /\ compared[n].auto_f1 = <<2, 2>> /\ compared[n].int8_f1 = <<2, 3>>
            /\ ~compared[n].outputs_identical
ASSUME ScoresAndComparisons == ScoresAsIntended /\ ComparedAsIntended

Study == INSTANCE PressureStudy

\* So are those of the pressure study: a percentile is found at its place of
\* the sorted values, and of two repetitions the mean and the extremes of the
\* completion rate are those of both, the throughput that of the completed
\* one, whatever a file without some of its keys is flagged for.
PercentilesAsIntended ==
  \A n \in 1 .. 4 : \A values \in [1 .. n -> 0 .. 3] : \A k \in 0 .. n - 1 :
    Study!AtPosition(values, k) = SortSeq(values, <)[k + 1]
RepetitionsAsIntended ==
  \A d, e \in 0 .. 4 :
    LET file(k, done) ==
          [path |-> k, name |-> "mixed.json", resumeQuality |-> FALSE,
           directory |-> [stem |-> "boundary", size |-> 125,
                          repetition |-> IF k = 1 THEN {} ELSE {k}],
           text |-> "object", convertible |-> TRUE,
           data |->
             [kv_mode |-> {"mixed"},
              requests_per_second |-> IF done = 4 THEN {<<4, k>>} ELSE {},
              termination |->
                {[timed_out |-> {done < 4},
                  status |-> {IF done < 4 THEN "timeout" ELSE "completed"},
                  selected_session_count |-> {125},
                  selected_request_count |-> {4},
                  completed_request_count |-> {done}]}]]
        tree == {file(1, d), file(2, e)}
        rows == Study!StudyRows(tree)
        rates == Study!Aggregate(Study!BoundaryRates(rows, "mixed", 125))
        served == Study!Aggregate125(rows)["mixed"]["requests_per_second_completed_workload"]
        same(p, q) == p[1] * q[2] = q[1] * p[2]
    IN /\ rates.n = 2 /\ \E mean \in rates.mean : same(mean, <<100 * (d + e), 8>>)
       /\ \E least \in rates.min, most \in rates.max :
            /\ same(least, <<100 * (IF d < e THEN d ELSE e), 4>>)
            /\ same(most, <<100 * (IF d < e THEN e ELSE d), 4>>)
       /\ \E spread \in rates.variance :
            same(spread, <<100 * 100 * (d - e) * (d - e), 32>>)
       /\ served.excluded + served.stats.n = 2
       /\ served.stats.n = Cardinality({n \in 1 .. 2 : <<d, e>>[n] = 4})
       /\ Study!StudySummary(tree).flagged = 2 /\ Study!Joined(rows) = {}
       /\ Study!SummaryStops(rows)
ASSUME PressureStudied == PercentilesAsIntended /\ RepetitionsAsIntended

Pairs == INSTANCE ResumeQualityStudy
Math == INSTANCE MathStudy

\* The study of resume quality, on two batches of one question: a sound data
\* set is accepted whatever was answered, one with a block of history that was
\* not WARM is refused, and the 20-question section counts the same runs alike.
QualityStudied ==
  \A l, r \in [0 .. 1 -> {1, 2, Pairs!NoAnswer}], lost \in BOOLEAN :
    LET session(answers, q, isMixed) ==
          [id |-> q, index |-> q, gold |-> 1, answer |-> answers[q],
           exact |-> answers[q] = 1, parseFailure |-> answers[q] = Pairs!NoAnswer,
           turns |-> 2, error |-> "none", exclusion |-> "none", tokens |-> <<answers[q]>>,
           readSteps |-> 1, confirmed |-> isMixed, hadWarm |-> isMixed,
           complete |-> 2, observed |-> IF isMixed THEN 2 ELSE 0, blockIds |-> <<7, 8>>,
           residency |-> IF isMixed
                         THEN {[group |-> 0, index |-> b, shadow |-> {b}] :
                                 b \in 0 .. IF lost /\ q = 1 THEN 0 ELSE 1}
                         ELSE {}]
        file(answers, q, isMixed) ==
          [whole |-> TRUE, passed |-> TRUE, errors |-> 0, async |-> TRUE,
           sequential |-> TRUE, mode |-> IF isMixed THEN "mixed" ELSE "all-hot",
           start |-> q, num |-> 1, sessions |-> <<session(answers, q, isMixed)>>,
           quality |-> [selected |-> 1, completed |-> 1, eligible |-> 1,
                        exact |-> IF answers[q] = 1 THEN 1 ELSE 0,
                        parseFailures |-> IF answers[q] = Pairs!NoAnswer THEN 1 ELSE 0],
           hkv |-> [dtype |-> "int8", dtypeBytes |-> 1, warmObserved |-> isMixed,
                    storage |-> IF isMixed THEN 1 ELSE 0, map |-> 1, finalWarm |-> 0,
                    cleanup |-> TRUE, consistent |-> TRUE, allocated |-> q,
                    reserved |-> q, peakBlocks |-> 3],
           log |-> [stamps |-> <<5, 9>>, changed |-> IF isMixed THEN <<1, 2>> ELSE <<>>]]
        found == {[number |-> q + 1, start |-> q,
                   files |-> [mode \in Pairs!Mode |->
                                IF mode = "mixed" THEN file(r, q, TRUE)
                                                  ELSE file(l, q, FALSE)]] : q \in 0 .. 1}
        named == {[named |-> [name \in {"all_hot.json", "mixed.json"} |->
                                IF name = "mixed.json" THEN d.files["mixed"]
                                                       ELSE d.files["all-hot"]]] : d \in found}
        hot == Pairs!Run(found, 2, 1, "all-hot")
        mix == Pairs!Run(found, 2, 1, "mixed")
        told == Pairs!GapSentence(hot, mix)
        files(mode) == Pairs!Files(found, mode)
        small(mode) == Pairs!SmallRun(Pairs!Loaded(named), mode)
        summary == Pairs!SmallSummary(small("all-hot"), small("mixed"))
        batches == {Pairs!BatchQuality(Pairs!Questions(hot, mix), n) : n \in 1 .. 2}
    IN /\ Pairs!DatasetComplete(found, 2, 1) /\ Pairs!TablesAccepted(found, 2, 1)
       /\ Pairs!HkvAccepted(found, 2, 1) <=> ~lost
       /\ \A f \in files("mixed") :
            Pairs!BeyondEvaluated(f, mix) = IF lost /\ f.batch = 2 THEN 2 ELSE 1
       /\ Pairs!ReadGaps(mix) = {}
       /\ \A b \in batches : b.questions = 1
       /\ Pairs!PerformanceRow(files("mixed"), mix).wall = 8
       /\ Pairs!SmallFilesAccepted(named, 2, 2)
       /\ Pairs!SmallPairable(Pairs!Loaded(named), 2)
       /\ summary.exact = <<Pairs!ModeCounts(hot).exact_match, Pairs!ModeCounts(mix).exact_match>>
       /\ told.by = 0 <=> told.better = "none"
       /\ l = r => told.by = 0 /\ Pairs!AnswerSplits(Pairs!Questions(hot, mix)) =
                                    {q \in 0 .. 1 : l[q] = Pairs!NoAnswer}
       /\ DOMAIN Pairs!SavedTables(hot, mix, [mode \in Pairs!Mode |-> files(mode)]) =
            DOMAIN Pairs!SmallTables(small("all-hot"), small("mixed"))
       /\ ~Pairs!SmallResultAsserted(summary)
ASSUME ResumeQualityStudied ==
  /\ QualityStudied
  /\ Pairs!InventoryAccepted({[path |-> 1, results |-> 0], [path |-> 2, results |-> 3]}, {1})
  /\ Pairs!RunRole([path |-> 1, words |-> {"async", "sync"}], 2, {3}, 4) =
       "synchronous-scheduling trial"
  /\ Pairs!FailureHint([says |-> {}]) = "log is empty"

\* The MATH-500 study, on runs of two problems: the difference in accuracy is
\* that of the problems only one run solved, the exact test is certain of
\* nothing until one side has two more of them than the other and never calls
\* more of them less, and two runs that lack the problem's id are paired by row.
MathStudiedWell ==
  /\ \A f, q \in 0 .. 5 :
       LET p == Math!ExactMcNemar(f, q)  more == Math!ExactMcNemar(f, q + 1) IN
       /\ p = Math!ExactMcNemar(q, f) /\ 0 < p[1] /\ p[1] <= p[2]
       /\ p[1] = p[2] <=> f - q \in -1 .. 1
       /\ q >= f => more[1] * p[2] <= p[1] * more[2]
  /\ \A l, r \in [1 .. 2 -> 0 .. 1] :
       LET raw(run) == [n \in 1 .. 2 |-> [em |-> {<<run[n], 1>>}, latency |-> {<<n, 2>>}]]
           lines(run) == <<[text |-> "blank"], [text |-> "object", row |-> raw(run)[1]],
                           [text |-> "object", row |-> raw(run)[2]]>>
           file(run) == [kind |-> "jsonl", lines |-> lines(run), rows |-> <<>>, lists |-> <<>>]
           loaded(run) == CHOOSE rows \in Math!LoadResults(file(run)) : TRUE
           fp16 == Math!NormalizeResults(loaded(l))
           int8 == Math!NormalizeResults(loaded(r))
           pairs == Math!Merged(fp16, int8)
           first == <<{0}, {0}>>  both == <<{0}, {1}>>
           told == Math!StatisticsSummary(pairs, <<both, first, both>>)
           o == told.paired_outcomes
       IN /\ Math!RunsValid(fp16, int8, 2) /\ told.num_examples = 2
          /\ o.both_correct + o.fp16_only + o.int8_only + o.both_wrong = 2
          /\ told.accuracy.difference[1] = o.int8_only - o.fp16_only
          /\ l = r => told.exact_mcnemar_pvalue = <<1, 1>>
          /\ \A n \in 1 .. 2 : l = r => told.bootstrap_ci_95[n][1] = 0
          /\ \A metric \in Math!OptionalMetrics :
               \A s \in Math!SummarizeOptionalMetric(pairs, metric) :
                 /\ metric = "latency_s"
                 /\ \E m \in s["int8"].median : m[1] * 4 = 3 * m[2]
          /\ Math!SummarizeOptionalMetric(pairs, "latency_s") # {}
          /\ ~Math!ResultReproduced(pairs)
ASSUME MathStudied == MathStudiedWell

ReplayUnused ==
  /\ sent = [s \in Replayed |-> 0] /\ closed = [s \in Replayed |-> FALSE]
  /\ made = sent /\ alive = closed /\ warmed = closed
  /\ slot = [s \in Replayed |-> Empty] /\ finished = sent
  /\ credit = [s \in Replayed |-> <<>>]
  /\ task = [s \in Replayed |-> "done"]
  /\ stageOf = "over" /\ timedOut = FALSE
  /\ seen = FALSE /\ drained = FALSE /\ verdict = "none"

QualityUnused ==
  /\ mixed = FALSE /\ serving = [s \in Plans |-> "gone"] /\ history = None
  /\ unread = [s \in Plans |-> 0] /\ sent2 = None
  /\ turn1_done = None /\ resume_event = None
  /\ turn2_start_event = None /\ turn2_done = None
  /\ completed_turns = unread /\ ended = [s \in Plans |-> "done"]
  /\ active = {} /\ overlap = FALSE /\ ballast = "none" /\ occupied = FALSE
  /\ step = "over" /\ at = 1 /\ confirmed = None
  /\ errors = FALSE /\ retain_event = FALSE /\ passed = FALSE

SmokeUnused ==
  /\ tiers = FALSE /\ turn = 0 /\ answering = FALSE /\ output = "none"
  /\ residency = {} /\ nulls = {} /\ request = "gone" /\ keepalive = "over"
  /\ place = "over" /\ current = "none"
  /\ demotion = <<>> /\ resumed = <<>> /\ second_demotion = <<>>
  /\ second_resumed = <<>> /\ after_release = <<>>
  /\ observed = {} /\ gaveUp = FALSE
  /\ dead = FALSE /\ shut = FALSE /\ judged = "unused"

DriversUnused == ReplayUnused /\ QualityUnused /\ SmokeUnused
experimentVars == <<replayVars, qualityVars, smokeVars>>

DriversInit == \/ ReplayInit /\ QualityUnused /\ SmokeUnused
               \/ QualityInit /\ ReplayUnused /\ SmokeUnused
               \/ SmokeInit /\ ReplayUnused /\ QualityUnused
DriversNext == \/ ReplayNext /\ UNCHANGED <<qualityVars, smokeVars>>
               \/ QualityNext /\ UNCHANGED <<replayVars, smokeVars>>
               \/ SmokeNext /\ UNCHANGED <<replayVars, qualityVars>>
DriversFairness == ReplayFairness /\ QualityFairness /\ SmokeFairness

\* Every run of a driver ends and, unless the engine of a smoke run died, with
\* the engine shut down: also a replay whose merged outputs leave a session
\* waiting for a turn that is over, and a resume-quality run that failed and
\* whose sessions then all resume at once.
EveryRunEnds ==
  <>(/\ stageOf = "over" /\ step = "over" /\ place = "over"
     /\ judged # "unused" => shut \/ dead)
=============================================================================
