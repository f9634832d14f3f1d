----------------------------- MODULE ReplayReport -----------------------------
(***************************************************************************)
(* What run_qwen_bailian_replay.py makes of a replay once it is over: the  *)
(* turns it records, the errors it finds in times, generation limits, pool *)
(* use and memory, the comparison with a baseline and the verdict.  The    *)
(* replay itself is TraceReplay; here a report is any record the tasks may *)
(* leave behind, however the engine behaved.                               *)
(*                                                                         *)
(* A report maps the root of each session to its result.  The times of a   *)
(* session, and the reasons its turns ended, are functions on the turns    *)
(* that got so far.  Turns are numbered 1, 2, ... as in the trace.         *)
(***************************************************************************)
EXTENDS RunConfiguration, Sequences, FiniteSets

LOCAL INSTANCE FiniteSetsExt

The(optional) == CHOOSE value \in optional : TRUE

-----------------------------------------------------------------------------
(* run_session: a turn is recorded when it was sent, answered and ended.   *)

Recorded(s) ==
  {i \in 1 .. s.turns :
     i \in DOMAIN s.sentAt /\ i \in DOMAIN s.firstAt /\ i \in DOMAIN s.finishedAt}

Ttft(s, i) == s.firstAt[i] - s.sentAt[i]
Latency(s, i) == s.finishedAt[i] - s.sentAt[i]

\* Only the last turn of a session may generate more than one token.
EffectiveMaxTokens(a, s, i) == IF i < s.turns THEN 1 ELSE FinalTurnTokens(a)

-----------------------------------------------------------------------------
(* The validation of a replay that was not timed out.                      *)

\* validate_timing_and_turns.
TimingValid(s) ==
  /\ s.completed = s.turns
  /\ Cardinality(Recorded(s)) = s.turns
  /\ s.turns > 1 => Recorded(s) # {}
  /\ s.due[1] >= 0 /\ s.due[s.turns] >= 0
  /\ \A i \in Recorded(s) :
       /\ s.due[i] >= 0 /\ s.sentAt[i] >= 0
       /\ s.firstAt[i] >= 0 /\ s.finishedAt[i] >= 0
       /\ Ttft(s, i) >= 0 /\ Latency(s, i) >= 0

\* validate_final_turn_generation_limits.
FinalTurn(s) == CHOOSE i \in Recorded(s) : \A j \in Recorded(s) : j <= i

MultiTokenFinals(a, r) ==
  {root \in DOMAIN r.sessions :
     LET s == r.sessions[root] IN
     Recorded(s) # {} /\ EffectiveMaxTokens(a, s, FinalTurn(s)) > 1}

SilentlyLimited(a, r) ==
  {root \in MultiTokenFinals(a, r) :
     LET s == r.sessions[root]
         i == FinalTurn(s)
     IN  /\ Len(s.tokens[i]) < EffectiveMaxTokens(a, s, i)
         /\ Len(s.tokens[i]) = 1 /\ s.reason[i] = "length"}

LimitsValid(a, r) ==
  MultiTokenFinals(a, r) # {} => SilentlyLimited(a, r) # MultiTokenFinals(a, r)

\* WARM blocks are seen in mixed mode and in no other, the allocator was never
\* inconsistent, and no block stays in WARM.
PoolsValid(a, r) ==
  /\ a.mixed <=> r.warmObserved
  /\ ~a.mixed => r.memory.warm = 0 /\ r.memory.maps = 0 /\ r.memory.table = 0
  /\ r.consistent /\ r.cleaned

\* validate_runtime_memory_accounting.
AccountingValid(l, a, r) ==
  \A total \in a.budget :
    r.memory = DerivedReport(l, a, total) /\ ~(r.memory.actual > total)

-----------------------------------------------------------------------------
(* The comparison with a baseline.                                         *)

\* validate_baseline_schema, before there is an engine.
BaselineAccepted(a, b) ==
  b.hasFingerprint /\ (a.performance => b.currentSchema /\ Given(b.budget))

\* build_experiment_fingerprint: nothing of the mode, the watermarks or the
\* WARM pool, by which the two runs are meant to differ.
Fingerprint(a, selection) ==
  [performance |-> a.performance, model |-> a.model, trace |-> a.trace,
   seed |-> a.seed, timeScale |-> a.timeScale, tokens |-> FinalTurnTokens(a),
   utilization |-> a.utilization, maxLen |-> a.maxLen, maxSeqs |-> a.maxSeqs,
   budget |-> a.budget, selection |-> selection]

\* The tokens of each recorded turn, by session, request and turn number.
TurnKeys(r) ==
  UNION {{<<root, r.sessions[root].chat[i], i>> : i \in Recorded(r.sessions[root])} :
           root \in DOMAIN r.sessions}

OrderedTurnTokens(r) ==
  [key \in TurnKeys(r) |-> r.sessions[key[1]].tokens[key[3]]]

Mismatched(r, b) ==
  {key \in TurnKeys(r) \union TurnKeys(b) :
     ~ /\ key \in TurnKeys(r) /\ key \in TurnKeys(b)
       /\ OrderedTurnTokens(r)[key] = OrderedTurnTokens(b)[key]}

\* _fingerprint_differences: a field that one of the two lacks differs.
FingerprintDifferences(current, baseline) ==
  {field \in DOMAIN current \union DOMAIN baseline :
     ~ /\ field \in DOMAIN current /\ field \in DOMAIN baseline
       /\ current[field] = baseline[field]}

Comparable(a, r, b) ==
  FingerprintDifferences(Fingerprint(a, r.selection), b.fingerprint) = {}

\* The comparison decides only in a correctness run.
ComparisonValid(a, r, b) == a.performance \/ Mismatched(r, b) = {}

-----------------------------------------------------------------------------
(* What the run says of itself, also one that was timed out.  r.plan has    *)
(* the number of turns of each selected session; times count from the start *)
(* of the workload.                                                         *)

\* session_results_from_outcomes: the tasks that ended by an exception, or
\* were cancelled where they do not catch it, leave no result.
Results(outcomes) ==
  [root \in {x \in DOMAIN outcomes : Given(outcomes[x])} |-> The(outcomes[root])]

\* collect_session_progress.  A request is one turn of one session.
Requests(turns) == UNION {{root} \X (1 .. turns[root]) : root \in DOMAIN turns}
CompletedSessions(r) ==
  {root \in DOMAIN r.sessions : r.sessions[root].completed = r.sessions[root].turns}
CompletedRequests(r) ==
  Requests([root \in DOMAIN r.sessions |-> r.sessions[root].completed])
GeneratedTokens(r) ==
  MapThenSumSet(LAMBDA root : r.sessions[root].generated, DOMAIN r.sessions)

Progress(r) ==
  LET sessions == Cardinality(DOMAIN r.plan)
      requests == Cardinality(Requests(r.plan))
      completed == Cardinality(CompletedSessions(r))
      answered == Cardinality(CompletedRequests(r))
  IN [selectedSessions |-> sessions, completedSessions |-> completed,
      incompleteSessions |-> sessions - completed,
      selectedRequests |-> requests, completedRequests |-> answered,
      incompleteRequests |-> requests - answered,
      generated |-> GeneratedTokens(r)]

\* The service window ends with the last output, of whatever turn, or with
\* the timeout.  Without an output, or with an empty window, there is no
\* result.
MetricsRaise(r) == ~r.timedOut /\ \A t \in r.lastOutput : t <= 0
ServiceWindow(r) == IF r.timedOut THEN r.cleanupAt ELSE The(r.lastOutput)

\* build_termination calls it the time since the last completed turn.
SinceLastOutput(r) ==
  {IF ServiceWindow(r) > t THEN ServiceWindow(r) - t ELSE 0 : t \in r.lastOutput}

\* compute_run_metrics counts the selected requests; none after a timeout.
\* A rate is a pair <<number, seconds>>.
RequestRate(r) ==
  IF r.timedOut THEN {}
  ELSE {<<Progress(r).selectedRequests, ServiceWindow(r)>>}
TokenRate(r) ==
  IF r.timedOut THEN {} ELSE {<<GeneratedTokens(r), ServiceWindow(r)>>}

\* percentile: the value at a position of the sorted values, from 0.
AtPosition(values, k) ==
  CHOOSE v \in {values[x] : x \in DOMAIN values} :
    /\ Cardinality({x \in DOMAIN values : values[x] < v}) <= k
    /\ k < Cardinality({x \in DOMAIN values : values[x] <= v})
PercentileOf(values, percent) ==
  IF DOMAIN values = {} THEN {}
  ELSE {AtPosition(values, ((Cardinality(DOMAIN values) - 1) * percent) \div 100)}

\* metric_distribution.
DistributionOf(values) ==
  [p50 |-> PercentileOf(values, 50), p95 |-> PercentileOf(values, 95),
   max |-> PercentileOf(values, 100)]

\* compute_turn_metrics_summary, over all recorded turns and the resumed ones.
AllTurns(r) ==
  UNION {{root} \X Recorded(r.sessions[root]) : root \in DOMAIN r.sessions}
ResumedTurns(r) == {turn \in AllTurns(r) : turn[2] > 1}
TtftOver(r, turns) ==
  DistributionOf([turn \in turns |-> Ttft(r.sessions[turn[1]], turn[2])])
LatencyOver(r, turns) ==
  DistributionOf([turn \in turns |-> Latency(r.sessions[turn[1]], turn[2])])

\* build_termination.
Termination(a, r) ==
  LET progress == Progress(r) IN
  [status |-> {IF r.timedOut THEN "timeout" ELSE "completed"},
   timed_out |-> {r.timedOut},
   service_window_duration_seconds |-> {ServiceWindow(r)},
   seconds_since_last_completed_turn |-> SinceLastOutput(r),
   selected_session_count |-> {progress.selectedSessions},
   completed_session_count |-> {progress.completedSessions},
   selected_request_count |-> {progress.selectedRequests},
   completed_request_count |-> {progress.completedRequests},
   total_generated_tokens |-> {progress.generated}]

\* build_timeout_runtime_snapshot: of the last inspection, if it still
\* succeeded, and else of what the observer saw.
TimeoutSnapshot(a, r) ==
  LET state == IF Given(r.inspected) THEN The(r.inspected) ELSE r.observed IN
  [blocks |-> state.blocks, hot |-> state.hot, warmBlocks |-> state.warmBlocks,
   warmRequests |-> state.warmRequests, owned |-> state.owned,
   capacity |-> a.pool, consistent |-> state.consistent]

\* build_runtime_memory_accounting, of the drained engine or, when the drain
\* failed, of what was observed: zeros and no budget if nothing was.
RuntimeMemory(a, r) ==
  LET budget == IF r.everInspected THEN a.budget ELSE {} IN
  [num_gpu_blocks |-> {r.memory.blocks},
   hot_kv_storage_bytes |-> {r.memory.hot},
   warm_kv_storage_bytes |-> {r.memory.warm},
   hot_to_warm_map_storage_bytes |-> {r.memory.maps},
   warm_slot_table_storage_bytes |-> {r.memory.table},
   actual_persistent_kv_bytes |-> {r.memory.actual},
   configured_total_kv_budget_bytes |-> budget,
   budget_slack_bytes |-> {total - r.memory.actual : total \in budget}]

\* build_experiment_config: what belongs to the mixed mode is absent, or none,
\* in the other.
ExperimentConfig(l, a) ==
  [performance |-> a.performance, mixed |-> a.mixed,
   tokens |-> [nonFinal |-> 1, final |-> FinalTurnTokens(a)],
   start |-> EngineArgs(l, a).start, stop |-> EngineArgs(l, a).stop,
   warmPool |-> IF a.mixed THEN a.pool ELSE {0},
   tiers |-> a.mixed, multiBlock |-> a.mixed, mixedRead |-> a.mixed]

-----------------------------------------------------------------------------
(* run: the verdict and what is left of a failed run.  baseline is a set   *)
(* of at most one report.                                                  *)

ValidationPasses(l, a, r, baseline) ==
  /\ PoolsValid(a, r) /\ AccountingValid(l, a, r)
  /\ \A root \in DOMAIN r.sessions : TimingValid(r.sessions[root])
  /\ LimitsValid(a, r)
  /\ \A b \in baseline : ComparisonValid(a, r, b)

\* A baseline of another experiment stops the run before its result is
\* written, a timeout is written without a comparison, and a run that fails
\* its validation is written before the driver raises.
Written(a, r, baseline) ==
  /\ \A b \in baseline : BaselineAccepted(a, b)
  /\ ~MetricsRaise(r)
  /\ r.timedOut \/ \A b \in baseline : Comparable(a, r, b)

Passed(l, a, r, baseline) == ~r.timedOut /\ ValidationPasses(l, a, r, baseline)

Validation(l, a, r, baseline) ==
  [passed |-> {Passed(l, a, r, baseline)},
   full_validation_performed |-> {~r.timedOut}]

\* The result of the run as it is written, as far as others read it: a field
\* is the set of its value, empty for null.
ResultFile(l, a, r, baseline) ==
  [kv_mode |-> {IF a.mixed THEN "mixed" ELSE "all-hot"},
   experiment_mode |-> {IF a.performance THEN "performance" ELSE "correctness"},
   termination |-> {Termination(a, r)},
   validation |-> {Validation(l, a, r, baseline)},
   selection |-> {[selected_session_count |-> {Cardinality(DOMAIN r.plan)},
                   selected_request_count |-> {Cardinality(Requests(r.plan))}]},
   requests_per_second |-> RequestRate(r),
   output_tokens_per_second_service_window |-> TokenRate(r),
   total_generated_tokens |-> {GeneratedTokens(r)},
   all_turn_ttft_seconds |-> {TtftOver(r, AllTurns(r))},
   resumed_turn_ttft_seconds |-> {TtftOver(r, ResumedTurns(r))},
   all_turn_latency_seconds |-> {LatencyOver(r, AllTurns(r))},
   resumed_turn_latency_seconds |-> {LatencyOver(r, ResumedTurns(r))},
   hkv_observation |->
     {[allocator_consistent |-> {r.consistent}, cleanup_complete |-> {r.cleaned}]},
   runtime_persistent_kv_memory |-> {RuntimeMemory(a, r)},
   persistent_kv_memory_budget |->
     {[total_kv_budget_bytes |-> a.budget,
       derived_budget_slack_bytes |->
         {total - DerivedReport(l, a, total).actual : total \in a.budget}]}]

\* main: a run that raised ends with an error of its own.
ExitsClean(l, a, r, baseline) ==
  Written(a, r, baseline) /\ Passed(l, a, r, baseline)
=============================================================================
