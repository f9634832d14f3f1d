---------------------------- MODULE PressureStudy ----------------------------
(***************************************************************************)
(* analyze_pressure_experiments.ipynb: the study of capacity pressure that *)
(* reads the results of the replay driver (ReplayReport, ResultFile).      *)
(*                                                                         *)
(* A file has a path, a name, a directory, what reading it gives (text)    *)
(* and, when that is a JSON object, its data: a function from the keys     *)
(* that are there to their values, each the set of the value, empty for    *)
(* null.  A block of another kind than an object counts as null too.  A    *)
(* file is convertible if the numbers it names can be read as numbers.     *)
(* A directory has a stem, the size its name spells and its repetition.    *)
(* Metrics are fractions <<n, d>>.                                         *)
(***************************************************************************)
EXTENDS ReplayReport

LOCAL INSTANCE FiniteSetsExt

Get(block, key, default) == IF key \in DOMAIN block THEN block[key] ELSE default
Lookup(block, key) == Get(block, key, {})
Block(data, key) ==
  IF Given(Lookup(data, key)) THEN The(Lookup(data, key)) ELSE <<>>
OrZero(optional) == IF Given(optional) THEN The(optional) ELSE 0
Whole(optional) == {<<n, 1>> : n \in optional}

-----------------------------------------------------------------------------
(* From a file to a row.                                                   *)

\* percentile: an absent block has no percentiles.
PercentileIn(data, field, name) == Whole(Lookup(Block(data, field), name))

ParseRepetition(directory) == OrZero(directory.repetition) +
                              IF Given(directory.repetition) THEN 0 ELSE 1

\* parse_workload_family knows the directories by their names; a nominal load
\* is none of them.
BoundarySizes == {100, 125, 150}
WorkloadFamily(directory) ==
  IF directory.stem = "boundary" /\ directory.size \in BoundarySizes
  THEN "capacity_boundary"
  ELSE IF directory.stem = "final_01_no_prefix_cache" /\ ~Given(directory.repetition)
  THEN "full_trace_overload"
  ELSE "unclassified"
WorkloadSize(directory, selected) ==
  IF WorkloadFamily(directory) = "capacity_boundary" THEN {directory.size}
                                                     ELSE selected

IsCompletedRun(timedOut, status) == TRUE \notin timedOut /\ status = {"completed"}

CompletionRate(completed, selected) ==
  {<<100 * pair[1], pair[2]>> : pair \in completed \X (selected \ {0})}

\* extract_row.  A key that is there wins over its fallback, also as null.
ExtractRow(f) ==
  LET term == Block(f.data, "termination")
      validation == Block(f.data, "validation")
      hkv == Block(f.data, "hkv_observation")
      runtime == Block(f.data, "runtime_persistent_kv_memory")
      selection == Block(f.data, "selection")
      budget == Block(f.data, "persistent_kv_memory_budget")
      count(key) == Get(term, key, Lookup(selection, key))
      bytes(key) == Get(runtime, key, Lookup(hkv, key))
      completed == IsCompletedRun(Lookup(term, "timed_out"), Lookup(term, "status"))
      maps == bytes("hot_to_warm_map_storage_bytes")
      table == bytes("warm_slot_table_storage_bytes")
      window == Lookup(term, "service_window_duration_seconds")
      since == Lookup(term, "seconds_since_last_completed_turn")
      ifCompleted(rate) == IF completed THEN rate ELSE {}
  IN [source_path |-> f.path,
      workload_family |-> WorkloadFamily(f.directory),
      workload_size |->
        WorkloadSize(f.directory, count("selected_session_count")),
      repetition |-> ParseRepetition(f.directory),
      mode |-> Lookup(f.data, "kv_mode"),
      experiment_mode |-> Lookup(f.data, "experiment_mode"),
      timed_out |-> Lookup(term, "timed_out"), completed_run |-> completed,
      selected_sessions |-> count("selected_session_count"),
      selected_requests |-> count("selected_request_count"),
      completed_sessions |-> Whole(Lookup(term, "completed_session_count")),
      completed_requests |-> Whole(Lookup(term, "completed_request_count")),
      completion_rate_pct |->
        CompletionRate(Lookup(term, "completed_request_count"),
                       count("selected_request_count")),
      service_window_duration_s |-> Whole(window),
      time_to_last_completed_turn_s |->
        Whole({pair[1] - pair[2] : pair \in window \X since}),
      generated_tokens |->
        Whole(Get(term, "total_generated_tokens",
                  Lookup(f.data, "total_generated_tokens"))),
      requests_per_second_completed_workload |->
        ifCompleted(Lookup(f.data, "requests_per_second")),
      output_tokens_per_second_completed_workload |->
        ifCompleted(Lookup(f.data, "output_tokens_per_second_service_window")),
      ttft_p50_s |-> PercentileIn(f.data, "all_turn_ttft_seconds", "p50"),
      ttft_p95_s |-> PercentileIn(f.data, "all_turn_ttft_seconds", "p95"),
      resumed_ttft_p50_s |-> PercentileIn(f.data, "resumed_turn_ttft_seconds", "p50"),
      resumed_ttft_p95_s |-> PercentileIn(f.data, "resumed_turn_ttft_seconds", "p95"),
      latency_p50_s |-> PercentileIn(f.data, "all_turn_latency_seconds", "p50"),
      latency_p95_s |-> PercentileIn(f.data, "all_turn_latency_seconds", "p95"),
      resumed_latency_p50_s |->
        PercentileIn(f.data, "resumed_turn_latency_seconds", "p50"),
      resumed_latency_p95_s |->
        PercentileIn(f.data, "resumed_turn_latency_seconds", "p95"),
      hot_bytes |-> bytes("hot_kv_storage_bytes"),
      warm_bytes |-> bytes("warm_kv_storage_bytes"),
      metadata_bytes |-> IF Given(maps) \/ Given(table)
                         THEN {OrZero(maps) + OrZero(table)} ELSE {},
      total_persistent_kv_bytes |-> bytes("actual_persistent_kv_bytes"),
      configured_kv_budget_bytes |->
        Get(runtime, "configured_total_kv_budget_bytes",
            Lookup(budget, "total_kv_budget_bytes")),
      budget_slack_bytes |->
        Get(runtime, "budget_slack_bytes",
            Lookup(budget, "derived_budget_slack_bytes")),
      allocator_consistent |-> Lookup(hkv, "allocator_consistent"),
      validation_passed |-> Lookup(validation, "passed")]

-----------------------------------------------------------------------------
(* From the directory of runs to the table of rows.                        *)

RequiredTopLevel ==
  {"kv_mode", "termination", "validation", "hkv_observation",
   "runtime_persistent_kv_memory", "selection"}

Discovered(tree) ==
  {f \in tree : f.name \in {"all_hot.json", "mixed.json"} /\ ~f.resumeQuality}

\* Unreadable, empty and broken files, and those that hold no object, are
\* skipped; a file with an issue is flagged, and its row kept all the same.
Parsed(f) == f.text = "object" /\ f.convertible
ExpectedMode(f) == IF f.name = "all_hot.json" THEN "all-hot" ELSE "mixed"
SchemaIssue(f) ==
  \/ ~(RequiredTopLevel \subseteq DOMAIN f.data)
  \/ \E mode \in Lookup(f.data, "kv_mode") : mode # ExpectedMode(f)

StudyRows(tree) == {ExtractRow(f) : f \in {g \in Discovered(tree) : Parsed(g)}}

\* A flagged file counts as loaded even if no row could be made of it.
Diagnosed(f) ==
  [source_path |-> f.path,
   issue |-> ~Parsed(f) \/ SchemaIssue(f),
   loaded |-> f.text = "object" /\ (f.convertible \/ SchemaIssue(f))]

-----------------------------------------------------------------------------
(* Statistics of a column over rows, the absent values left out.           *)

Column(rows, column) == [row \in {x \in rows : Given(x[column])} |-> The(row[column])]

Plus(p, q) == IF p[2] = q[2] THEN <<p[1] + q[1], p[2]>>
              ELSE <<p[1] * q[2] + q[1] * p[2], p[2] * q[2]>>
NotAbove(p, q) == p[1] * q[2] <= q[1] * p[2]
SumOf(values) ==
  FoldSet(LAMBDA row, sum : Plus(values[row], sum), <<0, 1>>, DOMAIN values)
MeanOf(values) ==
  LET sum == SumOf(values) IN <<sum[1], sum[2] * Cardinality(DOMAIN values)>>
LeastOf(values) ==
  LET all == {values[row] : row \in DOMAIN values}
  IN CHOOSE v \in all : \A w \in all : NotAbove(v, w)
GreatestOf(values) ==
  LET all == {values[row] : row \in DOMAIN values}
  IN CHOOSE v \in all : \A w \in all : NotAbove(w, v)

\* The square of the sample deviation, zero for a single value.
VarianceOf(values) ==
  LET n == Cardinality(DOMAIN values)
      mean == MeanOf(values)
      squares == [row \in DOMAIN values |->
                    LET off == Plus(values[row], <<-mean[1], mean[2]>>)
                    IN <<off[1] * off[1], off[2] * off[2]>>]
      sum == SumOf(squares)
  IN IF n = 1 THEN <<0, 1>> ELSE <<sum[1], sum[2] * (n - 1)>>

\* _agg.
Aggregate(values) ==
  LET some(value) == IF DOMAIN values = {} THEN {} ELSE {value} IN
  [n |-> Cardinality(DOMAIN values), mean |-> some(MeanOf(values)),
   variance |-> some(VarianceOf(values)), min |-> some(LeastOf(values)),
   max |-> some(GreatestOf(values))]

-----------------------------------------------------------------------------
(* The runs at the capacity boundary, of 125 sessions, and in overload.    *)

CompletedRuns(rows) == {row \in rows : row.completed_run}
OfMode(rows, mode) == {row \in rows : row.mode = {mode}}
Family(rows, family) == {row \in rows : row.workload_family = family}

Boundary(rows) ==
  {row \in Family(rows, "capacity_boundary") : row.workload_size \subseteq BoundarySizes}

\* The error bars group by the sessions the run selected, the final summary by
\* the size in the name of its directory.
BoundaryRates(rows, mode, selected) ==
  Column({row \in OfMode(Boundary(rows), mode) : row.selected_sessions = {selected}},
         "completion_rate_pct")

Rep125(rows) == {row \in Boundary(rows) : row.workload_size = {125}}

\* Throughput, times to first token and latencies are those of completed
\* workloads; counts, rates of completion and durations those of all.
CompletedOnly ==
  {"requests_per_second_completed_workload",
   "output_tokens_per_second_completed_workload",
   "ttft_p50_s", "ttft_p95_s", "resumed_ttft_p50_s", "resumed_ttft_p95_s",
   "latency_p50_s", "latency_p95_s", "resumed_latency_p50_s",
   "resumed_latency_p95_s"}
Metrics ==
  CompletedOnly \union
    {"completed_sessions", "completed_requests", "completion_rate_pct",
     "time_to_last_completed_turn_s", "generated_tokens",
     "service_window_duration_s"}

MetricValues(rows, mode, metric) ==
  LET group == OfMode(Rep125(rows), mode) IN
  Column(IF metric \in CompletedOnly THEN CompletedRuns(group) ELSE group, metric)

\* agg125, by mode and metric; a file without a mode is in no group.
Aggregate125(rows) ==
  [mode \in UNION {row.mode : row \in Rep125(rows)} |->
     [metric \in Metrics |->
        [stats |-> Aggregate(MetricValues(rows, mode, metric)),
         excluded |->
           IF metric \in CompletedOnly
           THEN Cardinality(OfMode(Rep125(rows), mode) \ CompletedRuns(rows))
           ELSE 0]]]

\* paired_dotplot, and the plot of the times of the last turn: the two runs of
\* a repetition are joined, or any two that were found for it.
Joined(rows) ==
  {k \in {row.repetition : row \in Rep125(rows)} :
     Cardinality({row \in Rep125(rows) :
                    row.repetition = k /\ row.mode \in {{"all-hot"}, {"mixed"}}}) = 2}

\* Of the rows of full_trace_overload.
SessionCompletion(row) ==
  CompletionRate({n[1] : n \in row.completed_sessions}, row.selected_sessions)
Overload(rows) ==
  {<<row, SessionCompletion(row)>> : row \in Family(rows, "full_trace_overload")}

\* No directory is classified so: the section always reports no data.
Nominal(rows) == Family(rows, "nominal_load")

-----------------------------------------------------------------------------
(* The composition of the memory.                                          *)

SumMatchesTotal(row) ==
  row.total_persistent_kv_bytes =
    {OrZero(row.hot_bytes) + OrZero(row.warm_bytes) + OrZero(row.metadata_bytes)}

ComputedSlack(row) ==
  {pair[1] - pair[2] :
     pair \in row.configured_kv_budget_bytes \X row.total_persistent_kv_bytes}

WithinRecordedSlack(row) ==
  /\ Given(row.budget_slack_bytes) /\ Given(ComputedSlack(row))
  /\ ComputedSlack(row) = row.budget_slack_bytes
  /\ \A slack \in ComputedSlack(row) : slack >= 0

\* The distinct layouts of a mode.
Layouts(rows, mode) ==
  {[hot |-> row.hot_bytes, warm |-> row.warm_bytes,
    metadata |-> row.metadata_bytes, total |-> row.total_persistent_kv_bytes] :
     row \in {x \in OfMode(rows, mode) : Given(x.hot_bytes)}}

-----------------------------------------------------------------------------
(* The summary at the end.                                                 *)

TimedOutRuns(rows) == {row \in rows : TRUE \in row.timed_out}

\* Counts are printed as integers: a row of these tables without one, or
\* without its repetition's, stops the cell.
SummaryStops(rows) ==
  \E row \in OfMode(Rep125(rows), "all-hot") \union OfMode(Rep125(rows), "mixed")
             \union Family(rows, "full_trace_overload") :
    ~ /\ Given(row.completed_sessions) /\ Given(row.selected_sessions)
      /\ Given(row.completed_requests) /\ Given(row.selected_requests)

BoundaryLine(rows, mode, size) ==
  LET block == {row \in OfMode(Boundary(rows), mode) : row.workload_size = {size}}
      rates == Column(block, "completion_rate_pct")
  IN [rates |-> Aggregate(rates), n |-> Cardinality(block),
      completed |-> Cardinality(CompletedRuns(block)),
      timedOut |-> Cardinality(TimedOutRuns(block))]

StudySummary(tree) ==
  LET rows == StudyRows(tree)
      timed(mode) == OfMode(Rep125(rows), mode)
  IN [discovered |-> Cardinality(Discovered(tree)),
      flagged |-> Cardinality({f \in Discovered(tree) : Diagnosed(f).issue}),
      completed |-> Cardinality(CompletedRuns(rows)),
      timedOut |-> Cardinality(TimedOutRuns(rows)),
      boundary |-> [mode \in {"all-hot", "mixed"}, size \in BoundarySizes |->
                      BoundaryLine(rows, mode, size)],
      throughput |-> [mode \in {"all-hot", "mixed"} |->
        Aggregate(Column(CompletedRuns(timed(mode)),
                         "requests_per_second_completed_workload"))],
      excluded |-> [mode \in {"all-hot", "mixed"} |->
                      Cardinality(timed(mode) \ CompletedRuns(rows))],
      slackHolds |-> Cardinality({row \in rows : WithinRecordedSlack(row)}),
      performance |-> Cardinality({row \in rows : row.experiment_mode = {"performance"}})]
=============================================================================
