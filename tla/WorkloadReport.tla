---------------------------- MODULE WorkloadReport ----------------------------
(***************************************************************************)
(* The rest of analyze_qwen_bailian_workload.py: what it counts of the     *)
(* file, the demand and the pressure of each number of sessions, how far   *)
(* the first sessions differ from all of them, and the numbers of sessions *)
(* it recommends for the replays.  None is 0, a mean is kept as its sum    *)
(* and count, and percentages are whole.                                   *)
(***************************************************************************)
EXTENDS WorkloadAnalysis, KVCapacity

CONSTANTS
  Layout, Budget,            \* bytes of a block, and of all pools together
  ModelLen, ModelSeqs,       \* max_model_len, max_num_seqs
  WarmPools, PrimaryPool,    \* WARM pools to compare; the primary one
  Policies, PrimaryPolicy,   \* pairs of watermarks <<start, stop>>
  Requested,                 \* the session counts asked for
  RequiredCounts, RequiredFrom,  \* counts added from that many sessions on
  SmokeCount, MediumCount,   \* 25 and 250
  ReturnAfter                \* the thresholds of a return

ASSUME PrimaryPolicyAssumption == PrimaryPolicy \in Policies
ASSUME CapacityAssumption ==
  \A pool \in WarmPools :
    ~Refused(Budget, FixedBytes(Layout, TRUE, pool, ModelLen, ModelSeqs),
             BytesPerBudgetedBlock(Layout, TRUE))

-----------------------------------------------------------------------------
(* load_trace_records and classify_linear_sessions: nothing is dropped     *)
(* unseen.  A row is [fault, record]; the fault is "none", "blank" or why  *)
(* the row is no record ("json_decode_error", "missing_keys", ...).        *)

Load(rows) ==
  LET nonEmpty == SelectSeq(rows, LAMBDA row : row.fault # "blank")
      good(row) == row.fault = "none" /\ ValidRecord(row.record)
      kept == SelectSeq(nonEmpty, good)
  IN  [nonEmpty |-> Len(nonEmpty), blank |-> Len(rows) - Len(nonEmpty),
       records |-> [k \in DOMAIN kept |-> kept[k].record],
       rejected |-> SelectSeq(nonEmpty, LAMBDA row : ~good(row))]

Duplicates(records) == Len(records) - Len(FirstsById(records))

\* A record whose walk to the root fails is a group of its own.
Groups(records) ==
  LET firsts == FirstsById(records) IN
  Sessions(firsts) \cup {<<r>> : r \in {x \in ToSet(firsts) : Roots(x, firsts) = {}}}

PairIssue(previous, r) ==
  IF r.parent # previous.id THEN "branches_or_skips_parent"
  ELSE IF r.turn # previous.turn + 1 THEN "non_consecutive_turns"
  ELSE IF r.at < previous.at THEN "timestamps_move_backwards"
  ELSE IF r.len < previous.len THEN "input_length_shrank"
  ELSE IF ~Continues(previous, r) THEN "complete_block_prefix_changed" ELSE "none"

\* The first issue in the order of the turns.
Issue(group, records) ==
  LET issues == {i \in 1 .. Len(group) - 1 : PairIssue(group[i], group[i + 1]) # "none"}
  IN  IF Roots(group[1], FirstsById(records)) = {} THEN "missing_parent_or_cycle"
      ELSE IF group[1].parent # NoParent THEN "missing_root"
      ELSE IF group[1].turn # 1 THEN "root_turn_is_not_1"
      ELSE IF issues # {} THEN PairIssue(group[Min(issues)], group[Min(issues) + 1])
      ELSE "none"

TraceCounts(rows) ==
  LET loaded == Load(rows)
      groups == Groups(loaded.records)
      issue(g) == Issue(g, loaded.records)
      ok == {g \in groups : issue(g) = "none"}
  IN [nonEmpty |-> loaded.nonEmpty, blank |-> loaded.blank,
      valid |-> Len(loaded.records),
      malformed |-> Len(loaded.rejected) + Duplicates(loaded.records),
      complete |-> ok, incomplete |-> groups \ ok,
      single |-> Cardinality({s \in ok : Len(s) = 1}),
      multi |-> Cardinality({s \in ok : Len(s) >= 2}),
      reasons |-> [why \in {issue(g) : g \in groups \ ok} |->
                     Cardinality({g \in groups \ ok : issue(g) = why})]]

-----------------------------------------------------------------------------
(* Statistics of a set of sessions.                                        *)

\* percentile, for a fraction in percent.
Percentile(values, percent) ==
  SortSeq(values, <)[((Len(values) - 1) * percent) \div 100 + 1]

SumOf(values) == Total(DOMAIN values, LAMBDA i : values[i])

\* numeric_distribution; nothing is known of no values.
Distribution(values) ==
  [count |-> Len(values)] @@
  (IF values = <<>> THEN <<>>
   ELSE [min |-> Min(ToSet(values)), max |-> Max(ToSet(values)),
         sum |-> SumOf(values),
         median |-> Percentile(values, 50), p75 |-> Percentile(values, 75),
         p90 |-> Percentile(values, 90), p95 |-> Percentile(values, 95),
         p99 |-> Percentile(values, 99)])

Gaps(session) == [i \in 1 .. Len(session) - 1 |-> session[i + 1].at - session[i].at]
LongestGap(session) == Max({0} \cup ToSet(Gaps(session)))

ReturnAfterCounts(order) ==
  [threshold \in ReturnAfter |->
     Cardinality({i \in DOMAIN order : LongestGap(order[i]) >= threshold})]

\* tokens_to_block_demand.
Demand(tokens) ==
  [complete |-> tokens \div BlockSize, tail |-> tokens % BlockSize,
   hot |-> tokens \div BlockSize + (IF tokens % BlockSize = 0 THEN 0 ELSE 1)]

\* cumulative_session_context_tokens.
Context(session) ==
  LET lengths == [i \in DOMAIN session |-> session[i].len] IN
  [final |-> Last(session).len, max |-> Max(ToSet(lengths)),
   rebuilt |-> session[1].len + SumOf([i \in 1 .. Len(session) - 1 |->
                                         lengths[i + 1] - lengths[i]]),
   naive |-> SumOf(lengths)]

\* session_statistics, for the sessions in any order.
Statistics(order) ==
  LET each(value(_)) == Distribution([i \in DOMAIN order |-> value(order[i])])
      checked(ok(_)) == Cardinality({i \in DOMAIN order : ok(Context(order[i]))})
  IN [sessions |-> Len(order), requests |-> SumOf([i \in DOMAIN order |-> Len(order[i])]),
      turns_per_session |-> each(Len),
      final_input_length |-> each(LAMBDA s : Last(s).len),
      duration |-> each(LAMBDA s : Last(s).at - s[1].at),
      inter_turn_gap_seconds |-> Distribution(FlattenSeq([i \in DOMAIN order |-> Gaps(order[i])])),
      returning |-> ReturnAfterCounts(order),
      rebuilt |-> checked(LAMBDA c : c.rebuilt = c.final),
      final |-> checked(LAMBDA c : c.final = c.max)]

-----------------------------------------------------------------------------
(* arrival_and_retention, at the one scale of the model.                   *)

Span(records) ==
  LET times == {records[i].at : i \in DOMAIN records} IN
  IF records = <<>> THEN <<0, 0>> ELSE <<Min(times), Max(times)>>

\* one_second_bucket_arrivals: the last moment gets a second of its own.
FloorScaled(t) == (t * Scale[1]) \div Scale[2]

\* Mutant: as many seconds as the span has, rounded up.
SpanSeconds(records) ==
  LET span == Span(records)
      seconds == Max({1, CeilScaled(span[2] - span[1])})
  IN  [second \in 0 .. seconds - 1 |->
         Cardinality({i \in DOMAIN records :
                        FloorScaled(records[i].at - span[1]) = second})]

BucketArrivals(records) ==
  LET span == Span(records)
      seconds == Max({1, FloorScaled(span[2] - span[1]) + 1,
                      CeilScaled(span[2] - span[1])})
  IN  [second \in 0 .. seconds - 1 |->
         Cardinality({i \in DOMAIN records :
                        FloorScaled(records[i].at - span[1]) = second})]

Retention(order) ==
  LET records == FlattenSeq(order)
      span == Span(records)
      seconds == Resampled(ToSet(order), span[1], span[2])
      of(percent) == IF seconds = <<>> THEN 0 ELSE Percentile(seconds, percent)
  IN [peak |-> Peak(ToSet(order)), median |-> of(50), p95 |-> of(95),
      arrivals |-> BucketArrivals(records), span |-> span[2] - span[1]]

-----------------------------------------------------------------------------
(* equal_memory_capacity_table, selected_workload_demand and the pressure  *)
(* of a selection on every mixed configuration.                            *)

AllHot == DerivedBlocks(Budget, 0, BytesPerBudgetedBlock(Layout, FALSE))

Mixed(pool) ==
  LET fixed == FixedBytes(Layout, TRUE, pool, ModelLen, ModelSeqs)
      perBlock == BytesPerBudgetedBlock(Layout, TRUE)
  IN [hot |-> DerivedBlocks(Budget, fixed, perBlock),
      total |-> LogicalBlocks(Budget, fixed, perBlock, pool),
      within |-> ActualBytes(Budget, fixed, perBlock) <= Budget]

\* Of the primary pool, if it is among those compared.
Primary == IF PrimaryPool \in WarmPools THEN Mixed(PrimaryPool)
           ELSE [hot |-> 0, total |-> 0, within |-> TRUE]

FirstN(order, n) == SubSeq(order, 1, Min({n, Len(order)}))

Pressure(peak) ==
  [pool \in WarmPools |-> [policy \in Policies |->
     PolicyAwarePressure(peak, Mixed(pool).hot, pool, policy[1], policy[2], AllHot)]]

DemandOf(first, finals, kept) ==
  LET sum(part(_)) == SumOf([i \in DOMAIN first |-> part(Demand(finals[i]))])
  IN [sessions |-> first, tokens |-> SumOf(finals),
      complete |-> sum(LAMBDA d : d.complete), tail |-> sum(LAMBDA d : d.tail),
      hot |-> sum(LAMBDA d : d.hot), retention |-> kept,
      excess |-> Max({0, kept.peak - AllHot}), exceeds |-> kept.peak > AllHot,
      pressure |-> Pressure(kept.peak),
      beyond |-> {pool \in WarmPools : kept.peak > Mixed(pool).total}]

SelectionOf(first) ==
  DemandOf(first, [i \in DOMAIN first |-> Context(first[i]).final], Retention(first))

\* flatten_policy_pressure_rows.
PressureRows(selections) ==
  UNION {{[requested |-> n, pool |-> pool, policy |-> policy,
           pressure |-> selections[n].pressure[pool][policy]] :
             pool \in WarmPools, policy \in Policies} : n \in DOMAIN selections}

-----------------------------------------------------------------------------
(* The numbers of sessions that are looked at.                             *)

\* prefix_peak_target_specs.
TargetBlocks ==
  {HotStartThreshold(Primary.hot, 80), AllHot,
   CeilDivide(AllHot * 110, 100), CeilDivide(AllHot * 120, 100),
   CeilDivide(Primary.total * 90, 100), CeilDivide(Primary.total * 95, 100),
   Primary.total}

\* PrefixPeakIndex.smallest_reaching.
SmallestReaching(peaks, target) == SmallestN(peaks, Nat \ (0 .. target - 1))
SmallestExceeding(peaks) == SmallestReaching(peaks, AllHot + 1)

HighLoadCount(peaks) == IF peaks = <<>> THEN 0 ELSE HighLoadPrefix(peaks)

\* resolved_session_counts.
AnalysedCounts(peaks) ==
  (Requested \cup {SmallestReaching(peaks, target) : target \in TargetBlocks}
     \cup {HighLoadCount(peaks), Len(peaks)}
     \cup (IF Len(peaks) >= RequiredFrom THEN RequiredCounts ELSE {})) \ {0}

-----------------------------------------------------------------------------
(* selection_bias_report: prefixes whose sessions are not like the others. *)

Threshold == 15   \* BIAS_RELATIVE_THRESHOLD

\* |a / m - b / n| >= 15% of |b / n|, unless b is zero.
Material(a, m, b, n) ==
  b # 0 /\ 100 * Distance(a * n, b * m) >= Threshold * Distance(b, 0) * m

MetricMaterial(prefix, pool) ==
  /\ prefix.count > 0 /\ pool.count > 0
  /\ \/ Material(prefix.median, 1, pool.median, 1)
     \/ Material(prefix.sum, prefix.count, pool.sum, pool.count)

Metrics == {"turns_per_session", "final_input_length", "inter_turn_gap_seconds"}

MaterialMetrics(order, n) ==
  {metric \in Metrics :
     MetricMaterial(Statistics(FirstN(order, n))[metric], Statistics(order)[metric])}

BiasCounts(peaks) ==
  (Requested \cup RequiredCounts \cup {SmokeCount, HighLoadCount(peaks), Len(peaks)})
    \cap (1 .. Len(peaks))

MaterialPrefixes(order, peaks) ==
  {n \in BiasCounts(peaks) : n < Len(order) /\ MaterialMetrics(order, n) # {}}

FollowUp(order, high, biased) ==
  IF order = <<>> THEN "not redesigned"
  ELSE IF biased = {} THEN "acceptable"
  ELSE IF high \in biased THEN "reconsider" ELSE "early prefixes only"

-----------------------------------------------------------------------------
(* build_recommendation.                                                   *)

Middle(counts) == SetToSortSeq(counts, <)[Cardinality(counts) \div 2 + 1]

\* A count of its own if it was analysed, the smallest or the middle one else.
SmokeLoad(counts) ==
  IF counts = {} THEN 0 ELSE IF SmokeCount \in counts THEN SmokeCount ELSE Min(counts)
MediumLoad(counts) ==
  IF counts = {} THEN 0 ELSE IF MediumCount \in counts THEN MediumCount ELSE Middle(counts)

RequestedExceeding(counts, selections) ==
  LET exceeding == {n \in counts : selections[n].exceeds} IN
  IF exceeding = {} THEN 0 ELSE Min(exceeding)

\* Whether a number has the pressure of the primary pool and policy.
HasPolicyRow(n) == n # 0 /\ PrimaryPool \in WarmPools
PolicyRow(selections, n) == selections[n].pressure[PrimaryPool][PrimaryPolicy]

\* The note on the medium load: demotion starts, or the peak is "below".
MediumNote(medium, selections) ==
  IF medium = 0 THEN "none"
  ELSE IF HasPolicyRow(medium) /\ PolicyRow(selections, medium).starts
  THEN "starts" ELSE "below"

\* How far the smallest overflowing prefix is above the all-HOT pool.
Margin(peaks, smallest) ==
  IF smallest = 0 THEN 0 ELSE Max({0, peaks[smallest] - AllHot})

HighDemotion(high, peak, selections) ==
  IF HasPolicyRow(high) THEN PolicyRow(selections, high).demote
  ELSE Max({0, peak - HotStopTarget(Primary.hot, PrimaryPolicy[2])})

WarmPoolChosen(order, peak) ==
  LET gaps == Statistics(order).inter_turn_gap_seconds
      prefersPrimary ==
        /\ PrimaryPool \in WarmPools
        /\ \/ peak > Primary.hot
           \/ gaps.count > 0 /\ (gaps.median >= 30 \/ gaps.p95 >= 300)
  IN  IF WarmPools = {} THEN 0 ELSE IF prefersPrimary THEN PrimaryPool ELSE Max(WarmPools)

Recommendation(order, peaks, selections, smallest, high, medium) ==
  LET counts == DOMAIN selections
      peak == IF high = 0 THEN 0 ELSE selections[high].retention.peak
  IN [smoke |-> SmokeLoad(counts), medium |-> medium, high |-> high,
      smallest |-> smallest, margin |-> Margin(peaks, smallest),
      requested |-> RequestedExceeding(counts, selections),
      mediumNote |-> MediumNote(medium, selections),
      demote |-> HighDemotion(high, peak, selections),
      warmPool |-> WarmPoolChosen(order, peak)]

\* analyze_workload, from the records to the recommendation: what is computed
\* from the ordered sessions, their peaks and the selections.
ReportOf(order, peaks, selections) ==
  [order |-> order, selections |-> selections, rows |-> PressureRows(selections),
   statistics |-> Statistics(order),
   followUp |-> FollowUp(order, HighLoadCount(peaks), MaterialPrefixes(order, peaks)),
   recommendation |->
     Recommendation(order, peaks, selections, SmallestExceeding(peaks),
                    HighLoadCount(peaks), MediumLoad(DOMAIN selections))]

Analysis(order, peaks) ==
  ReportOf(order, peaks, [n \in AnalysedCounts(peaks) |-> SelectionOf(FirstN(order, n))])

Report(order) == Analysis(order, SubSeq(Peaks(order), 1, Len(order)))

-----------------------------------------------------------------------------
(* Properties, of the trace a behaviour starts from.                       *)

\* Every row of the file is counted once: as blank, as rejected, as a repeated
\* id or in exactly one session, complete or with the reason it is not.  And a
\* row that is spoiled takes nothing with it but its own session, if no id was
\* repeated before.
RowsAccounted ==
  stage = "given" /\ Len(trace) <= 3 =>
    LET whole == TraceCounts([k \in DOMAIN trace |-> [fault |-> "none", record |-> trace[k]]])
    IN \A spoiled \in DOMAIN trace, fault \in {"blank", "missing_keys"} :
         LET counts == TraceCounts([k \in DOMAIN trace |->
                         [fault |-> IF k = spoiled THEN fault ELSE "none",
                          record |-> trace[k]]])
             groups == counts.complete \cup counts.incomplete
         IN /\ counts.blank + counts.nonEmpty = Len(trace)
            /\ counts.nonEmpty = counts.malformed + Total(groups, Len)
            /\ \A r \in ToSet(trace), g, h \in groups :
                 r \in ToSet(g) /\ r \in ToSet(h) => g = h
            /\ counts.complete = Complete([n \in 1 .. Len(trace) - 1 |->
                                   trace[IF n < spoiled THEN n ELSE n + 1]])
            /\ UniqueIds(trace) =>
                 {s \in whole.complete : trace[spoiled] \notin ToSet(s)}
                   \subseteq counts.complete

DemandExact(selection) ==
  /\ selection.complete * BlockSize + selection.tail = selection.tokens
  /\ selection.retention.peak <= selection.hot
  /\ selection.retention.median <= selection.retention.p95
  /\ selection.retention.p95 <= selection.retention.peak
  /\ SumOf(selection.retention.arrivals) = Total(ToSet(selection.sessions), Len)

PressureGrows(rows) ==
  \A row, other \in rows :
    /\ row.pool = other.pool /\ row.policy = other.policy
    /\ row.requested <= other.requested
    => /\ row.pressure.demote <= other.pressure.demote
       /\ row.pressure.starts => other.pressure.starts
       /\ row.pressure.beyondAllHot => other.pressure.beyondAllHot

IsConsistent(report, r) ==
  /\ \A n \in DOMAIN report.selections : DemandExact(report.selections[n])
  /\ PressureGrows(report.rows)
  /\ report.statistics.rebuilt = Len(report.order)
  /\ report.statistics.final = Len(report.order)
  /\ {r.smoke, r.medium, r.high} \subseteq DOMAIN report.selections \cup {0}
  /\ r.smallest = 0 <=> r.requested = 0
  /\ r.smallest <= r.requested
  /\ r.smallest # 0 => r.smallest <= Len(report.order) /\ r.margin > 0
  /\ r.mediumNote = "below" =>
       report.selections[r.medium].retention.peak < HotStartThreshold(Primary.hot, PrimaryPolicy[1])
  /\ MaterialMetrics(report.order, Len(report.order)) = {}

\* Every row is accounted for, and the demand, the pressure and the
\* recommendation agree with each other: no occupancy exceeds the final demand
\* of the sessions, every arrival is in one second, more sessions never mean
\* less pressure, and the numbers recommended are among those analysed; a
\* requested number overflows the all-HOT pool only from the smallest one on
\* that does, and one of them does if any does.
ReportConsistent ==
  /\ RowsAccounted
  /\ stage = "given" /\ (Len(trace) > 3 \/ Complete(trace) = {}) =>
    \A report \in {Report(Analysed(trace))} :
      IsConsistent(report, report.recommendation)
=============================================================================
