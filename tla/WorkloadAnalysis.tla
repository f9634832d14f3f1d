--------------------------- MODULE WorkloadAnalysis ---------------------------
(***************************************************************************)
(* What analyze_qwen_bailian_workload.py computes from a trace before a    *)
(* replay is run: which sessions are complete, which of them a replay of   *)
(* the first n would send, how many HOT blocks their retained histories    *)
(* would fill over time, and the smallest or best prefix of the sessions   *)
(* for a wanted load.  Everything is a function of the records; the        *)
(* properties compare it with what the replay does and with references.    *)
(***************************************************************************)
EXTENDS TraceSessions

CONSTANTS Scale,              \* time scale, a pair <<numerator, denominator>>
          LowLoad, HighLoad   \* the wanted band of peak blocks

ASSUME ScaleAssumption == Scale[1] \in Nat \ {0} /\ Scale[2] \in Nat \ {0}

-----------------------------------------------------------------------------
(* classify_linear_sessions: unlike the replay it drops what is not linear.*)

FirstsById(records) ==
  LET first(k) == \A j \in 1 .. k - 1 : records[j].id # records[k].id
      kept == SelectSeq([k \in DOMAIN records |-> k], first)
  IN  [n \in DOMAIN kept |-> records[kept[n]]]

NoIssue(session) ==
  /\ Linear(session) /\ session[1].turn = 1
  /\ \A i \in 1 .. Len(session) - 1 : Continues(session[i], session[i + 1])

Complete(records) == {s \in Sessions(FirstsById(records)) : NoIssue(s)}

\* Mutant: ordered by the id of the root alone.
ByRoot(sessions) == SetToSortSeq(sessions, LAMBDA s, t : s[1].id < t[1].id)

\* sorted_session_items.
InOrder(sessions) == SetToSortSeq(sessions, StartsBefore)

\* The sessions of several turns that filter_sessions keeps.
Analysed(records) ==
  InOrder({s \in Complete(records) :
             /\ Len(s) >= 2 /\ Len(s) >= MinTurns(records)
             /\ \A r \in ToSet(s) : Keeps(r)})

-----------------------------------------------------------------------------
(* sweep_retained_occupancy: a session of several turns is retained from   *)
(* its first turn until its last, with the prompt of the latest turn.      *)

Total(S, value(_)) == MapThenSumSet(value, S)

\* Mutant: a turn is retained until the session ends.
OpenedTwice(s) ==
  UNION {{[of |-> s, turn |-> i, at |-> s[i].at, blocks |-> Blocks(s[i].len),
           sessions |-> IF i = 1 THEN 1 ELSE 0],
          [of |-> s, turn |-> i, at |-> Last(s).at, blocks |-> -Blocks(s[i].len),
           sessions |-> IF i = Len(s) - 1 THEN -1 ELSE 0]} : i \in 1 .. Len(s) - 1}

SessionEvents(s) ==
  UNION {{[of |-> s, turn |-> i, at |-> s[i].at, blocks |-> Blocks(s[i].len),
           sessions |-> IF i = 1 THEN 1 ELSE 0],
          [of |-> s, turn |-> i, at |-> s[i + 1].at, blocks |-> -Blocks(s[i].len),
           sessions |-> IF i = Len(s) - 1 THEN -1 ELSE 0]} : i \in 1 .. Len(s) - 1}

\* The samples: all events of one moment are applied before it is sampled.
Sweep(sessions) ==
  LET events == UNION {SessionEvents(s) : s \in sessions}
      times == SetToSortSeq({e.at : e \in events}, <)
      after[n \in 0 .. Len(times)] ==
        IF n = 0 THEN [at |-> 0, retained |-> 0, blocks |-> 0]
        ELSE LET now == {e \in events : e.at = times[n]} IN
             [at |-> times[n],
              retained |-> after[n - 1].retained + Total(now, LAMBDA e : e.sessions),
              blocks |-> after[n - 1].blocks + Total(now, LAMBDA e : e.blocks)]
  IN  [n \in 1 .. Len(times) |-> after[n]]

Peak(sessions) == Max({0} \cup {r.blocks : r \in ToSet(Sweep(sessions))})

-----------------------------------------------------------------------------
(* resample_step_maxima: the largest occupancy in every second of the      *)
(* scaled time.  A sample on the border of two seconds counts for both.    *)

NotAfter(t, second) == t * Scale[1] <= second * Scale[2]
\* Mutant: the span is cut to whole seconds.
WholeSeconds(t) == (t * Scale[1]) \div Scale[2]
CeilScaled(t) == (t * Scale[1] + Scale[2] - 1) \div Scale[2]

Resampled(sessions, start, end) ==
  LET samples == Sweep(sessions)
      upTo(b) == Cardinality({n \in DOMAIN samples : NotAfter(samples[n].at - start, b)})
      blocksAfter(n) == IF n = 0 THEN 0 ELSE samples[n].blocks
  IN  IF end <= start \/ samples = <<>> THEN <<>>
      ELSE [b \in 1 .. CeilScaled(end - start) |->
              Max({blocksAfter(n) : n \in (IF b = 1 THEN 0 ELSE upTo(b - 1)) .. upTo(b)})]

-----------------------------------------------------------------------------
(* PrefixPeakIndex: the peaks of the prefixes of the ordered sessions, and *)
(* binary searches over them, 0 for none.                                  *)

PrefixPeak(order, n) == Peak({order[i] : i \in 1 .. n})
Peaks(order) == [n \in DOMAIN order |-> PrefixPeak(order, n)]

\* smallest_n: the first with a wanted peak, if larger prefixes keep it wanted.
SmallestN(peaks, wanted) ==
  LET search[lo \in 1 .. Len(peaks) + 1, hi \in 0 .. Len(peaks)] ==
        IF lo > hi THEN 0
        ELSE LET mid == (lo + hi) \div 2 IN
             IF peaks[mid] \in wanted
             THEN LET below == search[lo, mid - 1] IN IF below = 0 THEN mid ELSE below
             ELSE search[mid + 1, hi]
  IN  search[1, Len(peaks)]

\* largest_n: the last one, if smaller prefixes keep it wanted.
LargestN(peaks, wanted) ==
  LET search[lo \in 1 .. Len(peaks) + 1, hi \in 0 .. Len(peaks)] ==
        IF lo > hi THEN 0
        ELSE LET mid == (lo + hi) \div 2 IN
             IF peaks[mid] \in wanted
             THEN LET above == search[mid + 1, hi] IN IF above = 0 THEN mid ELSE above
             ELSE search[lo, mid - 1]
  IN  search[1, Len(peaks)]

Distance(a, b) == IF a < b THEN b - a ELSE a - b

\* The prefix of S with the peak nearest to half, the smaller one of equals.
\* (twice the peak is compared with twice the target, which need not be whole)
Nearest(peaks, S, twice) ==
  CHOOSE n \in S : \A m \in S :
    LET d(k) == Distance(2 * peaks[k], twice) IN
    d(n) < d(m) \/ (d(n) = d(m) /\ n <= m)

FirstReaching(peaks, lo, hi) ==
  Min({n \in lo .. hi : 2 * peaks[n] >= LowLoad + HighLoad} \cup {hi})

\* Mutant: the first prefix that reaches the target.
ReachingPrefix(peaks, lo, hi) == FirstReaching(peaks, lo, hi)

\* _closest_prefix_to_peak between lo and hi: the first that reaches the target
\* or, if it does, the one before it.
ClosestPrefix(peaks, lo, hi) ==
  Nearest(peaks,
          {FirstReaching(peaks, lo, hi)}
            \cup {n \in lo .. hi : n + 1 = FirstReaching(peaks, lo, hi)
                                   /\ 2 * peaks[n + 1] >= LowLoad + HighLoad},
          LowLoad + HighLoad)

\* find_high_load_prefix, for at least one session: if no prefix is in the
\* band, the one of the two beside it that is less far off.
LessOff(peaks, below, above) ==
  LET outside == {n \in {below, above} : n # 0}
      off(n) == IF n = below THEN LowLoad - peaks[n] ELSE peaks[n] - HighLoad
  IN  IF outside = {} THEN Len(peaks)
      ELSE CHOOSE n \in outside : \A m \in outside :
             off(n) < off(m) \/ (off(n) = off(m) /\ n <= m)

InBandOr(peaks, atLeastLow, atMostHigh, other) ==
  IF atLeastLow # 0 /\ atMostHigh # 0 /\ atLeastLow <= atMostHigh
  THEN ClosestPrefix(peaks, atLeastLow, atMostHigh) ELSE other

HighLoadPrefix(peaks) ==
  InBandOr(peaks, SmallestN(peaks, Nat \ (0 .. LowLoad - 1)),
                  LargestN(peaks, 0 .. HighLoad),
           LessOff(peaks, LargestN(peaks, 0 .. LowLoad - 1),
                          SmallestN(peaks, Nat \ (0 .. HighLoad))))

-----------------------------------------------------------------------------
(* Properties, of the trace a behaviour starts from.                       *)

\* "Selection is the same timestamp-ordered rule as
\* run_qwen_bailian_replay.select_sessions": what a replay sends in full is
\* what the analysis selected, although the one rejects a file with a broken
\* session and the other leaves that session out.  (With --min-turns 1 they
\* differ: the analysis never takes a session of one turn.)
AnalysisSelectsTheReplayed ==
  stage = "planned" /\ MinTurns(trace) >= 2 =>
    LET all == Analysed(trace) IN
    selected = IF MaxSessions = 0 \/ Len(all) <= MaxSessions THEN all
               ELSE SubSeq(all, 1, MaxSessions)

\* The sweep is the retained occupancy at every moment something happens: of
\* each session between its first and last turn, the blocks of the prompt that
\* arrived last, however many events fall on the same moment.
RetainedAt(sessions, t) ==
  Total({s \in sessions : s[1].at <= t /\ t < Last(s).at},
        LAMBDA s : Blocks(s[Max({i \in DOMAIN s : s[i].at <= t})].len))

\* And the seconds the occupancy is resampled to lose no peak: the last sample
\* is in the last second even when the scaled span is not whole.
OccupancyExact ==
  stage = "given" =>
    LET sessions == Complete(trace)
        samples == Sweep(sessions)
        times == {r.at : r \in UNION {ToSet(s) : s \in sessions}}
        buckets == Resampled(sessions, Min(times), Max(times))
    IN /\ \A n \in DOMAIN samples :
            samples[n].blocks = RetainedAt(sessions, samples[n].at)
       /\ sessions # {} /\ buckets # <<>> => Max(ToSet(buckets)) = Peak(sessions)

\* How far a peak is outside the band.
Away(peak) == IF peak < LowLoad THEN LowLoad - peak
              ELSE IF peak > HighLoad THEN peak - HighLoad ELSE 0

NoneIsBetter(peaks, best) ==
  \A n \in DOMAIN peaks :
    \/ Away(best) < Away(peaks[n])
    \/ /\ Away(best) = Away(peaks[n])
       /\ \/ Away(best) # 0
          \/ Distance(2 * best, LowLoad + HighLoad)
               <= Distance(2 * peaks[n], LowLoad + HighLoad)

\* A longer prefix never has a lower peak, so the binary searches find what a
\* search of all prefixes would, and the recommended prefix is in the band if
\* any prefix is, nearest to its middle, and nearest to the band otherwise.
BestPrefixFound ==
  stage = "given" =>
    \A peaks \in {Peaks(Analysed(trace))} :
      peaks # <<>> => NoneIsBetter(peaks, peaks[HighLoadPrefix(peaks)])
=============================================================================
