----------------------------- MODULE QualityReport -----------------------------
(***************************************************************************)
(* run_hkv_gsm8k_resume_quality.py before and after its engine: the        *)
(* questions it chooses, the capacity report that may refuse to start, and *)
(* the verdict over what the run has left behind, with its comparison to a *)
(* baseline.  The run in between is ResumeQuality, the classification of   *)
(* the answers PairedEvaluation, the ballast under the real policy         *)
(* ResumePreflight.                                                        *)
(*                                                                         *)
(* The tokenizer is external: chat gives the tokens of a first turn for a  *)
(* question and its shots, turn2 those of the second.  A digest stands for *)
(* what it is the digest of.                                               *)
(***************************************************************************)
EXTENDS PairedEvaluation, RunConfiguration, FiniteSetsExt

-----------------------------------------------------------------------------
(* load_gsm8k_subset and build_prompt_plans.                               *)

\* Lines of a file are counted from 0.
Chosen(records, start, limit) ==
  [i \in start .. start + limit - 1 |-> records[i + 1]]

SubsetAccepted(data, a) ==
  /\ a.questions > 0 /\ a.shots >= 0 /\ a.first >= 0 /\ a.firstShot >= 0
  /\ data.train # <<>> /\ data.test # <<>>
  /\ a.shots > 0 =>
       /\ a.firstShot + a.shots <= Len(data.train)
       /\ \A i \in a.firstShot .. a.firstShot + a.shots - 1 :
            data.train[i + 1].gold # NoAnswer
  /\ a.first + a.questions <= Len(data.test)
  /\ \A i \in a.first .. a.first + a.questions - 1 :
       data.test[i + 1].gold # NoAnswer

\* The plan of each question, by its index in the test file.
PromptPlans(data, a) ==
  LET shots == Chosen(data.train, a.firstShot, a.shots)
      questions == Chosen(data.test, a.first, a.questions)
  IN [i \in DOMAIN questions |->
        [gold |-> questions[i].gold,
         turn1 |-> data.chat[<<questions[i].question, shots>>],
         turn2 |-> data.turn2]]

-----------------------------------------------------------------------------
(* build_capacity_report and plan_ballast_allocation.  hot is the derived  *)
(* number of HOT blocks, absent without a budget.                          *)

CompleteBlocks(plan) == Len(plan.turn1) \div 16
HotBlocksOfTurn1(plan) == CeilDivide(Len(plan.turn1), 16)

PlannedComplete(plans) ==
  MapThenSumSet(LAMBDA i : CompleteBlocks(plans[i]), DOMAIN plans)
PlannedHot(plans) ==
  MapThenSumSet(LAMBDA i : HotBlocksOfTurn1(plans[i]), DOMAIN plans)

UsableHot(hot) == IF hot > 1 THEN hot - 1 ELSE 0

PlannedBallast(a, hot, turn1) ==
  IF a.mixed
  THEN RequiredBallast(UsableHot(hot), CHOOSE start \in a.start : TRUE, a.margin, turn1)
  ELSE 0

\* A ballast request that is launched fills its blocks with the prompt and
\* generates one token.
BallastTokens(share) == IF share > 0 THEN share * 16 + 1 ELSE 0

FeasibleBallast(a, hot, turn1) ==
  LET required == PlannedBallast(a, hot, turn1) IN
  /\ a.ballast > 0
  /\ \A n \in 0 .. a.ballast - 1 :
       BallastTokens(BallastShare(required, a.ballast, n)) <= a.maxLen
  /\ required <= IF turn1 <= UsableHot(hot) THEN UsableHot(hot) - turn1 ELSE 0

FeasiblePlans(a, plans, derived) ==
  /\ \A i \in DOMAIN plans :
       /\ Len(plans[i].turn1) + Len(plans[i].turn2) <= a.maxLen
       /\ Len(plans[i].turn1) > 0
  /\ \A hot \in derived : PlannedHot(plans) <= UsableHot(hot)
  /\ a.mixed =>
       /\ Given(derived)
       /\ \A i \in DOMAIN plans : CompleteBlocks(plans[i]) \in 1 .. PoolBlocks(a)
       /\ PlannedComplete(plans) <= PoolBlocks(a)
       /\ Cardinality(DOMAIN plans) + a.ballast <= a.maxSeqs
       /\ \A hot \in derived : FeasibleBallast(a, hot, PlannedHot(plans))

\* A refused plan is written and starts no engine.
Starts(a, plans, derived) == ~a.preflight /\ FeasiblePlans(a, plans, derived)

-----------------------------------------------------------------------------
(* The verdict of run.  A run maps each question to what its session left: *)
(* the snapshot before turn 2, counters of mixed reads and the answer.     *)

\* record_pre_resume_inspect.
CleanBeforeResume(a, s) ==
  IF a.mixed
  THEN CompleteBlocksAreWarm(s.complete, s.residency, s.id, s.numBlocks)
  ELSE s.residency = {} /\ s.before = 0

Qualities(a, sessions) ==
  [i \in DOMAIN sessions |-> SessionQuality(a.mixed, sessions[i])]

\* build_experiment_fingerprint: neither the mode nor the watermarks, but the
\* ballast, the data and every prompt.
QualityFingerprint(data, a) ==
  [model |-> a.model, seed |-> a.seed, train |-> data.train, test |-> data.test,
   first |-> a.first, questions |-> a.questions, shots |-> a.shots,
   firstShot |-> a.firstShot,
   turn1 |-> [i \in DOMAIN PromptPlans(data, a) |-> PromptPlans(data, a)[i].turn1],
   turn2 |-> data.turn2, tokens |-> a.maxTokens, utilization |-> a.utilization,
   maxLen |-> a.maxLen, budget |-> a.budget, maxSeqs |-> a.maxSeqs,
   ballast |-> a.ballast]

\* failed: an exception ended the run, or turns overlapped.
RunErrors(l, a, r) ==
  \/ r.failed
  \/ \E i \in DOMAIN r.sessions : ~CleanBeforeResume(a, r.sessions[i])
  \/ \E total \in a.budget : r.memory # DerivedReport(l, a, total)
  \/ SummaryRefused(a.mixed, Qualities(a, r.sessions))
  \/ ~r.consistent \/ ~r.cleaned

\* Another experiment's baseline fails the run and is not compared; the mode
\* and the verdict of the baseline are not looked at.
QualityPassed(l, data, a, r, baseline) ==
  /\ ~RunErrors(l, a, r)
  /\ \A b \in baseline : b.fingerprint = QualityFingerprint(data, a)
=============================================================================
