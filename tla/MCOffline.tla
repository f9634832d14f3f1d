------------------------------ MODULE MCOffline ------------------------------
(* The parts of the harness that run on files, without an engine: the      *)
(* evaluations that resume from their result file, and the analysis and    *)
(* planning of a replay.  A behaviour is of one of them; the other one     *)
(* keeps its initial state.                                                *)
EXTENDS ResumableEvaluation, WorkloadReport

Record(id, parent, turn, at, len, hashes) ==
  [id |-> id, parent |-> parent, turn |-> turn, at |-> at, len |-> len,
   type |-> IF len = 1 THEN "image" ELSE "text", hashes |-> hashes]

\* Three records of one block with every choice of parents, turns and times,
\* the third one also with the id of the second.
Shape(id) == {Record(id, p, t, a, 2, <<1>>) :
                p \in {NoParent, 1, 2, 3}, t \in 1 .. 3, a \in {0, 1}}
Shapes == {<<r, s, t>> : r \in {x \in Shape(1) : x.at = 0}, s \in Shape(2),
                         t \in Shape(3) \cup {Record(2, 1, 2, 1, 2, <<1>>)}}

\* A session of two turns and one of one turn, planned before or after it,
\* with every content of up to two blocks.
Contents(id, parent, turn, at) ==
  UNION {{Record(id, parent, turn, at, n, h) : h \in [1 .. Blocks(n) -> 1 .. 3]} :
           n \in 1 .. 4}
Bodies == {<<r, s, t>> :
             r \in {x \in Contents(1, NoParent, 1, 1) : x.hashes[1] = 1},
             s \in Contents(2, 1, 2, 2),
             t \in Contents(3, NoParent, 1, 0) \cup Contents(3, NoParent, 1, 2)}

\* Up to three sessions of two or three turns that overlap in every way, with
\* a session of one turn or one that is not all text beside them.
Chat(id, start, gap, len) ==
  <<Record(id, NoParent, 1, start, len, [j \in 1 .. Blocks(len) |-> id]),
    Record(id + 1, id, 2, start + gap, 5, [j \in 1 .. 3 |-> id])>>
Longer(id, gap) == <<Record(id, id - 1, 3, 4 + gap, 6, [j \in 1 .. 3 |-> 1])>>
Workloads ==
  {Chat(1, 0, g1, l1) \o Longer(3, h) \o Chat(4, s2, g2, 4)
       \o (IF g3 = 3 THEN <<Chat(6, s3, g3, l3)[1]>> ELSE Chat(6, s3, g3, l3)) :
     g1 \in {0, 4}, h \in 1 .. 2, l1 \in {2, 4}, s2 \in 0 .. 2, g2 \in {0, 2},
     s3 \in 0 .. 2, g3 \in 0 .. 3, l3 \in {1, 4}}

AllTraces == Shapes \cup Bodies \cup Workloads
Third == <<1, 3>>
TurnsWanted(records) == IF Len(records) <= 3 THEN 1 ELSE 2

\* A budget of four all-HOT blocks, or of three and a pool of two slots.
SmallLayout ==
  [layers |-> 1, heads |-> 1, headDim |-> 3, blockSize |-> 2, alignment |-> 4,
   hot |-> 2, warm |-> 1, scale |-> 1, int |-> 1]
Watermarks == {<<90, 75>>, <<80, 65>>, <<70, 55>>}
MiddleWatermarks == <<80, 65>>

\* The part that is not used: no trace was given, or the file is complete.
NoTrace(state) ==
  /\ trace = <<>> /\ stage = state
  /\ selected = <<>> /\ prompts = <<>> /\ store = <<>>
EvaluationUnused ==
  /\ script = "math500" /\ tooLong = {} /\ tail = NoTail
  /\ lines = [n \in 1 .. Examples |-> n - 1] /\ csv = lines
  /\ phase = "off" /\ todo = <<>> /\ outcome = "ok" /\ crashes = 0
OfflineUnused == NoTrace("none") /\ EvaluationUnused

Evaluating == stage = "evaluating"
offlineVars == <<evalVars, traceVars>>

OfflineInit == \/ EvalInit /\ NoTrace("evaluating")
               \/ TraceInit /\ EvaluationUnused
OfflineNext == \/ Evaluating /\ EvalNext /\ UNCHANGED traceVars
               \/ TraceNext /\ UNCHANGED evalVars
\* The operator invokes the script again until it is done, and a call of
\* llm.generate succeeds when it is tried often enough.
OfflineFairness ==
  /\ WF_evalVars(Evaluating /\ Invoke) /\ WF_evalVars(Evaluating /\ Work)
  /\ SF_evalVars(Evaluating /\ MathBatch) /\ SF_evalVars(Evaluating /\ QasperExample)
=============================================================================
