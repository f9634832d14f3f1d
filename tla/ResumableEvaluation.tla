------------------------- MODULE ResumableEvaluation -------------------------
(***************************************************************************)
(* The two long single-model evaluations of the experiment harness that    *)
(* can be killed and invoked again: MATH-500                               *)
(* (run_math500_baseline.py) and the complete Qasper-E set                 *)
(* (run_qasper_e_full_baseline.py).  Both keep their progress only in an   *)
(* append-only JSONL file: an invocation reads it, skips the dataset       *)
(* indices it finds and appends the rest.  A kill may cut an append        *)
(* anywhere, also inside a line, and what the next invocation makes of the *)
(* cut line is where the two scripts differ.                               *)
(*                                                                         *)
(* A line of the file is the dataset index of its record, or Bad when it   *)
(* does not parse.  tail is the text after the last newline: NoTail, Torn  *)
(* (part of a record), Split (part of a record that ends inside a character*)
(* of several bytes: the records are written as UTF-8 without escapes) or  *)
(* the index of a record that lacks only its newline.  Nothing is ever     *)
(* appended to a Split tail: no invocation starts over one.                *)
(* The CSV rows are short enough to be written whole.                      *)
(***************************************************************************)
EXTENDS Integers, FiniteSets, SequencesExt, Subsequences

CONSTANTS Examples,     \* number of examples selected from the dataset
          BatchSize,    \* prompts generated together by the MATH-500 script
          MaxCrashes    \* bound: kills of the process in one behaviour

ASSUME ExamplesAssumption == Examples \in Nat \ {0}
ASSUME BatchAssumption == BatchSize \in Nat \ {0}

VARIABLES script,       \* "math500" or "qasper"
          tooLong,      \* indices whose prompt exceeds the model length
          lines, tail,  \* the JSONL file
          csv,          \* the CSV file, a sequence of indices
          phase,        \* "off", "running" or "saving" (CSV being rewritten)
          todo,         \* indices this invocation has still to evaluate
          outcome,      \* how the last invocation ended
          crashes

evalVars == <<script, tooLong, lines, tail, csv, phase, todo, outcome, crashes>>

Index == 0 .. Examples - 1
Bad == -1
NoTail == -2
Torn == -3
Split == -4

EvalInit ==
  /\ script \in {"math500", "qasper"}
  /\ tooLong \in {{}} \cup {{i} : i \in Index}
  /\ lines = <<>> /\ tail = NoTail /\ csv = <<>>
  /\ phase = "off" /\ todo = <<>> /\ outcome = "none" /\ crashes = 0

-----------------------------------------------------------------------------
(* The JSONL file.                                                         *)

\* The lines a reader sees: the text after the last newline is one of them.
AllLines == lines \o CASE tail = NoTail          -> <<>>
                       [] tail \in {Torn, Split} -> <<Bad>>
                       [] OTHER                  -> <<tail>>

Readable == {i \in Index : \E k \in DOMAIN AllLines : AllLines[k] = i}
Unparsable == \E k \in DOMAIN AllLines : AllLines[k] = Bad

\* Reading the file to its end raises UnicodeDecodeError.
Undecodable == tail = Split

\* Records appended after an unterminated line: the first one joins that line,
\* which then parses as nothing.
Written(records) ==
  IF tail = NoTail \/ records = <<>> THEN records
  ELSE <<Bad>> \o Tail(records)

\* Mutant: the newline comes before the next record.
AppendWithoutNewline(records) ==
  /\ lines' = lines \o SubSeq(Written(records), 1, Len(records) - 1)
  /\ tail' = IF Last(Written(records)) = Bad THEN Torn ELSE Last(records)

AppendRecords(records) ==
  /\ lines' = lines \o Written(records)
  /\ tail' = IF records = <<>> THEN tail ELSE NoTail

\* The process is killed when `whole` records of an append are in the file and
\* the next one is there in part, but for its newline, or not at all.
CutAppendRecords(records) ==
  \E whole \in 0 .. Len(records) :
     LET done == SubSeq(Written(records), 1, whole) IN
     /\ lines' = lines \o done
     /\ \/ tail' = IF whole = 0 THEN tail ELSE NoTail
        \/ /\ whole < Len(records)
           /\ tail' \in {Torn, Split} \cup
                          IF whole = 0 /\ tail # NoTail THEN {}
                          ELSE {records[whole + 1]}

-----------------------------------------------------------------------------
(* Starting an invocation.                                                 *)

\* The examples in the order of the dataset, and those still to be done.
selected_examples == [n \in 1 .. Examples |-> n - 1]
pending_examples(done) == Only(selected_examples, Index \ done)

\* MATH-500 refuses a file with one invalid line.  Qasper-E skips such lines,
\* but it decodes the file outside its try.
MathStart ==
  /\ script = "math500" /\ phase = "off"
  /\ IF Unparsable
     THEN outcome' = "error" /\ UNCHANGED <<phase, todo>>
     ELSE /\ todo' = pending_examples(Readable)
          /\ phase' = IF todo' = <<>> THEN "saving" ELSE "running"
          /\ outcome' = "none"
  /\ UNCHANGED <<script, tooLong, lines, tail, csv, crashes>>

\* Mutant: the CSV rows say what is done.
MeasuredCountsAsDone ==
  /\ script = "qasper" /\ phase = "off"
  /\ IF Undecodable
     THEN outcome' = "error" /\ UNCHANGED <<phase, todo>>
     ELSE /\ todo' = pending_examples(ToSet(csv))
          /\ phase' = "running" /\ outcome' = "none"
  /\ UNCHANGED <<script, tooLong, lines, tail, csv, crashes>>

QasperStart ==
  /\ script = "qasper" /\ phase = "off"
  /\ IF Undecodable
     THEN outcome' = "error" /\ UNCHANGED <<phase, todo>>
     ELSE /\ todo' = pending_examples(Readable)
          /\ phase' = "running" /\ outcome' = "none"
  /\ UNCHANGED <<script, tooLong, lines, tail, csv, crashes>>

-----------------------------------------------------------------------------
(* MATH-500: a batch is generated, verified and appended as one write.     *)

Batch == SubSeq(todo, 1, IF Len(todo) < BatchSize THEN Len(todo) ELSE BatchSize)

MathBatch ==
  /\ script = "math500" /\ phase = "running" /\ todo # <<>>
  /\ AppendRecords(Batch)
  /\ todo' = SubSeq(todo, Len(Batch) + 1, Len(todo))
  /\ UNCHANGED <<script, tooLong, csv, phase, outcome, crashes>>

\* After the last batch the file is read back; an invalid line is an error.
MathReread ==
  /\ script = "math500" /\ phase = "running" /\ todo = <<>>
  /\ IF Unparsable THEN phase' = "off" /\ outcome' = "error"
                   ELSE phase' = "saving" /\ UNCHANGED outcome
  /\ UNCHANGED <<script, tooLong, lines, tail, csv, todo, crashes>>

\* The CSV is rewritten from every record of the file.  An invocation that had
\* nothing to do writes them in file order, the others sorted by index: the
\* order of the rows is left out.
MathSave ==
  /\ script = "math500" /\ phase = "saving"
  /\ csv' = AllLines
  /\ phase' = "off" /\ outcome' = "ok"
  /\ UNCHANGED <<script, tooLong, lines, tail, todo, crashes>>

\* llm.generate raises or returns a request without outputs.
GenerateFails ==
  /\ phase = "running" /\ todo # <<>>
  /\ phase' = "off" /\ outcome' = "error" /\ todo' = <<>>
  /\ UNCHANGED <<script, tooLong, lines, tail, csv, crashes>>

-----------------------------------------------------------------------------
(* Qasper-E: one example at a time, the CSV row first and then the record. *)

QasperExample ==
  /\ script = "qasper" /\ phase = "running" /\ todo # <<>>
  /\ Head(todo) \notin tooLong
  /\ csv' = csv \o <<Head(todo)>>
  /\ AppendRecords(<<Head(todo)>>)
  /\ todo' = Tail(todo)
  /\ UNCHANGED <<script, tooLong, phase, outcome, crashes>>

QasperTooLong ==
  /\ script = "qasper" /\ phase = "running" /\ todo # <<>>
  /\ Head(todo) \in tooLong
  /\ phase' = "off" /\ outcome' = "error" /\ todo' = <<>>
  /\ UNCHANGED <<script, tooLong, lines, tail, csv, crashes>>

\* The completed examples are counted from the file, read once more.
QasperFinish ==
  /\ script = "qasper" /\ phase = "running" /\ todo = <<>>
  /\ phase' = "off" /\ outcome' = IF Undecodable THEN "error" ELSE "ok"
  /\ UNCHANGED <<script, tooLong, lines, tail, csv, todo, crashes>>

-----------------------------------------------------------------------------
(* A kill (walltime, out of memory) at any point of an invocation.         *)

Killed ==
  /\ crashes < MaxCrashes /\ crashes' = crashes + 1
  /\ phase' = "off" /\ outcome' = "killed" /\ todo' = <<>>
  /\ UNCHANGED <<script, tooLong>>

CrashMathBatch ==
  /\ script = "math500" /\ phase = "running" /\ todo # <<>>
  /\ CutAppendRecords(Batch) /\ UNCHANGED csv
  /\ Killed

\* pandas truncates the CSV before it writes the rows.
CrashMathSave ==
  /\ script = "math500" /\ phase = "saving"
  /\ \E n \in 0 .. Len(AllLines) : csv' = SubSeq(AllLines, 1, n)
  /\ UNCHANGED <<lines, tail>>
  /\ Killed

\* Mutant: the record is written before the row.
CrashRecordFirst ==
  /\ script = "qasper" /\ phase = "running" /\ todo # <<>>
  /\ Head(todo) \notin tooLong
  /\ CutAppendRecords(<<Head(todo)>>) /\ UNCHANGED csv
  /\ Killed

\* Between the two writes of an example, or inside the second.
CrashQasperWrite ==
  /\ script = "qasper" /\ phase = "running" /\ todo # <<>>
  /\ Head(todo) \notin tooLong
  /\ csv' = csv \o <<Head(todo)>>
  /\ CutAppendRecords(<<Head(todo)>>)
  /\ Killed

CrashIdle ==
  /\ phase # "off"
  /\ UNCHANGED <<lines, tail, csv>>
  /\ Killed

Invoke == MathStart \/ QasperStart
Work ==
  \/ MathBatch \/ MathReread \/ MathSave
  \/ QasperExample \/ QasperTooLong \/ QasperFinish
Faults ==
  \/ GenerateFails
  \/ CrashMathBatch \/ CrashMathSave \/ CrashQasperWrite \/ CrashIdle

EvalNext == Invoke \/ Work \/ Faults

-----------------------------------------------------------------------------
(* The MATH-500 notebook reads the JSONL file of a run and pairs it with   *)
(* the one of another run.  It knows none of the columns that identify a   *)
(* record, so it numbers the rows it finds and pairs by that number.       *)

NotebookAccepts == ~Unparsable /\ Len(AllLines) = Examples
ProblemId(row) == row - 1

-----------------------------------------------------------------------------
(* Properties.                                                             *)

\* No example is recorded twice in a form a reader accepts, however often the
\* script was killed and invoked again.
RecordedOnce ==
  \A i, j \in DOMAIN AllLines :
     AllLines[i] = AllLines[j] /\ AllLines[i] # Bad => i = j

\* Nor is an answer without its measurement: a Qasper-E record that can be read
\* has its row in the CSV, which is flushed before the record is written.  (The
\* converse fails: a kill between the two leaves a row that the next invocation
\* repeats.)
RecordsSound ==
  /\ RecordedOnce
  /\ script = "qasper" => \A i \in Readable : \E k \in DOMAIN csv : csv[k] = i

\* A MATH-500 invocation that ends normally has every selected example once in
\* the JSONL file and in the CSV: one that met a cut line ends with an error.
\* And a file the notebook accepts, whatever became of the invocations that
\* wrote it, has the records in the order of the dataset: the numbers the
\* notebook gives the rows of two such files name the same problems.
MathReportComplete ==
  /\ script = "math500" /\ outcome = "ok" =>
       Readable = Index /\ Len(csv) = Examples /\ ToSet(csv) = Index
  /\ script = "math500" /\ NotebookAccepts =>
       \A row \in DOMAIN AllLines : AllLines[row] = ProblemId(row)

\* An invocation that ends normally has done what it claims, but that one of
\* Qasper-E can miss examples: the record that joined an unterminated line, and
\* the record on that line if it lacked only its newline, which counted as
\* completed.  Never more.
ReportsComplete ==
  /\ MathReportComplete
  /\ script = "qasper" /\ outcome = "ok" => Cardinality(Index \ Readable) <= 2

\* Qasper-E examples that fit, up to the first that does not, are all recorded
\* in the end, unless a kill cut a record inside a character: then no invocation
\* gets past reading the file.  MATH-500 is complete in the end or its file
\* cannot be read, and no invocation repairs that either.
EventuallyRecorded ==
  <>[] \/ script = "math500" /\ (Unparsable \/ Readable = Index)
       \/ /\ script = "qasper"
          /\ \/ Undecodable
             \/ \A i \in Index : (\A j \in tooLong : i < j) => i \in Readable
=============================================================================
