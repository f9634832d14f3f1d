----------------------------- MODULE TraceReplay -----------------------------
(***************************************************************************)
(* One run of run_qwen_bailian_replay.py: a task per session sends the     *)
(* turns at their times and reads the outputs, an observer samples the     *)
(* WARM pool, and the driver waits for the sessions or the timeout, drains *)
(* the WARM pool, shuts the engine down and judges the run.                *)
(*                                                                         *)
(* The engine is reduced to what the client sees of it: every turn but the *)
(* last yields one token, the last one FinalTokens; an idle session may    *)
(* turn WARM and loses that when its request is gone.  Outputs reach the   *)
(* client through RequestOutputCollector, one slot per session in which    *)
(* outputs that come faster than they are read are merged.                 *)
(***************************************************************************)
EXTENDS Integers, FiniteSets, SequencesExt

CONSTANTS Replayed,        \* the sessions
          TurnsOf(_),      \* number of turns of a session
          FinalTokens      \* max_tokens_per_turn, used by the last turn

ASSUME TurnsAssumption == \A s \in Replayed : TurnsOf(s) \in Nat \ {0}
ASSUME TokensAssumption == FinalTokens \in Nat \ {0}

VARIABLES
  sent, closed,     \* turns sent; the input stream has ended
  made, alive,      \* tokens generated; the engine holds the request
  warmed,           \* the session owns WARM blocks
  slot,             \* the collector's output, or Empty
  finished, credit, \* finish_index; the tokens credited to each turn
  task,             \* "running", "done", "cancelled" or "failed"
  stageOf,          \* the driver's place in run()
  timedOut, seen, drained, verdict

engineVars == <<sent, closed, made, alive, warmed, slot>>
clientVars == <<finished, credit, task>>
driverVars == <<stageOf, timedOut, seen, drained, verdict>>
replayVars == <<engineVars, clientVars, driverVars>>

Empty == [tokens |-> <<>>, reason |-> FALSE, last |-> FALSE]

\* The turn of the n-th token a session generates, and all it generates.
TurnOfToken(s, n) == IF n < TurnsOf(s) THEN n ELSE TurnsOf(s)
AllTokens(s) == TurnsOf(s) - 1 + FinalTokens
Expected(s, t) == [n \in 1 .. (IF t = TurnsOf(s) THEN FinalTokens ELSE 1) |-> t]

ReplayInit ==
  /\ sent = [s \in Replayed |-> 0] /\ closed = [s \in Replayed |-> FALSE]
  /\ made = [s \in Replayed |-> 0] /\ alive = [s \in Replayed |-> TRUE]
  /\ warmed = [s \in Replayed |-> FALSE]
  /\ slot = [s \in Replayed |-> Empty]
  /\ finished = [s \in Replayed |-> 0]
  /\ credit = [s \in Replayed |-> [t \in 1 .. TurnsOf(s) |-> <<>>]]
  /\ task = [s \in Replayed |-> "running"]
  /\ stageOf = "working" /\ timedOut = FALSE
  /\ seen = FALSE /\ drained = FALSE /\ verdict = "none"

-----------------------------------------------------------------------------
(* The input stream of a session: turns go out at their times, whatever    *)
(* the outputs of the turns before; the stream is closed after the output  *)
(* of the last turn has been read.                                         *)

Send(s) ==
  /\ task[s] = "running" /\ stageOf = "working" /\ sent[s] < TurnsOf(s)
  /\ sent' = [sent EXCEPT ![s] = @ + 1]
  /\ UNCHANGED <<closed, made, alive, warmed, slot, clientVars, driverVars>>

CloseStream(s) ==
  /\ task[s] = "running" /\ stageOf = "working"
  /\ ~closed[s] /\ sent[s] = TurnsOf(s) /\ finished[s] = TurnsOf(s)
  /\ closed' = [closed EXCEPT ![s] = TRUE]
  /\ UNCHANGED <<sent, made, alive, warmed, slot, clientVars, driverVars>>

-----------------------------------------------------------------------------
(* The engine and RequestOutputCollector.put with RequestOutput.add.       *)

\* Mutant: a merged output keeps any finish reason.
FirstReasonKept(old, new) ==
  [tokens |-> old.tokens \o new.tokens, reason |-> old.reason \/ new.reason,
   last |-> old.last \/ new.last]

\* The finish reason is that of the newest output, unless it is the empty one
\* that ends the stream.
Merged(old, new) ==
  [tokens |-> old.tokens \o new.tokens,
   reason |-> IF new.last THEN old.reason ELSE new.reason,
   last |-> old.last \/ new.last]

Token(s) ==
  LET n == made[s] + 1
      t == TurnOfToken(s, n)
  IN  /\ alive[s] /\ n <= AllTokens(s) /\ sent[s] >= t
      /\ made' = [made EXCEPT ![s] = n]
      /\ slot' = [slot EXCEPT ![s] =
           Merged(@, [tokens |-> <<t>>, last |-> FALSE,
                      reason |-> t < TurnsOf(s) \/ n = AllTokens(s)])]
      /\ UNCHANGED <<sent, closed, alive, warmed, clientVars, driverVars>>

EndOfStream(s) ==
  /\ alive[s] /\ closed[s]
  /\ alive' = [alive EXCEPT ![s] = FALSE]
  /\ slot' = [slot EXCEPT ![s] =
                Merged(@, [tokens |-> <<>>, reason |-> FALSE, last |-> TRUE])]
  /\ UNCHANGED <<sent, closed, made, warmed, clientVars, driverVars>>

\* Between two turns the blocks may be demoted; they go with the request.
Demote(s) ==
  /\ alive[s] /\ ~warmed[s] /\ 0 < made[s] /\ made[s] = sent[s]
  /\ made[s] < TurnsOf(s)
  /\ warmed' = [warmed EXCEPT ![s] = TRUE]
  /\ UNCHANGED <<sent, closed, made, alive, slot, clientVars, driverVars>>

ReleaseWarm(s) ==
  /\ ~alive[s] /\ warmed[s]
  /\ warmed' = [warmed EXCEPT ![s] = FALSE]
  /\ UNCHANGED <<sent, closed, made, alive, slot, clientVars, driverVars>>

-----------------------------------------------------------------------------
(* run_session: reading one output.                                        *)

Read(s) ==
  LET out == slot[s]
      at == finished[s] + 1
      counts == at <= TurnsOf(s)
  IN  /\ task[s] = "running" /\ stageOf = "working" /\ out # Empty
      /\ slot' = [slot EXCEPT ![s] = Empty]
      /\ credit' = IF counts
                   THEN [credit EXCEPT ![s][at] = @ \o out.tokens] ELSE credit
      /\ finished' = IF out.reason /\ counts
                     THEN [finished EXCEPT ![s] = @ + 1] ELSE finished
      /\ task' = IF ~out.last THEN task
                 ELSE [task EXCEPT ![s] = IF finished'[s] = TurnsOf(s)
                                          THEN "done" ELSE "failed"]
      /\ UNCHANGED <<sent, closed, made, alive, warmed, driverVars>>

\* The engine refuses the session or dies under it.
SessionFails(s) ==
  /\ task[s] = "running" /\ stageOf = "working"
  /\ task' = [task EXCEPT ![s] = "failed"]
  /\ alive' = [alive EXCEPT ![s] = FALSE]
  /\ UNCHANGED <<sent, closed, made, warmed, slot, finished, credit, driverVars>>

\* A cancelled session aborts its request and returns what it has.
Cancelled(s) ==
  /\ task[s] = "running" /\ stageOf \in {"cancelling", "failing"}
  /\ task' = [task EXCEPT ![s] = "cancelled"]
  /\ alive' = [alive EXCEPT ![s] = FALSE]
  /\ UNCHANGED <<sent, closed, made, warmed, slot, finished, credit, driverVars>>

\* Mutant: a timeout cancels nobody.
CancelledOnError(s) ==
  /\ task[s] = "running" /\ stageOf = "failing"
  /\ task' = [task EXCEPT ![s] = "cancelled"]
  /\ alive' = [alive EXCEPT ![s] = FALSE]
  /\ UNCHANGED <<sent, closed, made, warmed, slot, finished, credit, driverVars>>

CancelTask(s) == Cancelled(s)

-----------------------------------------------------------------------------
(* run: the driver.                                                        *)

AnyWarm == \E s \in Replayed : warmed[s]
Settled == \A s \in Replayed : task[s] # "running"

Drive(from, to) == stageOf = from /\ stageOf' = to

SessionsDone ==
  /\ Drive("working", "draining") /\ \A s \in Replayed : task[s] = "done"
  /\ UNCHANGED <<engineVars, clientVars, timedOut, seen, drained, verdict>>

SessionFailed ==
  /\ Drive("working", "failing") /\ \E s \in Replayed : task[s] = "failed"
  /\ UNCHANGED <<engineVars, clientVars, timedOut, seen, drained, verdict>>

\* wait_for cancels the sessions and waits until they have ended.
Timeout ==
  /\ Drive("working", "cancelling") /\ ~Settled
  /\ timedOut' = TRUE
  /\ UNCHANGED <<engineVars, clientVars, seen, drained, verdict>>

\* The snapshot of the pool at the timeout is one more observation.
Snapshot ==
  /\ Drive("cancelling", "draining") /\ Settled
  /\ seen' = (seen \/ AnyWarm)
  /\ UNCHANGED <<engineVars, clientVars, timedOut, drained, verdict>>

\* Mutant: the pool is not looked at.
AssumesDrained ==
  /\ Drive("draining", "stopping")
  /\ drained' = TRUE /\ seen' = (seen \/ AnyWarm)
  /\ UNCHANGED <<engineVars, clientVars, timedOut, verdict>>

\* drain_warm_residency: until the pool is empty or the cleanup timeout.
DrainEnds ==
  /\ Drive("draining", "stopping")
  /\ drained' = ~AnyWarm /\ seen' = (seen \/ AnyWarm)
  /\ UNCHANGED <<engineVars, clientVars, timedOut, verdict>>

\* An error skips the drain: the other sessions are cancelled and that is all.
FailureSettles ==
  /\ Drive("failing", "stopping") /\ Settled
  /\ UNCHANGED <<engineVars, clientVars, timedOut, seen, drained, verdict>>

Observe ==
  /\ stageOf \notin {"stopping", "over"} /\ AnyWarm /\ ~seen
  /\ seen' = TRUE
  /\ UNCHANGED <<engineVars, clientVars, stageOf, timedOut, drained, verdict>>

\* The observer is awaited, the engine shut down, the result judged (mixed
\* mode: WARM must have been seen and must be gone).
Judge ==
  /\ Drive("stopping", "over")
  /\ verdict' = IF timedOut THEN "timeout"
                ELSE IF \E s \in Replayed : task[s] = "failed" THEN "error"
                ELSE IF seen /\ drained THEN "passed" ELSE "invalid"
  /\ UNCHANGED <<engineVars, clientVars, timedOut, seen, drained>>

ReplayOver == stageOf = "over" /\ UNCHANGED replayVars

Engine(s) == Token(s) \/ EndOfStream(s) \/ ReleaseWarm(s)
Client(s) == Send(s) \/ CloseStream(s) \/ Read(s) \/ CancelTask(s)
Driver == SessionsDone \/ SessionFailed \/ Snapshot \/ DrainEnds
            \/ FailureSettles \/ Judge

ReplayNext ==
  \/ \E s \in Replayed : Engine(s) \/ Client(s) \/ Demote(s) \/ SessionFails(s)
  \/ Driver \/ Timeout \/ Observe \/ ReplayOver

\* The event loop runs every task that can run, and the clock reaches the
\* timeout if the sessions do not end before.
ReplayFairness ==
  /\ \A s \in Replayed : WF_replayVars(Client(s))
  /\ WF_replayVars(Driver) /\ WF_replayVars(Timeout)

-----------------------------------------------------------------------------
(* Properties.                                                             *)

\* A session that counts as completed has measured its turns right: every
\* turn was credited with its own tokens.  Outputs of two turns that were
\* merged make a session that never completes, not one with wrong numbers.
CompletedTurnsExact ==
  \A s \in Replayed : finished[s] = TurnsOf(s) =>
    \A t \in 1 .. TurnsOf(s) : credit[s][t] = Expected(s, t)

\* A run that passes has completed every session, has observed WARM blocks and
\* has left none, and no request of it is alive when the engine shuts down.
PassedRunIsClean ==
  verdict = "passed" =>
    /\ seen /\ ~AnyWarm
    /\ \A s \in Replayed : task[s] = "done" /\ finished[s] = TurnsOf(s) /\ ~alive[s]
=============================================================================
