---------------------------- MODULE TraceSessions ----------------------------
(***************************************************************************)
(* From an anonymised Qwen-Bailian request trace to the turns a replay     *)
(* sends (qwen_bailian_trace.py, select_sessions of                        *)
(* run_qwen_bailian_replay.py): the records are grouped into linear        *)
(* sessions, whole sessions are selected, and the prompt of every turn is  *)
(* rebuilt block by block so that equal block hashes become equal tokens.  *)
(*                                                                         *)
(* A record is [id, parent, turn, at, len, type, hashes]; parent is        *)
(* NoParent for the first turn of a session.  The token made for a hash at *)
(* an offset is the pair of both: the digest is taken to have no           *)
(* collisions.                                                             *)
(***************************************************************************)
EXTENDS Integers, FiniteSets, SequencesExt

CONSTANTS Traces,       \* the traces to try, sequences of records
          BlockSize,    \* tokens in a block (16 in the code)
          MinTurns(_),  \* min_turns, for the records it is given
          MaxLength, MaxSessions,  \* the other selection filters
          OnlyType      \* request type to keep, or AnyType

NoParent == -1
AnyType == "all"

ASSUME BlockSizeAssumption == BlockSize \in Nat \ {0}

VARIABLES trace,        \* the records of the file, in its order
          stage,        \* "given", "planning", "planned" or "rejected"
          selected,     \* the selected sessions, each its records in order
          prompts,      \* prompt token by token, of every planned record
          store         \* the block kept for each hash already met

traceVars == <<trace, stage, selected, prompts, store>>

TraceInit ==
  /\ trace \in Traces /\ stage = "given"
  /\ selected = <<>> /\ prompts = <<>> /\ store = <<>>

-----------------------------------------------------------------------------
(* BailianRecord.validate.                                                 *)

Blocks(n) == (n + BlockSize - 1) \div BlockSize

ValidRecord(r) ==
  /\ r.id >= 0 /\ r.parent >= NoParent /\ r.at >= 0 /\ r.len > 0 /\ r.turn > 0
  /\ Len(r.hashes) = Blocks(r.len)

(* group_linear_sessions.                                                  *)

UniqueIds(records) ==
  \A i, j \in DOMAIN records : records[i].id = records[j].id => i = j

ParentOf(r, records) == {p \in ToSet(records) : p.id = r.parent}

\* The n-th ancestor of a record, as a set: empty when there is none.
Ancestor(r, records) ==
  LET up[n \in 0 .. Len(records)] ==
        IF n = 0 THEN {r} ELSE UNION {ParentOf(p, records) : p \in up[n - 1]}
  IN  up

\* The roots above r: none when a parent is missing or the walk comes round.
Roots(r, records) ==
  {p \in UNION {Ancestor(r, records)[n] : n \in 0 .. Len(records)} :
     p.parent = NoParent}

TurnOrder(a, b) ==
  \/ a.turn < b.turn
  \/ a.turn = b.turn /\ a.at < b.at
  \/ a.turn = b.turn /\ a.at = b.at /\ a.id < b.id

SessionOf(root, records) ==
  SetToSortSeq({r \in ToSet(records) : root \in Roots(r, records)}, TurnOrder)

TurnsConsecutive(session) ==
  \A i \in 1 .. Len(session) - 1 :
     /\ session[i + 1].turn = session[i].turn + 1
     /\ session[i + 1].at >= session[i].at

\* Mutant: the parents are not compared.
ParentsUnchecked(session) ==
  session[1].parent = NoParent /\ TurnsConsecutive(session)

Linear(session) ==
  /\ session[1].parent = NoParent
  /\ \A i \in 1 .. Len(session) - 1 : session[i + 1].parent = session[i].id
  /\ TurnsConsecutive(session)

Groupable(records) ==
  /\ UniqueIds(records)
  /\ \A r \in ToSet(records) : Roots(r, records) # {}
  /\ \A root \in {r \in ToSet(records) : r.parent = NoParent} :
       Linear(SessionOf(root, records))

Sessions(records) ==
  {SessionOf(root, records) :
     root \in {r \in ToSet(records) : r.parent = NoParent}}

-----------------------------------------------------------------------------
(* select_sessions: filters keep or drop a whole session.                  *)

Keeps(r) ==
  /\ OnlyType = AnyType \/ r.type = OnlyType
  /\ MaxLength = 0 \/ r.len <= MaxLength

\* Mutant: records are filtered one by one.
DropsSingleRecords(records) ==
  {SelectSeq(s, Keeps) : s \in {t \in Sessions(records) : Len(t) >= MinTurns(records)}}
    \ {<<>>}

Eligible(records) ==
  {s \in Sessions(records) : Len(s) >= MinTurns(records) /\ \A r \in ToSet(s) : Keeps(r)}

StartsBefore(s, t) ==
  \/ s[1].at < t[1].at
  \/ s[1].at = t[1].at /\ s[1].id < t[1].id

Select ==
  /\ stage = "given"
  /\ \/ /\ trace # <<>> /\ \A r \in ToSet(trace) : ValidRecord(r)
        /\ Groupable(trace) /\ Eligible(trace) # {}
        /\ LET all == SetToSortSeq(Eligible(trace), StartsBefore) IN
             selected' = IF MaxSessions = 0 \/ Len(all) <= MaxSessions THEN all
                         ELSE SubSeq(all, 1, MaxSessions)
        /\ stage' = "selected"
     \/ /\ \/ trace = <<>> \/ \E r \in ToSet(trace) : ~ValidRecord(r)
           \/ ~Groupable(trace) \/ Eligible(trace) = {}
        /\ stage' = "rejected" /\ UNCHANGED selected
  /\ UNCHANGED <<trace, prompts, store>>

\* build_replay_plan receives the records and groups them once more.
Regroup ==
  /\ stage = "selected"
  /\ stage' = IF Groupable(FlattenSeq(selected)) THEN "planning" ELSE "rejected"
  /\ UNCHANGED <<trace, selected, prompts, store>>

-----------------------------------------------------------------------------
(* _extend_session_tokens with HashTokenBlockStore.get_block.              *)

\* One round of the loop: the block of the next missing token is looked up, or
\* made to continue the tokens its turn's predecessor left in it.
ExtendedByBlock(s, r) ==
  LET at == Len(s.tokens) \div BlockSize
      offset == Len(s.tokens) % BlockSize
      hash == r.hashes[at + 1]
      prefix == SubSeq(s.tokens, at * BlockSize + 1, Len(s.tokens))
      block == IF hash \in DOMAIN s.store THEN s.store[hash]
               ELSE prefix \o [o \in 1 .. BlockSize - offset |-> <<hash, offset + o>>]
      last == IF r.len < (at + 1) * BlockSize THEN r.len - at * BlockSize
              ELSE BlockSize
  IN  [tokens |-> s.tokens \o SubSeq(block, offset + 1, last),
       store |-> [h \in DOMAIN s.store \cup {hash} |->
                    IF h = hash THEN block ELSE s.store[h]],
       ok |-> s.ok /\ SubSeq(block, 1, offset) = prefix]

Extended(before, r) ==
  LET after[n \in 0 .. Len(r.hashes)] ==
        IF n = 0 THEN [tokens |-> before, store |-> store, ok |-> TRUE]
        ELSE IF Len(after[n - 1].tokens) >= r.len \/ ~after[n - 1].ok
        THEN after[n - 1] ELSE ExtendedByBlock(after[n - 1], r)
  IN  after[Len(r.hashes)]

\* Mutant: the hashes are not compared.
ContinuesLengthOnly(previous, r) == r.len >= previous.len

Continues(previous, r) ==
  /\ r.len >= previous.len
  /\ \A j \in 1 .. previous.len \div BlockSize : r.hashes[j] = previous.hashes[j]

\* The record planned next and the prompt it continues.
BuildTurn ==
  LET flat == FlattenSeq(selected)
      r == flat[Len(prompts) + 1]
      first == r.parent = NoParent
      before == IF first THEN <<>> ELSE Last(prompts)
      turn == Extended(before, r)
      accepted == /\ IF first THEN r.turn = 1 ELSE Continues(flat[Len(prompts)], r)
                  /\ turn.ok
  IN  /\ stage = "planning" /\ Len(prompts) < Len(flat)
      /\ \/ /\ accepted
            /\ prompts' = Append(prompts, turn.tokens) /\ store' = turn.store
            /\ stage' = IF Len(prompts') = Len(flat) THEN "planned" ELSE stage
         \/ ~accepted /\ stage' = "rejected" /\ UNCHANGED <<prompts, store>>
      /\ UNCHANGED <<trace, selected>>

TraceDone == stage \in {"planned", "rejected"} /\ UNCHANGED traceVars

TraceNext == Select \/ Regroup \/ BuildTurn \/ TraceDone

-----------------------------------------------------------------------------
(* Properties.                                                             *)

\* The reference for a trace of linear sessions, record by record: no id comes
\* twice, every parent is there, has one child and is its child's predecessor
\* in turn and time.  This is what the grouping accepts, cycles included.
LinearByRecords(records) ==
  /\ UniqueIds(records)
  /\ \A r \in ToSet(records) : r.parent # NoParent =>
       \E p \in ParentOf(r, records) : r.turn = p.turn + 1 /\ r.at >= p.at
  /\ \A r, q \in ToSet(records) :
       r.parent # NoParent /\ r.parent = q.parent => r = q

\* And selecting never breaks a parent chain: the selected records group
\* again, into the same sessions ("Filter whole sessions so no parent chain is
\* accidentally broken").
GroupingExact ==
  /\ stage = "given" => (Groupable(trace) <=> LinearByRecords(trace))
  /\ stage = "selected" =>
       /\ Groupable(FlattenSeq(selected))
       /\ Sessions(FlattenSeq(selected)) = ToSet(selected)

\* Wherever two planned prompts, of one session or of two, have the same hash
\* for a complete block, they have the same tokens there: what the trace's
\* prefix cache could share, the replay shares.
SameHashSameTokens ==
  LET flat == FlattenSeq(selected)
      block(k, j) == SubSeq(prompts[k], (j - 1) * BlockSize + 1, j * BlockSize)
  IN  \A k, m \in DOMAIN prompts :
        \A i \in 1 .. flat[k].len \div BlockSize :
          \A j \in 1 .. flat[m].len \div BlockSize :
            flat[k].hashes[i] = flat[m].hashes[j] => block(k, i) = block(m, j)
=============================================================================
