--------------------------- MODULE WarmSlotLedger ---------------------------
(***************************************************************************)
(* What the WARM-slot allocator promises its only client, the migration    *)
(* manager: a ledger of slot ownership that changes one whole transaction  *)
(* at a time.  A migration asks for the blocks it needs; then either every *)
(* one of them has a slot, or the request leaves no trace in the ledger,   *)
(* and until then nobody's slot changes hands.                             *)
(***************************************************************************)
CONSTANTS Key, Slot, NoSlot

VARIABLES ledger,  \* the slot each key owns, or NoSlot
          open,    \* is a request waiting for its answer
          asked    \* the keys it asks for

ledgerVars == <<ledger, open, asked>>

Owned == {ledger[k] : k \in Key} \ {NoSlot}
Missing == {k \in asked : ledger[k] = NoSlot}

Init ==
  /\ ledger = [k \in Key |-> NoSlot]
  /\ open = FALSE /\ asked = {}

Ask(S) ==
  /\ ~open
  /\ open' = TRUE /\ asked' = S
  /\ UNCHANGED ledger

Answer == open /\ open' = FALSE /\ asked' = {}

(* Every key that has none gets a slot of its own, owned by nobody; the    *)
(* others keep theirs.                                                     *)
Grant ==
  /\ Answer
  /\ \E m \in [Missing -> Slot \ Owned] :
       /\ \A j, k \in Missing : m[j] = m[k] => j = k
       /\ ledger' = [k \in Key |-> IF k \in Missing THEN m[k] ELSE ledger[k]]

Deny == Answer /\ UNCHANGED ledger

(* The keys of S give their slots back, between requests. *)
Release(S) ==
  /\ ~open
  /\ ledger' = [k \in Key |-> IF k \in S THEN NoSlot ELSE ledger[k]]
  /\ UNCHANGED <<open, asked>>

Reset ==
  /\ ledger' = [k \in Key |-> NoSlot]
  /\ open' = FALSE /\ asked' = {}

Next ==
  \/ \E S \in SUBSET Key : Ask(S) \/ Release(S)
  \/ Grant
  \/ Deny
  \/ Reset

Spec == Init /\ [][Next]_ledgerVars
=============================================================================
