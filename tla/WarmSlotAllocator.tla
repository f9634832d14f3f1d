-------------------------- MODULE WarmSlotAllocator --------------------------
(***************************************************************************)
(* HKVWarmSlotAllocator (vllm/v1/worker/gpu/hkv_migration.py): the         *)
(* transactional allocator of the slots of the INT8 WARM pool.  A logical  *)
(* key stands for (request id, cache group, logical block index).          *)
(*                                                                         *)
(* A call the code refuses (it raises before it changes anything) is a     *)
(* step that is not taken: its conditions are the guards.  A reservation's *)
(* identity is abstracted, because a stale handle is refused.              *)
(***************************************************************************)
EXTENDS Naturals, FiniteSets

CONSTANTS Key,       \* logical block keys
          Capacity,  \* number of slots in the WARM pool
          NoSlot, NoKey, NoReservation

ASSUME CapacityAssumption == Capacity \in Nat \ {0}

Slot == 0 .. Capacity - 1

(* A reservation: the slot of every key asked for, and which keys are new. *)
Reservation ==
  [mappings : UNION {[S -> Slot] : S \in SUBSET Key}, new : SUBSET Key]

ASSUME SentinelAssumption ==
  NoSlot \notin Slot /\ NoKey \notin Key /\ NoReservation \notin Reservation

VARIABLES keyToSlot,  \* _key_to_slot, NoSlot where the key is absent
          slotToKey,  \* _slot_to_key, NoKey where the slot is absent
          freeSlots,  \* _free_slots / _free_slot_set
          active      \* _active_reservation

vars == <<keyToSlot, slotToKey, freeSlots, active>>

Init ==
  /\ keyToSlot = [k \in Key |-> NoSlot]
  /\ slotToKey = [s \in Slot |-> NoKey]
  /\ freeSlots = Slot
  /\ active = NoReservation

(***************************************************************************)
(* reserve_many(keys): all keys or none.  The heap pops the smallest free  *)
(* slots; which new key gets which of them follows the caller's key order. *)
(***************************************************************************)
SmallestFree(n) ==
  {s \in freeSlots : Cardinality({t \in freeSlots : t < s}) < n}

Reserve(keys) ==
  LET new == {k \in keys : keyToSlot[k] = NoSlot} IN
  /\ active = NoReservation
  /\ Cardinality(new) <= Cardinality(freeSlots)
  /\ \E m \in [new -> SmallestFree(Cardinality(new))] :
       /\ \A j, k \in new : m[j] = m[k] => j = k
       /\ keyToSlot' = [k \in Key |-> IF k \in new THEN m[k] ELSE keyToSlot[k]]
       /\ slotToKey' = [s \in Slot |->
            IF \E k \in new : m[k] = s
            THEN CHOOSE k \in new : m[k] = s ELSE slotToKey[s]]
       /\ freeSlots' = freeSlots \ {m[k] : k \in new}
  /\ active' = [mappings |-> [k \in keys |-> keyToSlot'[k]], new |-> new]

(* Mutants: the slot of an absent key is freed, or the slot's entry stays. *)
ReleaseAbsent(keys) ==
  LET released == {keyToSlot[k] : k \in keys} IN
  /\ keyToSlot' = [k \in Key |-> IF k \in keys THEN NoSlot ELSE keyToSlot[k]]
  /\ slotToKey' = [s \in Slot |-> IF s \in released THEN NoKey ELSE slotToKey[s]]
  /\ freeSlots' = freeSlots \cup released
ReleaseKeyOnly(keys) ==
  LET held == {k \in keys : keyToSlot[k] # NoSlot} IN
  /\ keyToSlot' = [k \in Key |-> IF k \in held THEN NoSlot ELSE keyToSlot[k]]
  /\ freeSlots' = freeSlots \cup {keyToSlot[k] : k \in held}
  /\ UNCHANGED slotToKey

(* _release_key over a set of keys: a key without a slot is ignored. *)
ReleaseEach(keys) ==
  LET held     == {k \in keys : keyToSlot[k] # NoSlot}
      released == {keyToSlot[k] : k \in held}
  IN /\ keyToSlot' = [k \in Key |-> IF k \in held THEN NoSlot ELSE keyToSlot[k]]
     /\ slotToKey' = [s \in Slot |-> IF s \in released THEN NoKey ELSE slotToKey[s]]
     /\ freeSlots' = freeSlots \cup released

Commit ==
  /\ active # NoReservation
  /\ active' = NoReservation
  /\ UNCHANGED <<keyToSlot, slotToKey, freeSlots>>

(* Mutant: a rollback removes the mappings that were there before, too. *)
RollbackAll ==
  /\ active # NoReservation
  /\ ReleaseEach(DOMAIN active.mappings)
  /\ active' = NoReservation

(* Only the mappings this reservation created are removed. *)
Rollback ==
  /\ active # NoReservation
  /\ ReleaseEach(active.new)
  /\ active' = NoReservation

(* Mutant: keys are released under an open reservation. *)
ReleaseKeysAnytime(keys) == ReleaseEach(keys) /\ UNCHANGED active

ReleaseKeys(keys) ==
  /\ active = NoReservation
  /\ ReleaseEach(keys)
  /\ UNCHANGED active

Clear ==
  /\ keyToSlot' = [k \in Key |-> NoSlot]
  /\ slotToKey' = [s \in Slot |-> NoKey]
  /\ freeSlots' = Slot
  /\ active' = NoReservation

Next ==
  \/ \E keys \in SUBSET Key : Reserve(keys) \/ ReleaseKeys(keys)
  \/ Commit
  \/ Rollback
  \/ Clear

Spec == Init /\ [][Next]_vars
-----------------------------------------------------------------------------
TypeOK ==
  /\ keyToSlot \in [Key -> Slot \cup {NoSlot}]
  /\ slotToKey \in [Slot -> Key \cup {NoKey}]
  /\ freeSlots \in SUBSET Slot
  /\ active \in Reservation \cup {NoReservation}

(* The two maps are inverse to each other and the free slots are exactly   *)
(* the slots nobody owns: what validate_invariants asserts.                *)
OwnershipConsistent ==
  /\ \A k \in Key : keyToSlot[k] # NoSlot => slotToKey[keyToSlot[k]] = k
  /\ \A s \in Slot : slotToKey[s] # NoKey => keyToSlot[slotToKey[s]] = s
  /\ freeSlots = {s \in Slot : slotToKey[s] = NoKey}

(* While a reservation is open every slot it handed out still belongs to   *)
(* the key it was handed to, so the ownership checks of commit and         *)
(* rollback never raise halfway through a migration.                       *)
ReservationHeld ==
  active # NoReservation =>
    /\ active.new \subseteq DOMAIN active.mappings
    /\ \A k \in DOMAIN active.mappings : keyToSlot[k] = active.mappings[k]

(* Ownership as the migration manager may rely on it: what an open         *)
(* reservation added does not count until it is committed.                 *)
committed ==
  [k \in Key |-> IF active # NoReservation /\ k \in active.new
                 THEN NoSlot ELSE keyToSlot[k]]

isOpen == active # NoReservation
askedFor == IF isOpen THEN DOMAIN active.mappings ELSE {}

Ledger == INSTANCE WarmSlotLedger
            WITH ledger <- committed, open <- isOpen, asked <- askedFor

(* Every step of the allocator is one whole transaction of the ledger, or  *)
(* no change of it: a reservation that is rolled back leaves no trace, and *)
(* a commit gives every key asked for a slot, none of them another's.      *)
TransactionalOwnership == Ledger!Spec
=============================================================================
