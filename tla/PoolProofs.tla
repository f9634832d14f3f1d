----------------------------- MODULE PoolProofs -----------------------------
(***************************************************************************)
(* The two pools of the cache, for every value of the constants.           *)
(*                                                                         *)
(* First the WARM slots: the allocator's maps and its free slots never     *)
(* disagree, and it implements the ledger.  Its invariant is one           *)
(* conjunction, because its parts need each other: a reservation takes     *)
(* slots from freeSlots, and only OwnershipConsistent says that nobody     *)
(* owns those.                                                             *)
(*                                                                         *)
(* Then the HOT blocks with prefix caching.  CacheInv says that every row  *)
(* is sound by itself, that the reference counts are the numbers of rows   *)
(* that list a block, and that a block is in the queue once exactly when   *)
(* no row lists it.  InOrder adds why chains are evicted from their ends,  *)
(* OwnContent whose tokens the blocks hold.                                *)
(***************************************************************************)
EXTENDS WarmSlotAllocator, PrefixCache, SubsequenceProofs

-----------------------------------------------------------------------------
(* The WARM slots: what is inductive.                                      *)
IInv == TypeOK /\ OwnershipConsistent /\ ReservationHeld

(* Freeing the slots of any keys keeps both maps typed and consistent.     *)
LEMMA ReleaseEachConsistent ==
  ASSUME TypeOK, OwnershipConsistent, NEW keys \in SUBSET Key, ReleaseEach(keys)
  PROVE  /\ keyToSlot' \in [Key -> Slot \cup {NoSlot}]
         /\ slotToKey' \in [Slot -> Key \cup {NoKey}]
         /\ freeSlots' \in SUBSET Slot
         /\ OwnershipConsistent'
         /\ keyToSlot' = [k \in Key |-> IF k \in keys THEN NoSlot ELSE keyToSlot[k]]
<1> DEFINE held == {k \in keys : keyToSlot[k] # NoSlot}
           released == {keyToSlot[k] : k \in held}
<1>1. released \subseteq Slot
  BY DEF TypeOK
<1>2. /\ keyToSlot' = [k \in Key |-> IF k \in held THEN NoSlot ELSE keyToSlot[k]]
      /\ slotToKey' = [s \in Slot |-> IF s \in released THEN NoKey ELSE slotToKey[s]]
      /\ freeSlots' = freeSlots \cup released
  BY DEF ReleaseEach
<1>3. \A k \in Key : keyToSlot[k] \in released => k \in held
  BY DEF TypeOK, OwnershipConsistent
<1>4. /\ keyToSlot' \in [Key -> Slot \cup {NoSlot}]
      /\ slotToKey' \in [Slot -> Key \cup {NoKey}]
      /\ freeSlots' \in SUBSET Slot
  BY <1>1, <1>2 DEF TypeOK
<1>5. \A k \in Key : keyToSlot'[k] # NoSlot => slotToKey'[keyToSlot'[k]] = k
  BY <1>2, <1>3 DEF TypeOK, OwnershipConsistent
<1>6. \A s \in Slot : slotToKey'[s] # NoKey => keyToSlot'[slotToKey'[s]] = s
  <2> SUFFICES ASSUME NEW s \in Slot, slotToKey'[s] # NoKey
               PROVE  keyToSlot'[slotToKey'[s]] = s
    OBVIOUS
  <2>1. s \notin released /\ slotToKey'[s] = slotToKey[s]
    BY <1>2
  <2>2. slotToKey[s] \in Key /\ keyToSlot[slotToKey[s]] = s
    BY <2>1 DEF TypeOK, OwnershipConsistent
  <2>3. slotToKey[s] \notin held
    BY <2>1, <2>2
  <2> QED
    BY <1>2, <2>1, <2>2, <2>3
<1>7. freeSlots' = {s \in Slot : slotToKey'[s] = NoKey}
  BY <1>1, <1>2 DEF OwnershipConsistent
<1>8. keyToSlot' = [k \in Key |-> IF k \in keys THEN NoSlot ELSE keyToSlot[k]]
  BY <1>2
<1> QED
  BY <1>4, <1>5, <1>6, <1>7, <1>8 DEF OwnershipConsistent

(* A reservation hands out free slots only, each to one key: both maps     *)
(* stay typed and consistent, and every mapping it reports is in place.    *)
LEMMA ReserveConsistent ==
  ASSUME TypeOK, OwnershipConsistent, NEW keys \in SUBSET Key, Reserve(keys)
  PROVE  /\ TypeOK' /\ OwnershipConsistent' /\ ReservationHeld'
         /\ active' \in Reservation
         /\ \A k \in Key \ active'.new : keyToSlot'[k] = keyToSlot[k]
         /\ \A k \in active'.new : keyToSlot[k] = NoSlot
<1> DEFINE new == {k \in keys : keyToSlot[k] = NoSlot}
<1>1. PICK m \in [new -> SmallestFree(Cardinality(new))] :
        /\ \A j, k \in new : m[j] = m[k] => j = k
        /\ keyToSlot' = [k \in Key |-> IF k \in new THEN m[k] ELSE keyToSlot[k]]
        /\ slotToKey' = [s \in Slot |->
             IF \E k \in new : m[k] = s
             THEN CHOOSE k \in new : m[k] = s ELSE slotToKey[s]]
        /\ freeSlots' = freeSlots \ {m[k] : k \in new}
  BY DEF Reserve
<1>2. active' = [mappings |-> [k \in keys |-> keyToSlot'[k]], new |-> new]
  BY DEF Reserve
<1>3. \A k \in new : m[k] \in freeSlots
  BY DEF SmallestFree
<1>4. \A k \in new : m[k] \in Slot /\ m[k] # NoSlot /\ slotToKey[m[k]] = NoKey
  BY <1>3, SentinelAssumption DEF TypeOK, OwnershipConsistent
<1>5. \A k \in Key : keyToSlot'[k] = IF k \in new THEN m[k] ELSE keyToSlot[k]
  BY <1>1
<1>6. \A k \in new : slotToKey'[m[k]] = k
  BY <1>1, <1>4
<1>7. \A s \in Slot : (\A k \in new : m[k] # s) => slotToKey'[s] = slotToKey[s]
  BY <1>1
<1>8. keyToSlot' \in [Key -> Slot \cup {NoSlot}]
  BY <1>1, <1>4 DEF TypeOK
<1>9. slotToKey' \in [Slot -> Key \cup {NoKey}]
  <2>1. \A s \in Slot : slotToKey'[s] \in Key \cup {NoKey}
    BY <1>6, <1>7 DEF TypeOK
  <2> QED
    BY <1>1, <2>1
<1>10. freeSlots' \in SUBSET Slot
  BY <1>1 DEF TypeOK
<1>11. active' \in Reservation
  <2>1. \A k \in keys : keyToSlot'[k] \in Slot
    BY <1>4, <1>5 DEF TypeOK
  <2>2. [k \in keys |-> keyToSlot'[k]] \in [keys -> Slot]
    BY <2>1
  <2> QED
    BY <1>2, <2>2 DEF Reservation
<1>12. TypeOK'
  BY <1>8, <1>9, <1>10, <1>11 DEF TypeOK
<1>13. \A k \in Key : keyToSlot'[k] # NoSlot => slotToKey'[keyToSlot'[k]] = k
  <2> SUFFICES ASSUME NEW k \in Key, keyToSlot'[k] # NoSlot
               PROVE  slotToKey'[keyToSlot'[k]] = k
    OBVIOUS
  <2>1. CASE k \in new
    BY <1>5, <1>6, <2>1
  <2>2. CASE k \notin new
    <3>1. keyToSlot'[k] = keyToSlot[k] /\ keyToSlot[k] \in Slot
      BY <1>5, <2>2 DEF TypeOK
    <3>2. slotToKey[keyToSlot[k]] = k
      BY <3>1 DEF OwnershipConsistent
    <3>3. \A j \in new : m[j] # keyToSlot[k]
      BY <1>4, <3>2, SentinelAssumption
    <3> QED
      BY <1>7, <3>1, <3>2, <3>3
  <2> QED
    BY <2>1, <2>2
<1>14. \A s \in Slot : slotToKey'[s] # NoKey => keyToSlot'[slotToKey'[s]] = s
  <2> SUFFICES ASSUME NEW s \in Slot, slotToKey'[s] # NoKey
               PROVE  keyToSlot'[slotToKey'[s]] = s
    OBVIOUS
  <2>1. CASE \E k \in new : m[k] = s
    BY <1>5, <1>6, <2>1
  <2>2. CASE \A k \in new : m[k] # s
    <3>1. slotToKey'[s] = slotToKey[s] /\ slotToKey[s] \in Key
      BY <1>7, <2>2 DEF TypeOK
    <3>2. keyToSlot[slotToKey[s]] = s /\ s # NoSlot
      BY <3>1, SentinelAssumption DEF OwnershipConsistent
    <3> QED
      BY <1>5, <3>1, <3>2
  <2> QED
    BY <2>1, <2>2
<1>15. freeSlots' = {s \in Slot : slotToKey'[s] = NoKey}
  <2>1. \A k \in new : slotToKey'[m[k]] # NoKey
    BY <1>6, SentinelAssumption
  <2> QED
    BY <1>1, <1>7, <2>1, SMTT(30) DEF OwnershipConsistent
<1>16. ReservationHeld'
  BY <1>2 DEF ReservationHeld
<1>17. /\ \A k \in Key \ active'.new : keyToSlot'[k] = keyToSlot[k]
       /\ \A k \in active'.new : keyToSlot[k] = NoSlot
  BY <1>2, <1>5
<1> QED
  BY <1>11, <1>12, <1>13, <1>14, <1>15, <1>16, <1>17 DEF OwnershipConsistent
-----------------------------------------------------------------------------
(* The invariant holds initially. *)
LEMMA InitIInv == Init => IInv
  BY SentinelAssumption
  DEF Init, IInv, TypeOK, OwnershipConsistent, ReservationHeld

(* Every operation of the allocator preserves it. *)
LEMMA NextIInv == IInv /\ [Next]_vars => IInv'
<1> SUFFICES ASSUME IInv, [Next]_vars PROVE IInv'
  OBVIOUS
<1>0. TypeOK /\ OwnershipConsistent /\ ReservationHeld
  BY DEF IInv
<1>1. ASSUME NEW keys \in SUBSET Key, Reserve(keys) PROVE IInv'
  BY <1>0, <1>1, ReserveConsistent DEF IInv
<1>2. ASSUME NEW keys \in SUBSET Key, ReleaseKeys(keys) PROVE IInv'
  <2>1. ReleaseEach(keys) /\ active' = NoReservation
    BY <1>2 DEF ReleaseKeys
  <2> QED
    BY <1>0, <2>1, ReleaseEachConsistent DEF IInv, TypeOK, ReservationHeld
<1>3. CASE Commit
  BY <1>0, <1>3
  DEF Commit, IInv, TypeOK, OwnershipConsistent, ReservationHeld
<1>4. CASE Rollback
  <2>1. /\ active.new \in SUBSET Key /\ ReleaseEach(active.new)
        /\ active' = NoReservation
    BY <1>0, <1>4 DEF Rollback, TypeOK, Reservation
  <2> QED
    BY <1>0, <2>1, ReleaseEachConsistent DEF IInv, TypeOK, ReservationHeld
<1>5. CASE Clear
  BY <1>0, <1>5, SentinelAssumption
  DEF Clear, IInv, TypeOK, OwnershipConsistent, ReservationHeld
<1>6. CASE UNCHANGED vars
  BY <1>0, <1>6
  DEF vars, IInv, TypeOK, OwnershipConsistent, ReservationHeld
<1> QED
  BY <1>1, <1>2, <1>3, <1>4, <1>5, <1>6 DEF Next

LEMMA SpecIInv == Spec => []IInv
  BY InitIInv, NextIInv, PTL DEF Spec

(* The allocator's maps, free slots and reservation always have their      *)
(* types, whatever the keys and the capacity.                              *)
THEOREM SpecTypeOK == Spec => []TypeOK
  BY SpecIInv, PTL DEF IInv

(* What validate_invariants asserts is true after every operation: no slot *)
(* is owned twice, leaked, or free and owned at once.                      *)
THEOREM SpecOwnershipConsistent == Spec => []OwnershipConsistent
  BY SpecIInv, PTL DEF IInv

(* The ownership checks in commit and rollback never fail: an open         *)
(* reservation keeps every slot it was handed.                             *)
THEOREM SpecReservationHeld == Spec => []ReservationHeld
  BY SpecIInv, PTL DEF IInv
-----------------------------------------------------------------------------
(* Nothing is committed at first. *)
LEMMA InitLedger == Init => Ledger!Init
  BY DEF Init, Ledger!Init, committed, isOpen, askedFor

(* An open reservation names keys only, and the ones it created are those  *)
(* the ledger has no slot for.                                             *)
LEMMA ReservationShape ==
  ASSUME IInv, active # NoReservation
  PROVE  /\ active.new \in SUBSET Key
         /\ DOMAIN active.mappings \in SUBSET Key
         /\ \A k \in DOMAIN active.mappings : keyToSlot[k] \in Slot
         /\ active.new = Ledger!Missing
<1>1. active \in Reservation
  BY DEF IInv, TypeOK
<1>2. /\ active.new \in SUBSET Key
      /\ \E S \in SUBSET Key : active.mappings \in [S -> Slot]
  BY <1>1 DEF Reservation
<1>3. /\ active.new \subseteq DOMAIN active.mappings
      /\ \A k \in DOMAIN active.mappings : keyToSlot[k] = active.mappings[k]
  BY DEF IInv, ReservationHeld
<1>4. /\ DOMAIN active.mappings \in SUBSET Key
      /\ \A k \in DOMAIN active.mappings : keyToSlot[k] \in Slot
  BY <1>2, <1>3
<1>5. \A k \in DOMAIN active.mappings : committed[k] = NoSlot <=> k \in active.new
  BY <1>4, SentinelAssumption DEF committed
<1>6. askedFor = DOMAIN active.mappings
  BY DEF askedFor, isOpen
<1> QED
  BY <1>2, <1>3, <1>4, <1>5, <1>6 DEF Ledger!Missing

(* To the ledger a reservation is a request: nobody's slot changes. *)
LEMMA ReserveLedger ==
  ASSUME IInv, NEW keys \in SUBSET Key, Reserve(keys)
  PROVE  Ledger!Ask(keys)
<1>1. active = NoReservation /\ DOMAIN active'.mappings = keys
  BY DEF Reserve
<1>2. /\ active' # NoReservation
      /\ \A k \in Key \ active'.new : keyToSlot'[k] = keyToSlot[k]
      /\ \A k \in active'.new : keyToSlot[k] = NoSlot
  BY ReserveConsistent, SentinelAssumption DEF IInv
<1>3. \A k \in Key :
        (IF active' # NoReservation /\ k \in active'.new
         THEN NoSlot ELSE keyToSlot'[k]) = keyToSlot[k]
  BY <1>2
<1>4. committed' = committed
  BY <1>1, <1>3 DEF committed
<1> QED
  BY <1>1, <1>2, <1>4 DEF Ledger!Ask, isOpen, askedFor

(* A commit grants the new keys their slots, which nobody owns. *)
LEMMA CommitLedger ==
  ASSUME IInv, Commit
  PROVE  Ledger!Grant
<1> DEFINE new == active.new
           m == [k \in new |-> keyToSlot[k]]
<1>1. active # NoReservation /\ active' = NoReservation /\ keyToSlot' = keyToSlot
  BY DEF Commit
<1>2. /\ new \in SUBSET Key /\ new = Ledger!Missing
      /\ \A k \in new : keyToSlot[k] \in Slot
  BY <1>1, ReservationShape DEF IInv, ReservationHeld
<1>3. /\ \A k \in new : committed[k] = NoSlot
      /\ \A k \in Key \ new : committed[k] = keyToSlot[k]
  BY <1>1, <1>2 DEF committed
<1>4. \A j, k \in Key : keyToSlot[j] = keyToSlot[k] /\ keyToSlot[j] # NoSlot => j = k
  BY DEF IInv, OwnershipConsistent
<1>5. \A k \in new : keyToSlot[k] \notin Ledger!Owned
  <2> SUFFICES ASSUME NEW k \in new, keyToSlot[k] \in Ledger!Owned PROVE FALSE
    OBVIOUS
  <2>1. PICK j \in Key : committed[j] = keyToSlot[k] /\ committed[j] # NoSlot
    BY DEF Ledger!Owned
  <2>2. j \notin new /\ keyToSlot[j] = keyToSlot[k]
    BY <1>3, <2>1
  <2> QED
    BY <1>2, <1>4, <2>1, <2>2
<1>6. m \in [new -> Slot \ Ledger!Owned]
  BY <1>2, <1>5
<1>7. \A j, k \in new : m[j] = m[k] => j = k
  BY <1>2, <1>4, SentinelAssumption
<1>8. committed' = [k \in Key |-> IF k \in new THEN m[k] ELSE committed[k]]
  BY <1>1, <1>2, <1>3 DEF committed
<1>9. Ledger!Answer
  BY <1>1 DEF Ledger!Answer, isOpen, askedFor
<1> QED
  BY <1>2, <1>6, <1>7, <1>8, <1>9 DEF Ledger!Grant

(* A rollback leaves no trace: what it frees was never committed. *)
LEMMA RollbackLedger ==
  ASSUME IInv, Rollback
  PROVE  Ledger!Deny
<1>1. /\ active # NoReservation /\ active' = NoReservation
      /\ active.new \in SUBSET Key /\ ReleaseEach(active.new)
  BY ReservationShape DEF Rollback
<1>2. keyToSlot' = [k \in Key |-> IF k \in active.new THEN NoSlot ELSE keyToSlot[k]]
  BY <1>1, ReleaseEachConsistent DEF IInv
<1>3. committed' = committed
  BY <1>1, <1>2 DEF committed
<1> QED
  BY <1>1, <1>3 DEF Ledger!Deny, Ledger!Answer, isOpen, askedFor

(* Every step of the allocator is a step of the ledger or none. *)
LEMMA NextLedger == IInv /\ [Next]_vars => [Ledger!Next]_(Ledger!ledgerVars)
<1> SUFFICES ASSUME IInv, [Next]_vars
             PROVE  Ledger!Next \/ UNCHANGED Ledger!ledgerVars
  OBVIOUS
<1>1. ASSUME NEW keys \in SUBSET Key, Reserve(keys) PROVE Ledger!Ask(keys)
  BY <1>1, ReserveLedger
<1>2. ASSUME NEW keys \in SUBSET Key, ReleaseKeys(keys) PROVE Ledger!Release(keys)
  <2>1. /\ active = NoReservation /\ active' = NoReservation
        /\ ReleaseEach(keys)
    BY <1>2 DEF ReleaseKeys
  <2>2. keyToSlot' = [k \in Key |-> IF k \in keys THEN NoSlot ELSE keyToSlot[k]]
    BY <2>1, ReleaseEachConsistent DEF IInv
  <2> QED
    BY <2>1, <2>2 DEF committed, isOpen, askedFor, Ledger!Release
<1>3. CASE Commit
  BY <1>3, CommitLedger DEF Ledger!Next
<1>4. CASE Rollback
  BY <1>4, RollbackLedger DEF Ledger!Next
<1>5. CASE Clear
  <2>1. Ledger!Reset
    BY <1>5 DEF Clear, committed, isOpen, askedFor, Ledger!Reset
  <2> QED
    BY <2>1 DEF Ledger!Next
<1>6. CASE UNCHANGED vars
  BY <1>6 DEF vars, committed, isOpen, askedFor, Ledger!ledgerVars
<1> QED
  BY <1>1, <1>2, <1>3, <1>4, <1>5, <1>6 DEF Next, Ledger!Next

(* The allocator implements the ledger: to the migration manager ownership *)
(* changes one whole transaction at a time, a rollback leaves no trace,    *)
(* and no committed slot is ever handed to a second key.                   *)
THEOREM SpecTransactionalOwnership == Spec => TransactionalOwnership
<1>1. Init => Ledger!Init
  BY InitLedger
<1>2. IInv /\ [Next]_vars => [Ledger!Next]_(Ledger!ledgerVars)
  BY NextLedger
<1> QED
  BY <1>1, <1>2, SpecIInv, PTL DEF Spec, TransactionalOwnership, Ledger!Spec

-----------------------------------------------------------------------------
(* The number of tokens up to the end of the n-th block. *)
Ends(n) == n * BlockSize

(* The parameters every step's arithmetic needs. *)
LEMMA Sizes ==
  /\ BlockSize \in Nat \ {0} /\ MaxTokens \in Nat \ {0} /\ MaxModelLen \in Nat \ {0}
  /\ NumBlocks \in Nat \ {0}
  BY PrefixAssumption, PoolAssumption

(* Block ends grow with the block's number, a block at a time. *)
LEMMA EndsProperties ==
  /\ Ends(0) = 0 /\ Ends(1) = BlockSize
  /\ \A n \in Nat : Ends(n) \in Nat /\ n <= Ends(n) /\ Ends(n + 1) = Ends(n) + BlockSize
                    /\ (n >= 1 => Ends(n - 1) = Ends(n) - BlockSize)
  /\ \A m, n \in Nat : (m <= n <=> Ends(m) <= Ends(n)) /\ (m < n <=> Ends(m) < Ends(n))
                       /\ (m < n <=> Ends(m) + BlockSize <= Ends(n))
<1>1. BlockSize \in Nat /\ BlockSize >= 1
  BY Sizes
<1>2. \A n \in Nat : /\ n * BlockSize \in Nat /\ n <= n * BlockSize
                     /\ (n + 1) * BlockSize = n * BlockSize + BlockSize
                     /\ (n - 1) * BlockSize = n * BlockSize - BlockSize
  BY <1>1
<1>3. ASSUME NEW m \in Nat, NEW n \in Nat, m < n
      PROVE  m * BlockSize + BlockSize <= n * BlockSize
  <2>1. (n - (m + 1)) * BlockSize = n * BlockSize - m * BlockSize - BlockSize
    BY <1>1
  <2>2. n - (m + 1) \in Nat
    BY <1>3
  <2>3. (n - (m + 1)) * BlockSize \in Nat
    BY <1>2, <2>2
  <2>4. n * BlockSize - m * BlockSize - BlockSize >= 0
    BY <2>1, <2>3
  <2> DEFINE x == n * BlockSize
             y == m * BlockSize
  <2>5. x \in Nat /\ y \in Nat /\ x - y - BlockSize >= 0
    BY <1>2, <2>4
  <2> HIDE DEF x, y
  <2>6. y + BlockSize <= x
    BY <1>1, <2>5
  <2> QED BY <2>6 DEF x, y
<1>4. 0 * BlockSize = 0 /\ 1 * BlockSize = BlockSize
  BY <1>1
<1>5. /\ Ends(0) = 0 /\ Ends(1) = BlockSize
      /\ \A n \in Nat : Ends(n) \in Nat /\ n <= Ends(n) /\ Ends(n + 1) = Ends(n) + BlockSize
                         /\ Ends(n - 1) = Ends(n) - BlockSize
  BY <1>2, <1>4 DEF Ends
<1>6. \A m, n \in Nat : m < n => Ends(m) + BlockSize <= Ends(n)
  BY <1>3 DEF Ends
<1>7. ASSUME NEW m \in Nat, NEW n \in Nat
      PROVE  (m <= n <=> Ends(m) <= Ends(n)) /\ (m < n <=> Ends(m) < Ends(n))
             /\ (m < n <=> Ends(m) + BlockSize <= Ends(n))
  <2>1. /\ Ends(m) \in Nat /\ Ends(n) \in Nat
        /\ m < n => Ends(m) + BlockSize <= Ends(n)
        /\ n < m => Ends(n) + BlockSize <= Ends(m)
        /\ m = n => Ends(m) = Ends(n)
    BY <1>5, <1>6
  <2>2. m < n \/ n < m \/ m = n
    OBVIOUS
  <2> QED BY <1>1, <2>1, <2>2
<1> QED BY <1>5, <1>7

(* What most proofs need of a block's end. *)
LEMMA EndsNat ==
  ASSUME NEW n \in Nat PROVE Ends(n) \in Nat /\ n <= Ends(n) /\ (n = 0 => Ends(n) = 0)
BY EndsProperties

(* The same of two blocks. *)
LEMMA EndsOrder ==
  ASSUME NEW m \in Nat, NEW n \in Nat
  PROVE  /\ m <= n <=> Ends(m) <= Ends(n)
         /\ m < n <=> Ends(m) < Ends(n)
         /\ m < n <=> Ends(m) + BlockSize <= Ends(n)
BY EndsProperties

(* The number of full blocks of n tokens, and of blocks that n tokens      *)
(* need.                                                                   *)
LEMMA QuotientProperties ==
  ASSUME NEW n \in Nat
  PROVE  /\ n \div BlockSize \in Nat
         /\ \A k \in Nat : k <= n \div BlockSize <=> Ends(k) <= n
         /\ CeilDiv(n) \in Nat
         /\ \A k \in Nat : CeilDiv(n) <= k <=> n <= Ends(k)
         /\ CeilDiv(n) = 0 <=> n = 0
<1>1. BlockSize \in Nat \ {0} /\ n + BlockSize - 1 \in Nat
  BY Sizes
<1>2. \A k \in Int : k <= n \div BlockSize <=> k * BlockSize <= n
  BY <1>1, AtMostQuotient
<1>3. \A k \in Int : k <= (n + BlockSize - 1) \div BlockSize <=> k * BlockSize <= n + BlockSize - 1
  BY <1>1, AtMostQuotient
<1>4. n \div BlockSize \in Int /\ CeilDiv(n) \in Int
  BY <1>1 DEF CeilDiv
<1>5. 0 * BlockSize = 0
  BY <1>1
<1>6. n \div BlockSize \in Nat /\ CeilDiv(n) \in Nat
  <2>1. 0 <= n \div BlockSize
    BY <1>2, <1>5
  <2>2. 0 <= CeilDiv(n)
    BY <1>1, <1>3, <1>5 DEF CeilDiv
  <2> QED BY <1>4, <2>1, <2>2
<1>7. \A k \in Nat : CeilDiv(n) <= k <=> n <= Ends(k)
  <2> SUFFICES ASSUME NEW k \in Nat PROVE CeilDiv(n) <= k <=> n <= Ends(k)
    OBVIOUS
  <2>1. k + 1 <= CeilDiv(n) <=> (k + 1) * BlockSize <= n + BlockSize - 1
    BY <1>3 DEF CeilDiv
  <2>2. (k + 1) * BlockSize = Ends(k) + BlockSize /\ Ends(k) \in Nat
    BY EndsProperties DEF Ends
  <2> QED BY <1>1, <1>4, <2>1, <2>2
<1>8. CeilDiv(n) = 0 <=> n = 0
  <2>1. CeilDiv(n) <= 0 <=> n <= Ends(0)
    BY <1>7
  <2>2. Ends(0) = 0
    BY EndsNat
  <2> QED BY <1>6, <2>1, <2>2
<1> QED BY <1>2, <1>6, <1>7, <1>8 DEF Ends
-----------------------------------------------------------------------------
(* The first tokens of a sequence. *)
LEMMA PrefixProperties ==
  ASSUME NEW T, NEW s \in Seq(T), NEW n \in Nat
  PROVE  /\ Prefix(s, n) \in Seq(T)
         /\ Len(Prefix(s, n)) = Smaller(n, Len(s))
         /\ \A k \in 1 .. Smaller(n, Len(s)) : Prefix(s, n)[k] = s[k]
         /\ n = 0 => Prefix(s, n) = <<>>
         /\ Len(s) <= n => Prefix(s, n) = s
<1>1. Len(s) \in Nat /\ Smaller(n, Len(s)) \in 0 .. Len(s) /\ \A i \in 1 .. Len(s) : s[i] \in T
  BY LenProperties, ElementOfSeq DEF Smaller
<1> DEFINE m == Smaller(n, Len(s))
<1> HIDE DEF m
<1>2. m \in Int /\ \A i \in 1 .. m : s[i] \in T
  BY <1>1 DEF m
<1>3. /\ SubSeq(s, 1, m) \in Seq(T)
      /\ Len(SubSeq(s, 1, m)) = IF 1 <= m THEN m - 1 + 1 ELSE 0
      /\ \A i \in 1 .. m - 1 + 1 : SubSeq(s, 1, m)[i] = s[1 + i - 1]
  BY <1>2, SubSeqProperties
<1>4. /\ Prefix(s, n) \in Seq(T) /\ Len(Prefix(s, n)) = m
      /\ \A k \in 1 .. m : Prefix(s, n)[k] = s[k]
  <2>1. Prefix(s, n) = SubSeq(s, 1, m)
    BY DEF Prefix, m
  <2>2. m \in 0 .. Len(s)
    BY <1>1 DEF m
  <2> QED BY <1>3, <2>1, <2>2
<1>5. n = 0 => Prefix(s, n) = <<>>
  <2>1. n = 0 => m = 0
    BY <1>1 DEF m, Smaller
  <2> QED BY <1>4, <2>1, EmptySeq
<1>6. Len(s) <= n => Prefix(s, n) = s
  <2>1. Len(s) <= n => m = Len(s)
    BY <1>1 DEF m, Smaller
  <2> QED BY <1>1, <1>4, <2>1, SeqEqual
<1> QED BY <1>4, <1>5, <1>6 DEF m

(* The first tokens of the first tokens. *)
LEMMA PrefixOfPrefix ==
  ASSUME NEW T, NEW s \in Seq(T), NEW m \in Nat, NEW n \in Nat, n <= m
  PROVE  Prefix(Prefix(s, m), n) = Prefix(s, n)
<1>1. Len(s) \in Nat
  BY LenProperties
<1>2. /\ Prefix(s, m) \in Seq(T) /\ Len(Prefix(s, m)) = Smaller(m, Len(s))
      /\ \A k \in 1 .. Smaller(m, Len(s)) : Prefix(s, m)[k] = s[k]
      /\ Prefix(s, n) \in Seq(T) /\ Len(Prefix(s, n)) = Smaller(n, Len(s))
      /\ \A k \in 1 .. Smaller(n, Len(s)) : Prefix(s, n)[k] = s[k]
  BY PrefixProperties
<1> DEFINE t == Prefix(s, m)
<1> HIDE DEF t
<1>3. /\ Prefix(t, n) \in Seq(T) /\ Len(Prefix(t, n)) = Smaller(n, Len(t))
      /\ \A k \in 1 .. Smaller(n, Len(t)) : Prefix(t, n)[k] = t[k]
  BY <1>2, PrefixProperties DEF t
<1>4. Smaller(n, Smaller(m, Len(s))) = Smaller(n, Len(s)) /\ Smaller(n, Len(s)) <= Smaller(m, Len(s))
      /\ Smaller(n, Len(s)) \in Nat /\ Smaller(m, Len(s)) \in Nat
  BY <1>1 DEF Smaller
<1>5. Len(t) = Smaller(m, Len(s))
  BY <1>2 DEF t
<1>6. \A k \in 1 .. Smaller(n, Len(s)) : Prefix(t, n)[k] = Prefix(s, n)[k]
  BY <1>2, <1>3, <1>4, <1>5 DEF t
<1>7. Prefix(t, n) = Prefix(s, n)
  BY <1>2, <1>3, <1>4, <1>5, <1>6, SeqEqual
<1> QED BY <1>7 DEF t

(* Tokens added at the end leave the first ones. *)
LEMMA PrefixOfConcat ==
  ASSUME NEW T, NEW s \in Seq(T), NEW t \in Seq(T), NEW n \in Nat, n <= Len(s)
  PROVE  Prefix(s \o t, n) = Prefix(s, n)
<1>1. Len(s) \in Nat /\ Len(t) \in Nat /\ s \o t \in Seq(T) /\ Len(s \o t) = Len(s) + Len(t)
      /\ \A i \in 1 .. Len(s) + Len(t) : (s \o t)[i] = IF i <= Len(s) THEN s[i] ELSE t[i - Len(s)]
  BY ConcatProperties, LenProperties
<1> DEFINE u == s \o t
<1> HIDE DEF u
<1>2. u \in Seq(T) /\ Len(u) = Len(s) + Len(t) /\ \A i \in 1 .. Len(s) : u[i] = s[i]
  BY <1>1 DEF u
<1>3. /\ Prefix(u, n) \in Seq(T) /\ Len(Prefix(u, n)) = Smaller(n, Len(u))
      /\ \A k \in 1 .. Smaller(n, Len(u)) : Prefix(u, n)[k] = u[k]
      /\ Prefix(s, n) \in Seq(T) /\ Len(Prefix(s, n)) = Smaller(n, Len(s))
      /\ \A k \in 1 .. Smaller(n, Len(s)) : Prefix(s, n)[k] = s[k]
  BY <1>2, PrefixProperties
<1>4. Smaller(n, Len(u)) = n /\ Smaller(n, Len(s)) = n
  BY <1>1, <1>2 DEF Smaller
<1>5. \A k \in 1 .. n : Prefix(u, n)[k] = Prefix(s, n)[k]
  BY <1>1, <1>2, <1>3, <1>4
<1>6. Prefix(u, n) = Prefix(s, n)
  BY <1>3, <1>4, <1>5, SeqEqual
<1> QED BY <1>6 DEF u
(* A prefix and the tokens that follow it are the longer prefix. *)
LEMMA PrefixExtended ==
  ASSUME NEW T, NEW s \in Seq(T), NEW m \in Nat, NEW n \in Nat, m <= n, n <= Len(s)
  PROVE  Prefix(s, m) \o SubSeq(s, m + 1, n) = Prefix(s, n)
<1>1. Len(s) \in Nat /\ \A i \in 1 .. Len(s) : s[i] \in T
  BY LenProperties, ElementOfSeq
<1>2. Smaller(m, Len(s)) = m /\ Smaller(n, Len(s)) = n
  BY <1>1 DEF Smaller
<1>3. /\ Prefix(s, m) \in Seq(T) /\ Len(Prefix(s, m)) = m
      /\ \A k \in 1 .. m : Prefix(s, m)[k] = s[k]
      /\ Prefix(s, n) \in Seq(T) /\ Len(Prefix(s, n)) = n
      /\ \A k \in 1 .. n : Prefix(s, n)[k] = s[k]
  BY <1>2, PrefixProperties
<1>4. \A i \in m + 1 .. n : s[i] \in T
  BY <1>1
<1>5. /\ SubSeq(s, m + 1, n) \in Seq(T)
      /\ Len(SubSeq(s, m + 1, n)) = IF m + 1 <= n THEN n - (m + 1) + 1 ELSE 0
      /\ \A i \in 1 .. n - (m + 1) + 1 : SubSeq(s, m + 1, n)[i] = s[(m + 1) + i - 1]
  BY <1>4, SubSeqProperties
<1> DEFINE u == Prefix(s, m)
           v == SubSeq(s, m + 1, n)
<1>6. /\ u \in Seq(T) /\ v \in Seq(T) /\ Len(u) = m /\ Len(v) = n - m
      /\ \A k \in 1 .. m : u[k] = s[k]
      /\ \A i \in 1 .. n - m : v[i] = s[m + i]
  BY <1>3, <1>5
<1> HIDE DEF u, v
<1>7. /\ u \o v \in Seq(T) /\ Len(u \o v) = Len(u) + Len(v)
      /\ \A i \in 1 .. Len(u) + Len(v) : (u \o v)[i] = IF i <= Len(u) THEN u[i] ELSE v[i - Len(u)]
  BY <1>6, ConcatProperties
<1>8. /\ Len(u \o v) = n
      /\ \A i \in 1 .. n : (u \o v)[i] = IF i <= m THEN u[i] ELSE v[i - m]
  <2>1. Len(u) + Len(v) = n
    BY <1>6
  <2> QED BY <1>6, <1>7, <2>1
<1>9. ASSUME NEW i \in 1 .. n PROVE (u \o v)[i] = s[i]
  <2>1. CASE i <= m
    BY <1>6, <1>8, <2>1
  <2>2. CASE i > m
    <3>1. PICK k \in 1 .. n - m : i - m = k /\ m + k = i /\ ~ (i <= m)
      BY <2>2
    <3>2. (u \o v)[i] = v[k]
      BY <1>8, <3>1
    <3>3. v[k] = s[i]
      BY <1>6, <3>1
    <3> QED BY <3>2, <3>3
  <2>3. i <= m \/ i > m
    OBVIOUS
  <2> QED BY <2>1, <2>2, <2>3
<1>10. u \o v = Prefix(s, n)
  BY <1>3, <1>7, <1>8, <1>9, SeqEqual
<1> QED BY <1>10 DEF u, v
-----------------------------------------------------------------------------
(* A request's hashes: the i-th stands for the tokens up to the end of the *)
(* i-th block, and extends the ones before it.                             *)
Chained(hashes) ==
  /\ \A i \in DOMAIN hashes : Len(hashes[i]) = Ends(i)
  /\ \A i, j \in DOMAIN hashes : i <= j => hashes[i] = Prefix(hashes[j], Ends(i))

(* The hashes are those of these tokens. *)
HashesOf(hashes, tokens) == \A i \in DOMAIN hashes : hashes[i] = Prefix(tokens, Ends(i))

(* The rows of the cache manager. *)
Status == {"ABSENT", "WAITING", "RUNNING", "PREEMPTED", "IDLE", "GONE"}
RowType ==
  [status : Status, tokens : Seq(Token), prompt : Nat, computed : Nat, kv : {"HOT", "WARM"},
   hashes : Seq(Seq(Token)), blocks : Seq(Block \cup {NullBlock}), cached : Nat]

(* update_block_hashes: one hash for each full block, and those a request  *)
(* has stay as they are, whether or not they are of its tokens.            *)
LEMMA HashedProperties ==
  ASSUME NEW q \in RowType, Chained(q.hashes), Ends(Len(q.hashes)) <= Len(q.tokens)
  PROVE  /\ Hashed(q) \in RowType /\ Hashed(q) = [q EXCEPT !.hashes = Hashed(q).hashes]
         /\ Len(Hashed(q).hashes) = Len(q.tokens) \div BlockSize
         /\ Chained(Hashed(q).hashes)
         /\ \A i \in DOMAIN q.hashes : i \in DOMAIN Hashed(q).hashes /\ Hashed(q).hashes[i] = q.hashes[i]
         /\ HashesOf(q.hashes, q.tokens) => HashesOf(Hashed(q).hashes, q.tokens)
<1> DEFINE tokens == q.tokens
           old == q.hashes
           m == Len(old)
           before == IF m = 0 THEN <<>> ELSE Last(old)
           n == Len(tokens) \div BlockSize
           chained(i) == before \o SubSeq(tokens, m * BlockSize + 1, i * BlockSize)
           new == [i \in 1 .. Larger(m, n) |-> IF i <= m THEN old[i] ELSE chained(i)]
<1>1. Hashed(q) = [q EXCEPT !.hashes = new]
  BY DEF Hashed, RowType
<1>2. /\ tokens \in Seq(Token) /\ Len(tokens) \in Nat /\ old \in Seq(Seq(Token)) /\ m \in Nat
      /\ DOMAIN old = 1 .. m /\ \A i \in 1 .. m : old[i] \in Seq(Token)
      /\ \A i \in 1 .. Len(tokens) : tokens[i] \in Token
  BY LenProperties, ElementOfSeq DEF RowType
<1>3. n \in Nat /\ m <= n /\ Larger(m, n) = n /\ \A i \in 1 .. n : Ends(i) <= Len(tokens)
  <2>1. n \in Nat /\ \A k \in Nat : k <= n <=> Ends(k) <= Len(tokens)
    BY <1>2, QuotientProperties
  <2> HIDE DEF n
  <2>2. m <= n
    BY <1>2, <2>1
  <2> QED BY <1>2, <2>1, <2>2 DEF Larger
<1>4. before \in Seq(Token) /\ Len(before) = Ends(m) /\ Ends(m) \in Nat
  <2>1. CASE m = 0
    BY <2>1, EmptySeq, EndsNat
  <2>2. CASE m # 0
    <3>1. m \in 1 .. m /\ before = old[m]
      BY <1>2, <2>2 DEF Last
    <3>2. Len(old[m]) = Ends(m)
      BY <1>2, <3>1 DEF Chained
    <3>3. Ends(m) \in Nat
      BY <1>2, EndsNat
    <3> QED BY <1>2, <3>1, <3>2, <3>3
  <2> QED BY <2>1, <2>2
<1>5. \A i \in 1 .. m : old[i] = Prefix(before, Ends(i))
  <2>1. CASE m = 0
    BY <2>1
  <2>2. CASE m # 0
    <3>1. m \in 1 .. m /\ before = old[m]
      BY <1>2, <2>2 DEF Last
    <3>2. \A i \in 1 .. m : i <= m /\ m \in DOMAIN old
      BY <1>2, <3>1
    <3>3. \A i \in 1 .. m : old[i] = Prefix(old[m], Ends(i))
      BY <1>2, <3>2 DEF Chained
    <3> QED BY <3>1, <3>3
  <2> QED BY <1>2, <2>1, <2>2
<1> HIDE DEF m, before, n
<1>6. ASSUME NEW i \in m + 1 .. n
      PROVE  /\ chained(i) \in Seq(Token) /\ Len(chained(i)) = Ends(i)
             /\ \A k \in 1 .. Ends(m) : chained(i)[k] = before[k]
             /\ \A k \in Ends(m) + 1 .. Ends(i) : chained(i)[k] = tokens[k]
  <2>1. i \in Nat /\ Ends(i) \in Nat /\ Ends(m) < Ends(i) /\ Ends(i) <= Len(tokens)
    <3>1. i \in Nat /\ m \in Nat /\ m < i /\ i \in 1 .. n
      BY <1>2, <1>3
    <3>2. Ends(i) \in Nat
      BY <3>1, EndsNat
    <3>3. Ends(m) < Ends(i)
      BY <3>1, EndsOrder
    <3> QED BY <1>3, <3>1, <3>2, <3>3
  <2>2. \A k \in Ends(m) + 1 .. Ends(i) : tokens[k] \in Token
    BY <1>2, <1>4, <2>1
  <2>3. /\ SubSeq(tokens, Ends(m) + 1, Ends(i)) \in Seq(Token)
        /\ Len(SubSeq(tokens, Ends(m) + 1, Ends(i))) =
             IF Ends(m) + 1 <= Ends(i) THEN Ends(i) - (Ends(m) + 1) + 1 ELSE 0
        /\ \A k \in 1 .. Ends(i) - (Ends(m) + 1) + 1 :
             SubSeq(tokens, Ends(m) + 1, Ends(i))[k] = tokens[(Ends(m) + 1) + k - 1]
    BY <1>4, <2>1, <2>2, SubSeqProperties, SMTT(30)
  <2> DEFINE u == SubSeq(tokens, Ends(m) + 1, Ends(i))
  <2>4. u \in Seq(Token) /\ Len(u) = Ends(i) - Ends(m)
        /\ \A k \in 1 .. Ends(i) - Ends(m) : u[k] = tokens[Ends(m) + k]
    BY <1>4, <2>1, <2>3, SMTT(30)
  <2>5. chained(i) = before \o u
    BY DEF Ends
  <2> HIDE DEF u, chained
  <2>6. /\ before \o u \in Seq(Token) /\ Len(before \o u) = Len(before) + Len(u)
        /\ \A k \in 1 .. Len(before) + Len(u) :
             (before \o u)[k] = IF k <= Len(before) THEN before[k] ELSE u[k - Len(before)]
    BY <1>4, <2>4, ConcatProperties
  <2>7. Len(chained(i)) = Ends(i)
    BY <1>4, <2>1, <2>4, <2>5, <2>6
  <2>8. \A k \in 1 .. Ends(m) : chained(i)[k] = before[k]
    BY <1>4, <2>1, <2>4, <2>5, <2>6
  <2>9. ASSUME NEW k \in Ends(m) + 1 .. Ends(i) PROVE chained(i)[k] = tokens[k]
    <3>1. PICK x \in 1 .. Ends(i) - Ends(m) : k - Ends(m) = x /\ Ends(m) + x = k
      BY <1>4, <2>1
    <3>2. k \in 1 .. Len(before) + Len(u) /\ ~ (k <= Len(before)) /\ k - Len(before) = x
      BY <1>4, <2>1, <2>4, <3>1
    <3>3. (before \o u)[k] = u[x]
      BY <2>6, <3>2
    <3>4. u[x] = tokens[k]
      BY <2>4, <3>1
    <3> QED BY <2>5, <3>3, <3>4
  <2> QED BY <2>5, <2>6, <2>7, <2>8, <2>9
<1> HIDE DEF chained
<1>7. new = [i \in 1 .. n |-> IF i <= m THEN old[i] ELSE chained(i)]
  BY <1>3
<1>8. /\ new \in Seq(Seq(Token)) /\ DOMAIN new = 1 .. n /\ Len(new) = n
      /\ \A i \in 1 .. n : new[i] = IF i <= m THEN old[i] ELSE chained(i)
  <2>1. ASSUME NEW i \in 1 .. n
        PROVE  (IF i <= m THEN old[i] ELSE chained(i)) \in Seq(Token)
    <3>1. CASE i <= m
      BY <1>2, <1>3, <3>1
    <3>2. CASE ~ (i <= m)
      <4>1. i \in m + 1 .. n
        BY <1>2, <1>3, <3>2
      <4> QED BY <1>6, <3>2, <4>1
    <3> QED BY <3>1, <3>2
  <2> QED BY <1>3, <1>7, <2>1
<1> HIDE DEF new
<1>9. ASSUME NEW i \in 1 .. n PROVE Len(new[i]) = Ends(i)
  <2>1. CASE i <= m
    <3>1. i \in DOMAIN old
      BY <1>2, <1>3, <2>1
    <3>2. new[i] = old[i]
      BY <1>8, <2>1
    <3> QED BY <3>1, <3>2 DEF Chained
  <2>2. CASE i > m
    BY <1>2, <1>3, <1>6, <1>8, <2>2
  <2> QED BY <1>2, <1>3, <2>1, <2>2
<1>10. ASSUME NEW i \in 1 .. n, NEW j \in 1 .. n, i <= j
       PROVE  new[i] = Prefix(new[j], Ends(i))
  <2>1. i \in Nat /\ j \in Nat /\ Ends(i) \in Nat /\ Ends(j) \in Nat /\ Ends(i) <= Ends(j)
    BY <1>10, EndsNat, EndsOrder
  <2>2. /\ new[i] \in Seq(Token) /\ new[j] \in Seq(Token)
        /\ Len(new[i]) = Ends(i) /\ Len(new[j]) = Ends(j)
    BY <1>8, <1>9, ElementOfSeq
  <2>3. /\ Prefix(new[j], Ends(i)) \in Seq(Token) /\ Len(Prefix(new[j], Ends(i))) = Ends(i)
        /\ \A k \in 1 .. Ends(i) : Prefix(new[j], Ends(i))[k] = new[j][k]
    <3>1. Smaller(Ends(i), Ends(j)) = Ends(i)
      BY <2>1 DEF Smaller
    <3> QED BY <2>1, <2>2, <3>1, PrefixProperties, SMTT(30)
  <2>4. CASE j <= m
    <3>1. /\ i \in DOMAIN old /\ j \in DOMAIN old
          /\ new[i] = old[i] /\ new[j] = old[j]
      BY <1>2, <1>8, <1>10, <2>1, <2>4
    <3> QED BY <1>10, <3>1 DEF Chained
  <2>5. CASE i <= m /\ m < j
    <3>1. /\ Ends(i) <= Ends(m) /\ Smaller(Ends(i), Ends(m)) = Ends(i)
      BY <1>2, <1>4, <2>1, <2>5, EndsOrder DEF Smaller
    <3>2. \A k \in 1 .. Ends(i) : Prefix(before, Ends(i))[k] = before[k]
      <4>1. \A k \in 1 .. Smaller(Ends(i), Len(before)) : Prefix(before, Ends(i))[k] = before[k]
        BY <1>4, <2>1, PrefixProperties
      <4> QED BY <1>4, <3>1, <4>1
    <3>3. \A k \in 1 .. Ends(i) : new[i][k] = before[k]
      <4>1. i \in 1 .. m
        BY <1>2, <1>3, <2>5
      <4>2. new[i] = Prefix(before, Ends(i))
        BY <1>5, <1>8, <2>5, <4>1
      <4> QED BY <3>2, <4>2
    <3>4. new[j] = chained(j) /\ j \in m + 1 .. n
      BY <1>2, <1>3, <1>8, <2>5
    <3>5. \A k \in 1 .. Ends(i) : new[j][k] = before[k]
      BY <1>4, <1>6, <2>1, <3>1, <3>4
    <3>6. \A k \in 1 .. Ends(i) : new[i][k] = Prefix(new[j], Ends(i))[k]
      BY <2>3, <3>3, <3>5
    <3> QED BY <2>2, <2>3, <3>6, SeqEqual
  <2>6. CASE m < i
    <3>1. /\ new[i] = chained(i) /\ i \in m + 1 .. n
          /\ new[j] = chained(j) /\ j \in m + 1 .. n
      BY <1>2, <1>3, <1>8, <1>10, <2>6
    <3>2. \A k \in 1 .. Ends(i) : new[i][k] = new[j][k]
      <4> SUFFICES ASSUME NEW k \in 1 .. Ends(i) PROVE new[i][k] = new[j][k]
        OBVIOUS
      <4>1. k \in 1 .. Ends(j) /\ (k \in 1 .. Ends(m) \/ (k \in Ends(m) + 1 .. Ends(i) /\ k \in Ends(m) + 1 .. Ends(j)))
        BY <1>4, <2>1
      <4> QED BY <1>6, <3>1, <4>1
    <3>3. \A k \in 1 .. Ends(i) : new[i][k] = Prefix(new[j], Ends(i))[k]
      BY <2>3, <3>2
    <3> QED BY <2>2, <2>3, <3>3, SeqEqual
  <2> QED BY <1>2, <1>3, <1>10, <2>4, <2>5, <2>6
<1>11. Chained(new)
  BY <1>8, <1>9, <1>10 DEF Chained
<1>12. ASSUME HashesOf(old, tokens) PROVE HashesOf(new, tokens)
  <2> SUFFICES ASSUME NEW i \in 1 .. n PROVE new[i] = Prefix(tokens, Ends(i))
    BY <1>8 DEF HashesOf
  <2>1. i \in Nat /\ Ends(i) \in Nat /\ Ends(i) <= Len(tokens)
    BY <1>3, EndsNat, SMTT(30)
  <2>2. CASE i <= m
    <3>1. i \in DOMAIN old /\ new[i] = old[i]
      BY <1>2, <1>8, <2>1, <2>2
    <3> QED BY <1>12, <3>1 DEF HashesOf
  <2>3. CASE i > m
    <3>1. before = Prefix(tokens, Ends(m))
      <4>1. CASE m = 0
        <5>1. before = <<>>
          BY <4>1 DEF before
        <5>3. Prefix(tokens, 0) = <<>>
          BY <1>2, PrefixProperties
        <5>2. Ends(m) = 0
          BY <1>2, <4>1, EndsNat
        <5> QED BY <5>1, <5>2, <5>3
      <4>2. CASE m # 0
        <5>1. before = old[m] /\ m \in DOMAIN old
          BY <1>2, <4>2 DEF before, m, Last
        <5> QED BY <1>12, <5>1 DEF HashesOf
      <4> QED BY <4>1, <4>2
    <3>2. Ends(m) <= Ends(i)
      BY <1>2, <2>1, <2>3, EndsOrder
    <3>3. Prefix(tokens, Ends(m)) \o SubSeq(tokens, Ends(m) + 1, Ends(i)) = Prefix(tokens, Ends(i))
      BY <1>2, <1>4, <2>1, <3>2, PrefixExtended
    <3>4. chained(i) = before \o SubSeq(tokens, Ends(m) + 1, Ends(i))
      BY DEF chained, Ends
    <3>5. new[i] = chained(i)
      BY <1>2, <1>8, <2>3
    <3> QED BY <3>1, <3>3, <3>4, <3>5
  <2> QED BY <1>2, <2>1, <2>2, <2>3
<1>13. Hashed(q).hashes = new /\ Hashed(q) = [q EXCEPT !.hashes = Hashed(q).hashes]
       /\ Hashed(q) \in RowType
  BY <1>1, <1>8 DEF RowType, new
<1>14. \A i \in DOMAIN old : i \in DOMAIN new /\ new[i] = old[i]
  BY <1>2, <1>3, <1>8
<1> QED BY <1>8, <1>11, <1>12, <1>13, <1>14 DEF n
-----------------------------------------------------------------------------
(* The pool: exactly the blocks without a holder are in the queue, once.    *)
PoolType == [ref : [Block -> Nat], hash : [Block -> Seq(Token)], queue : Seq(Block)]

(* The pool in every reachable state. *)
PoolOK(p) ==
  /\ p \in PoolType /\ IsInjective(p.queue)
  /\ \A b \in Block : p.ref[b] = 0 <=> b \in Range(p.queue)

(* What the queue promises of the order of eviction. *)
UnhashedAhead(p) ==
  \A i, j \in DOMAIN p.queue :
    i < j /\ p.hash[p.queue[j]] = NoHash => p.hash[p.queue[i]] = NoHash

(* Block c is evicted after block b: somebody holds it, or it is behind. *)
Outlives(p, c, b) ==
  \/ p.ref[c] > 0
  \/ \E x, y \in DOMAIN p.queue : x < y /\ p.queue[x] = b /\ p.queue[y] = c

(* The two names of the community modules for the elements of a sequence. *)
LEMMA ToSetIsRange ==
  ASSUME NEW s PROVE ToSet(s) = Range(s)
  BY DEF ToSet, Range

(* touch: each hit has one more holder and is in the queue no longer. *)
LEMMA TouchedProperties ==
  ASSUME NEW p, PoolOK(p), NEW hits \in Seq(Block)
  PROVE  LET t == Touched(p, hits) IN
         /\ PoolOK(t) /\ t.hash = p.hash
         /\ \A b \in Block : t.ref[b] = p.ref[b] + IF b \in Range(hits) THEN 1 ELSE 0
         /\ Range(t.queue) = Range(p.queue) \ Range(hits)
         /\ UnhashedAhead(p) => UnhashedAhead(t)
         /\ \A b, c \in Block : b \in Range(t.queue) /\ Outlives(p, c, b) => Outlives(t, c, b)
<1> DEFINE S == Block \ Range(hits)
           t == Touched(p, hits)
<1>1. t = [ref |-> [b \in Block |-> p.ref[b] + IF b \in Range(hits) THEN 1 ELSE 0],
           hash |-> p.hash, queue |-> Only(p.queue, S)]
  <2>1. p = [ref |-> p.ref, hash |-> p.hash, queue |-> p.queue]
    BY DEF PoolOK, PoolType
  <2>2. ToSet(hits) = Range(hits)
    BY ToSetIsRange
  <2>3. TouchedInQueue(p, hits) =
          [ref |-> [b \in Block |-> p.ref[b] + IF b \in Range(hits) THEN 1 ELSE 0],
           hash |-> p.hash, queue |-> p.queue]
    BY <2>1, <2>2 DEF TouchedInQueue
  <2> QED BY <2>2, <2>3 DEF Touched
<1>2. p.queue \in Seq(Block) /\ IsInjective(p.queue) /\ Range(p.queue) \subseteq Block
  BY RangeOfSeq DEF PoolOK, PoolType
<1>3. /\ t.queue \in Seq(Block) /\ Range(t.queue) = Range(p.queue) \cap S
      /\ IsInjective(t.queue)
  BY <1>1, <1>2, OnlyProperties
<1>4. /\ t.ref \in [Block -> Nat] /\ t.hash = p.hash
      /\ \A b \in Block : t.ref[b] = p.ref[b] + IF b \in Range(hits) THEN 1 ELSE 0
  BY <1>1 DEF PoolOK, PoolType
<1>5. t \in PoolType
  BY <1>1, <1>3, <1>4 DEF PoolOK, PoolType
<1>6. \A m, n \in DOMAIN t.queue : m < n =>
        \E i, j \in DOMAIN p.queue : i < j /\ p.queue[i] = t.queue[m] /\ p.queue[j] = t.queue[n]
  BY <1>1, <1>2, OnlyKeepsOrder, SMTT(30)
<1>7. \A i, j \in DOMAIN p.queue : i < j /\ p.queue[i] \in S /\ p.queue[j] \in S =>
        \E m, n \in DOMAIN t.queue : m < n /\ t.queue[m] = p.queue[i] /\ t.queue[n] = p.queue[j]
  <2>1. t.queue = Only(p.queue, S)
    BY <1>1
  <2> HIDE DEF t, S
  <2> QED BY <1>2, <2>1, OnlyKeepsOrder
<1> HIDE DEF t
<1>8. Range(t.queue) = Range(p.queue) \ Range(hits)
  BY <1>2, <1>3
<1>9. PoolOK(t)
  <2> SUFFICES ASSUME NEW b \in Block PROVE t.ref[b] = 0 <=> b \in Range(t.queue)
    BY <1>3, <1>5 DEF PoolOK
  <2>1. (p.ref[b] = 0 <=> b \in Range(p.queue)) /\ p.ref[b] \in Nat
    BY DEF PoolOK, PoolType
  <2> QED BY <1>4, <1>8, <2>1
<1>10. UnhashedAhead(p) => UnhashedAhead(t)
  BY <1>4, <1>6 DEF UnhashedAhead
<1>11. ASSUME NEW b \in Block, NEW c \in Block, b \in Range(t.queue), Outlives(p, c, b)
       PROVE  Outlives(t, c, b)
  <2>1. p.ref[c] \in Nat
    BY DEF PoolOK, PoolType
  <2>2. CASE p.ref[c] > 0 \/ c \in Range(hits)
    BY <1>4, <2>1, <2>2 DEF Outlives
  <2>3. CASE c \notin Range(hits) /\ \E x, y \in DOMAIN p.queue : x < y /\ p.queue[x] = b /\ p.queue[y] = c
    BY <1>3, <1>7, <1>11, <2>3 DEF Outlives
  <2> QED BY <1>11, <2>2, <2>3 DEF Outlives
<1> QED BY <1>4, <1>8, <1>9, <1>10, <1>11 DEF t

(* get_new_blocks: blocks that nobody held, each once, without a hash. *)
LEMMA AllocatedProperties ==
  ASSUME NEW p, PoolOK(p), NEW n \in 0 .. Len(p.queue)
  PROVE  LET a   == Allocated(p, n)
             new == NewBlocks(p, n)
         IN /\ PoolOK(a)
            /\ new \in Seq(Block) /\ Len(new) = n /\ IsInjective(new)
            /\ Range(new) \subseteq Range(p.queue)
            /\ \A b \in Block : /\ a.ref[b] = p.ref[b] + IF b \in Range(new) THEN 1 ELSE 0
                                /\ a.hash[b] = IF b \in Range(new) THEN NoHash ELSE p.hash[b]
            /\ Range(a.queue) = Range(p.queue) \ Range(new)
            /\ UnhashedAhead(p) => UnhashedAhead(a)
            /\ \A b, c \in Block : b \in Range(a.queue) /\ Outlives(p, c, b) =>
                 Outlives(a, c, b) /\ c \notin Range(new)
<1> DEFINE q == p.queue
           a == Allocated(p, n)
           new == NewBlocks(p, n)
<1>1. q \in Seq(Block) /\ IsInjective(q) /\ Range(q) \subseteq Block /\ Len(q) \in Nat
      /\ DOMAIN q = 1 .. Len(q) /\ \A i \in 1 .. Len(q) : q[i] \in Block
  BY RangeOfSeq, LenProperties, ElementOfSeq DEF PoolOK, PoolType
<1>2. a = [ref |-> [b \in Block |-> p.ref[b] + IF b \in Range(new) THEN 1 ELSE 0],
           hash |-> [b \in Block |-> IF b \in Range(new) THEN NoHash ELSE p.hash[b]],
           queue |-> SubSeq(q, n + 1, Len(q))]
  BY ToSetIsRange DEF Allocated, Free
<1>3. new \in Seq(Block) /\ Len(new) = n /\ \A i \in 1 .. n : new[i] = q[i]
  <2>1. \A i \in 1 .. n : q[i] \in Block
    BY <1>1
  <2>2. /\ SubSeq(q, 1, n) \in Seq(Block)
        /\ Len(SubSeq(q, 1, n)) = IF 1 <= n THEN n - 1 + 1 ELSE 0
        /\ \A i \in 1 .. n - 1 + 1 : SubSeq(q, 1, n)[i] = q[1 + i - 1]
    BY <1>1, <2>1, SubSeqProperties
  <2> QED BY <2>2, <1>1 DEF NewBlocks
<1>4. /\ a.queue \in Seq(Block) /\ Len(a.queue) = Len(q) - n
      /\ \A i \in 1 .. Len(q) - n : a.queue[i] = q[n + i]
  <2>1. \A i \in n + 1 .. Len(q) : q[i] \in Block
    BY <1>1
  <2>2. /\ SubSeq(q, n + 1, Len(q)) \in Seq(Block)
        /\ Len(SubSeq(q, n + 1, Len(q))) = IF n + 1 <= Len(q) THEN Len(q) - (n + 1) + 1 ELSE 0
        /\ \A i \in 1 .. Len(q) - (n + 1) + 1 : SubSeq(q, n + 1, Len(q))[i] = q[(n + 1) + i - 1]
    BY <1>1, <2>1, SubSeqProperties
  <2>3. a.queue = SubSeq(q, n + 1, Len(q))
    BY <1>2
  <2> QED BY <1>1, <2>2, <2>3
<1>5. /\ a.ref \in [Block -> Nat] /\ a.hash \in [Block -> Seq(Token)]
      /\ \A b \in Block : /\ a.ref[b] = p.ref[b] + IF b \in Range(new) THEN 1 ELSE 0
                          /\ a.hash[b] = IF b \in Range(new) THEN NoHash ELSE p.hash[b]
      /\ a \in PoolType
  <2>1. NoHash \in Seq(Token)
    BY EmptySeq DEF NoHash
  <2> QED BY <1>2, <1>4, <2>1 DEF PoolOK, PoolType
<1> HIDE DEF a, new
<1>6. DOMAIN new = 1 .. n /\ DOMAIN a.queue = 1 .. Len(q) - n
  BY <1>3, <1>4, LenProperties
<1>7. \A i, j \in 1 .. Len(q) : q[i] = q[j] => i = j
  BY <1>1 DEF IsInjective
<1>8. \A i \in 1 .. Len(q) - n : n + i \in 1 .. Len(q) /\ a.queue[i] = q[n + i]
  BY <1>1, <1>4
<1>9. \A k \in n + 1 .. Len(q) : \E i \in 1 .. Len(q) - n : n + i = k
  <2> TAKE k \in n + 1 .. Len(q)
  <2>1. k - n \in 1 .. Len(q) - n /\ n + (k - n) = k
    BY <1>1
  <2> QED BY <2>1
<1>10. IsInjective(new) /\ IsInjective(a.queue)
  <2>1. \A i, j \in 1 .. n : new[i] = new[j] => i = j
    BY <1>1, <1>3, <1>7
  <2>2. ASSUME NEW i \in 1 .. Len(q) - n, NEW j \in 1 .. Len(q) - n, a.queue[i] = a.queue[j]
        PROVE  i = j
    <3>1. n + i = n + j
      BY <1>7, <1>8, <2>2
    <3> QED BY <1>1, <3>1
  <2> QED BY <1>6, <2>1, <2>2 DEF IsInjective
<1>11. Range(new) = {q[i] : i \in 1 .. n} /\ Range(a.queue) = {q[k] : k \in n + 1 .. Len(q)}
  <2>1. Range(new) = {q[i] : i \in 1 .. n}
    BY <1>3, <1>6 DEF Range
  <2>2. \A i \in 1 .. Len(q) - n : n + i \in n + 1 .. Len(q)
    BY <1>1
  <2>3. Range(a.queue) \subseteq {q[k] : k \in n + 1 .. Len(q)}
    BY <1>6, <1>8, <2>2 DEF Range
  <2>4. ASSUME NEW k \in n + 1 .. Len(q) PROVE q[k] \in Range(a.queue)
    <3>1. PICK i \in 1 .. Len(q) - n : n + i = k
      BY <1>9
    <3>2. i \in DOMAIN a.queue /\ a.queue[i] = q[k]
      BY <1>6, <1>8, <3>1
    <3> QED BY <3>2 DEF Range
  <2> QED BY <2>1, <2>3, <2>4
<1>12. Range(new) \subseteq Range(q) /\ Range(a.queue) = Range(q) \ Range(new)
  <2>1. Range(q) = {q[i] : i \in 1 .. Len(q)}
    BY <1>1 DEF Range
  <2>2. \A i \in 1 .. Len(q) : i \in 1 .. n \/ i \in n + 1 .. Len(q)
    BY <1>1
  <2>3. \A i \in 1 .. n, k \in n + 1 .. Len(q) : i \in 1 .. Len(q) /\ k \in 1 .. Len(q) /\ i # k
    BY <1>1
  <2> QED BY <1>7, <1>11, <2>1, <2>2, <2>3
<1>13. PoolOK(a)
  <2> SUFFICES ASSUME NEW b \in Block PROVE a.ref[b] = 0 <=> b \in Range(a.queue)
    BY <1>4, <1>5, <1>10 DEF PoolOK
  <2>1. (p.ref[b] = 0 <=> b \in Range(q)) /\ p.ref[b] \in Nat
    BY DEF PoolOK, PoolType
  <2> QED BY <1>5, <1>12, <2>1
<1>14. ASSUME UnhashedAhead(p) PROVE UnhashedAhead(a)
  <2> SUFFICES ASSUME NEW i \in 1 .. Len(q) - n, NEW j \in 1 .. Len(q) - n, i < j,
                      a.hash[a.queue[j]] = NoHash
               PROVE  a.hash[a.queue[i]] = NoHash
    BY <1>6 DEF UnhashedAhead
  <2>1. n + i \in DOMAIN q /\ n + j \in DOMAIN q /\ n + i < n + j
        /\ a.queue[i] = q[n + i] /\ a.queue[j] = q[n + j]
    BY <1>1, <1>8
  <2>2. a.queue[j] \in Range(a.queue) /\ a.queue[i] \in Range(a.queue)
    BY <1>6 DEF Range
  <2>3. a.hash[a.queue[j]] = p.hash[a.queue[j]] /\ a.hash[a.queue[i]] = p.hash[a.queue[i]]
    BY <1>1, <1>5, <1>12, <2>2
  <2> QED BY <1>14, <2>1, <2>3 DEF UnhashedAhead
<1>15. ASSUME NEW b \in Block, NEW c \in Block, b \in Range(a.queue), Outlives(p, c, b)
       PROVE  Outlives(a, c, b) /\ c \notin Range(new)
  <2>1. (p.ref[c] = 0 <=> c \in Range(q)) /\ p.ref[c] \in Nat
    BY DEF PoolOK, PoolType
  <2>2. CASE p.ref[c] > 0
    BY <1>5, <1>12, <2>1, <2>2 DEF Outlives
  <2>3. CASE \E x, y \in DOMAIN q : x < y /\ q[x] = b /\ q[y] = c
    <3>1. PICK x \in 1 .. Len(q), y \in 1 .. Len(q) : x < y /\ q[x] = b /\ q[y] = c
      BY <1>1, <2>3
    <3>2. PICK k \in n + 1 .. Len(q) : q[k] = b
      BY <1>11, <1>15
    <3>3. k \in 1 .. Len(q)
      BY <1>1
    <3>4. x = k /\ y \in n + 1 .. Len(q)
      BY <1>1, <1>7, <3>1, <3>2, <3>3
    <3>5. PICK i \in 1 .. Len(q) - n : n + i = k
      BY <1>9
    <3>6. PICK j \in 1 .. Len(q) - n : n + j = y
      BY <1>9, <3>4
    <3>7. i < j /\ a.queue[i] = b /\ a.queue[j] = c
      BY <1>1, <1>8, <3>1, <3>4, <3>5, <3>6, SMTT(30)
    <3>8. c \in Range(a.queue)
      BY <1>6, <3>7 DEF Range
    <3> QED BY <1>6, <1>12, <3>7, <3>8 DEF Outlives
  <2> QED BY <1>15, <2>2, <2>3 DEF Outlives
<1> QED BY <1>3, <1>5, <1>10, <1>12, <1>13, <1>14, <1>15 DEF a, new

(* Freeing the blocks of a row, each of which has a holder: those whose    *)
(* last holder it was join the queue, the ones without a hash in front,    *)
(* the others behind, and those in the order they are freed.               *)
LEMMA FreedProperties ==
  ASSUME NEW p, PoolOK(p), NEW ids \in Seq(Block \cup {NullBlock}),
         \A i, j \in DOMAIN ids : ids[i] = ids[j] /\ ids[i] \in Block => i = j,
         \A i \in DOMAIN ids : ids[i] \in Block => p.ref[ids[i]] > 0
  PROVE  LET f == Freed(p, ids) IN
         /\ PoolOK(f) /\ f.hash = p.hash
         /\ \A b \in Block : f.ref[b] = p.ref[b] - IF b \in Range(ids) THEN 1 ELSE 0
         /\ UnhashedAhead(p) => UnhashedAhead(f)
         /\ \A b, c \in Block :
              b \in Range(p.queue) /\ Outlives(p, c, b) /\ p.hash[c] # NoHash => Outlives(f, c, b)
         /\ \A i, j \in DOMAIN ids :
              /\ i < j /\ ids[i] \in Block /\ ids[j] \in Block /\ p.ref[ids[i]] = 1
              /\ p.hash[ids[i]] # NoHash /\ p.hash[ids[j]] # NoHash
              => Outlives(f, ids[j], ids[i])
         /\ \A b \in Range(f.queue) \ Range(p.queue) : b \in Range(ids) /\ p.ref[b] = 1
<1> DEFINE q == p.queue
           own == Range(ids) \cap Block
           released == {b \in own : p.ref[b] = 1}
           hashed == {b \in Block : p.hash[b] # NoHash}
           front == Only(ids, released \ hashed)
           back == Only(ids, released \cap hashed)
           f == Freed(p, ids)
<1>1. f = [ref |-> [b \in Block |-> p.ref[b] - IF b \in own THEN 1 ELSE 0],
           hash |-> p.hash, queue |-> front \o q \o back]
  BY DEF Freed, ToSet, Range
<1>2. /\ q \in Seq(Block) /\ IsInjective(q) /\ Range(q) \subseteq Block
      /\ p.ref \in [Block -> Nat] /\ p.hash \in [Block -> Seq(Token)]
      /\ \A b \in Block : p.ref[b] = 0 <=> b \in Range(q)
  BY RangeOfSeq DEF PoolOK, PoolType
<1>3. ASSUME NEW S \in SUBSET Block
      PROVE  /\ Only(ids, S) \in Seq(Block) /\ Range(Only(ids, S)) = Range(ids) \cap S
             /\ IsInjective(Only(ids, S))
  <2>1. /\ Only(ids, S) \in Seq(Block \cup {NullBlock})
        /\ Range(Only(ids, S)) = Range(ids) \cap S
        /\ IsInjective(Only(ids, S))
    BY OnlyProperties
  <2>2. Only(ids, S) \in Seq(Range(Only(ids, S)))
    BY <2>1, SeqOfRange
  <2>3. Only(ids, S) \in Seq(Block)
    BY <2>1, <2>2, SeqMonotonic
  <2> QED BY <2>1, <2>3
<1>4. /\ front \in Seq(Block) /\ IsInjective(front) /\ Range(front) = released \ hashed
      /\ back \in Seq(Block) /\ IsInjective(back) /\ Range(back) = released \cap hashed
  <2>1. released \ hashed \in SUBSET Block /\ released \cap hashed \in SUBSET Block
        /\ Range(ids) \cap (released \ hashed) = released \ hashed
        /\ Range(ids) \cap (released \cap hashed) = released \cap hashed
    OBVIOUS
  <2> HIDE DEF released, hashed
  <2> QED BY <1>3, <2>1
<1>5. \A b \in own : p.ref[b] > 0
  BY DEF Range
<1>6. \A b \in released : b \notin Range(q)
  BY <1>2
<1>7. \A i, j \in DOMAIN ids : i < j /\ ids[i] \in released \cap hashed /\ ids[j] \in released \cap hashed =>
        \E m, n \in DOMAIN back : m < n /\ back[m] = ids[i] /\ back[n] = ids[j]
  <2> DEFINE both == released \cap hashed
  <2>1. back = Only(ids, both)
    OBVIOUS
  <2> HIDE DEF back, both
  <2>2. \A i, j \in DOMAIN ids : i < j /\ ids[i] \in both /\ ids[j] \in both =>
          \E m, n \in DOMAIN back : m < n /\ back[m] = ids[i] /\ back[n] = ids[j]
    BY <2>1, OnlyKeepsOrder
  <2> QED BY <2>2 DEF both
<1> HIDE DEF f, front, back
<1>8. /\ front \o q \in Seq(Block) /\ Range(front \o q) = Range(front) \cup Range(q)
      /\ IsInjective(front \o q)
  BY <1>2, <1>4, <1>6, ConcatInjective, ConcatProperties, RangeConcatenation
<1>9. /\ f.queue \in Seq(Block) /\ IsInjective(f.queue)
      /\ Range(f.queue) = Range(q) \cup released
  <2> DEFINE l == front \o q
  <2>1. l \in Seq(Block) /\ IsInjective(l) /\ Range(l) \cap Range(back) = {}
        /\ Range(l) \cup Range(back) = Range(q) \cup released
    BY <1>4, <1>6, <1>8
  <2>2. f.queue = l \o back
    BY <1>1
  <2> HIDE DEF l, released
  <2> QED BY <1>4, <2>1, <2>2, ConcatInjective, ConcatProperties, RangeConcatenation
<1>10. /\ \A b \in Block : f.ref[b] = p.ref[b] - IF b \in Range(ids) THEN 1 ELSE 0
       /\ f.hash = p.hash /\ f.ref \in [Block -> Nat] /\ f \in PoolType
  <2>1. \A b \in Block : p.ref[b] - (IF b \in own THEN 1 ELSE 0) \in Nat
    BY <1>2, <1>5
  <2>2. f.queue \in Seq(Block)
    BY <1>9
  <2> QED BY <1>1, <1>2, <2>1, <2>2 DEF PoolType
<1>11. PoolOK(f)
  <2> SUFFICES ASSUME NEW b \in Block PROVE f.ref[b] = 0 <=> b \in Range(f.queue)
    BY <1>9, <1>10 DEF PoolOK
  <2>1. (p.ref[b] = 0 <=> b \in Range(q)) /\ p.ref[b] \in Nat /\ (b \in Range(ids) => p.ref[b] > 0)
    BY <1>2, <1>5
  <2> QED BY <1>9, <1>10, <2>1
<1> DEFINE a == Len(front)
           d == a + Len(q)
<1>12. /\ a \in Nat /\ Len(q) \in Nat /\ Len(back) \in Nat /\ Len(f.queue) = d + Len(back)
       /\ DOMAIN front = 1 .. a /\ DOMAIN q = 1 .. Len(q) /\ DOMAIN back = 1 .. Len(back)
       /\ DOMAIN f.queue = 1 .. d + Len(back)
       /\ \A i \in 1 .. a : f.queue[i] = front[i]
       /\ \A i \in 1 .. Len(q) : f.queue[a + i] = q[i]
       /\ \A i \in 1 .. Len(back) : f.queue[d + i] = back[i]
  <2> DEFINE l == front \o q
  <2>1. /\ a \in Nat /\ Len(q) \in Nat /\ Len(back) \in Nat
        /\ DOMAIN front = 1 .. a /\ DOMAIN q = 1 .. Len(q) /\ DOMAIN back = 1 .. Len(back)
    BY <1>2, <1>4, LenProperties
  <2>2. /\ l \in Seq(Block) /\ Len(l) = d
        /\ \A i \in 1 .. a + Len(q) : l[i] = IF i <= a THEN front[i] ELSE q[i - a]
    BY <1>2, <1>4, ConcatProperties
  <2>3. f.queue = l \o back
    BY <1>1
  <2> HIDE DEF l, a
  <2>4. /\ Len(f.queue) = d + Len(back)
        /\ \A i \in 1 .. d + Len(back) : f.queue[i] = IF i <= d THEN l[i] ELSE back[i - d]
    <3>1. /\ Len(l \o back) = Len(l) + Len(back)
          /\ \A i \in 1 .. Len(l) + Len(back) : (l \o back)[i] = IF i <= Len(l) THEN l[i] ELSE back[i - Len(l)]
      <4>1. l \in Seq(Block) /\ back \in Seq(Block)
        BY <1>4, <2>2
      <4> QED BY <4>1, ConcatProperties
    <3> QED BY <2>2, <2>3, <3>1
  <2>5. DOMAIN f.queue = 1 .. d + Len(back)
    BY <1>9, <2>4, LenProperties
  <2>6. \A i \in 1 .. a : f.queue[i] = front[i]
    <3> TAKE i \in 1 .. a
    <3>1. i \in 1 .. a + Len(q) /\ i <= a /\ i <= d /\ i \in 1 .. d + Len(back)
      BY <2>1
    <3> QED BY <2>2, <2>4, <3>1
  <2>7. \A i \in 1 .. Len(q) : f.queue[a + i] = q[i]
    <3> TAKE i \in 1 .. Len(q)
    <3>1. PICK k \in 1 .. a + Len(q) : k = a + i /\ ~ (k <= a) /\ k - a = i /\ k <= d /\ k \in 1 .. d + Len(back)
      BY <2>1
    <3>2. f.queue[k] = l[k] /\ l[k] = q[i]
      BY <2>2, <2>4, <3>1
    <3> QED BY <3>1, <3>2
  <2>8. \A i \in 1 .. Len(back) : f.queue[d + i] = back[i]
    <3> TAKE i \in 1 .. Len(back)
    <3>1. PICK k \in 1 .. d + Len(back) : k = d + i /\ ~ (k <= d) /\ k - d = i
      BY <2>1
    <3>2. f.queue[k] = back[i]
      BY <2>4, <3>1
    <3> QED BY <3>1, <3>2
  <2> QED BY <2>1, <2>4, <2>5, <2>6, <2>7, <2>8
<1> HIDE DEF a
<1>13. \A k \in DOMAIN f.queue : \/ k \in 1 .. a
                                 \/ \E i \in 1 .. Len(q) : k = a + i
                                 \/ \E i \in 1 .. Len(back) : k = d + i
  <2> TAKE k \in DOMAIN f.queue
  <2>1. k \in 1 .. d + Len(back)
    BY <1>12
  <2>2. CASE k <= a
    BY <1>12, <2>1, <2>2
  <2>3. CASE k > a /\ k <= d
    <3>1. k - a \in 1 .. Len(q) /\ k = a + (k - a)
      BY <1>12, <2>1, <2>3
    <3> QED BY <3>1
  <2>4. CASE k > d
    <3>1. k - d \in 1 .. Len(back) /\ k = d + (k - d)
      BY <1>12, <2>1, <2>4
    <3> QED BY <3>1
  <2> QED BY <1>12, <2>1, <2>2, <2>3, <2>4
<1>14. /\ \A i \in 1 .. a : p.hash[front[i]] = NoHash
       /\ \A i \in 1 .. Len(back) : p.hash[back[i]] # NoHash
  <2>1. \A i \in 1 .. a : front[i] \in released \ hashed
    BY <1>4, <1>12 DEF Range
  <2>2. \A i \in 1 .. Len(back) : back[i] \in released \cap hashed
    BY <1>4, <1>12 DEF Range
  <2> QED BY <2>1, <2>2
<1>15. ASSUME UnhashedAhead(p) PROVE UnhashedAhead(f)
  <2> SUFFICES ASSUME NEW i \in DOMAIN f.queue, NEW j \in DOMAIN f.queue, i < j,
                      p.hash[f.queue[j]] = NoHash
               PROVE  p.hash[f.queue[i]] = NoHash
    BY <1>10 DEF UnhashedAhead
  <2>1. CASE i \in 1 .. a
    BY <1>12, <1>14, <2>1
  <2>2. CASE \E x \in 1 .. Len(q) : i = a + x
    <3>1. PICK x \in 1 .. Len(q) : i = a + x
      BY <2>2
    <3>2. PICK y \in 1 .. Len(q) : j = a + y
      <4>1. ~ (j \in 1 .. a)
        BY <1>12, <3>1
      <4>2. ~ \E y \in 1 .. Len(back) : j = d + y
        BY <1>12, <1>14, SMTT(30)
      <4> QED BY <1>13, <4>1, <4>2
    <3>3. x < y /\ x \in DOMAIN q /\ y \in DOMAIN q
      BY <1>12, <3>1, <3>2
    <3>4. f.queue[i] = q[x] /\ f.queue[j] = q[y]
      BY <1>12, <3>1, <3>2
    <3> QED BY <1>15, <3>3, <3>4 DEF UnhashedAhead
  <2>3. CASE \E x \in 1 .. Len(back) : i = d + x
    <3>1. PICK x \in 1 .. Len(back) : i = d + x
      BY <2>3
    <3>2. ~ (j \in 1 .. a)
      BY <1>12, <3>1
    <3>3. ~ \E y \in 1 .. Len(q) : j = a + y
      BY <1>12, <3>1
    <3>4. ~ \E y \in 1 .. Len(back) : j = d + y
      BY <1>12, <1>14, SMTT(30)
    <3> QED BY <1>13, <3>2, <3>3, <3>4
  <2> QED BY <1>13, <2>1, <2>2, <2>3
<1>16. ASSUME NEW b \in Block, NEW c \in Block, b \in Range(q), Outlives(p, c, b), p.hash[c] # NoHash
       PROVE  Outlives(f, c, b)
  <2>1. CASE \E x, y \in DOMAIN q : x < y /\ q[x] = b /\ q[y] = c
    <3>1. PICK x \in 1 .. Len(q), y \in 1 .. Len(q) : x < y /\ q[x] = b /\ q[y] = c
      BY <1>12, <2>1
    <3>2. /\ a + x \in DOMAIN f.queue /\ a + y \in DOMAIN f.queue /\ a + x < a + y
          /\ f.queue[a + x] = b /\ f.queue[a + y] = c
      BY <1>12, <3>1, SMTT(30)
    <3> QED BY <3>2 DEF Outlives
  <2>2. CASE p.ref[c] > 0 /\ c \in released
    <3>1. c \in Range(back)
      BY <1>4, <1>16, <2>2
    <3>2. PICK y \in 1 .. Len(back) : back[y] = c
      BY <1>12, <3>1 DEF Range
    <3>3. PICK x \in 1 .. Len(q) : q[x] = b
      BY <1>12, <1>16 DEF Range
    <3>4. /\ a + x \in DOMAIN f.queue /\ d + y \in DOMAIN f.queue /\ a + x < d + y
          /\ f.queue[a + x] = b /\ f.queue[d + y] = c
      <4>1. a \in Nat /\ Len(q) \in Nat /\ Len(back) \in Nat /\ DOMAIN f.queue = 1 .. a + Len(q) + Len(back)
        BY <1>12
      <4>2. a + x \in DOMAIN f.queue /\ d + y \in DOMAIN f.queue /\ a + x < d + y
        BY <4>1
      <4> QED BY <1>12, <3>2, <3>3, <4>2
    <3> QED BY <3>4 DEF Outlives
  <2>3. CASE p.ref[c] > 0 /\ c \notin released
    <3>1. p.ref[c] \in Nat /\ (c \in Range(ids) => p.ref[c] # 1)
      BY <1>2, <2>3
    <3>2. f.ref[c] > 0
      BY <1>10, <2>3, <3>1
    <3> QED BY <3>2 DEF Outlives
  <2> QED BY <1>16, <2>1, <2>2, <2>3 DEF Outlives
<1>17. ASSUME NEW i \in DOMAIN ids, NEW j \in DOMAIN ids, i < j, ids[i] \in Block, ids[j] \in Block,
              p.ref[ids[i]] = 1, p.hash[ids[i]] # NoHash, p.hash[ids[j]] # NoHash
       PROVE  Outlives(f, ids[j], ids[i])
  <2>1. ids[i] \in own /\ ids[j] \in own /\ ids[i] \in released \cap hashed
    BY <1>17 DEF Range
  <2>2. CASE p.ref[ids[j]] = 1
    <3>1. ids[j] \in released \cap hashed
      BY <1>17, <2>1, <2>2
    <3>2. PICK m \in 1 .. Len(back), n \in 1 .. Len(back) : m < n /\ back[m] = ids[i] /\ back[n] = ids[j]
      BY <1>7, <1>12, <1>17, <2>1, <3>1
    <3>3. /\ d + m \in DOMAIN f.queue /\ d + n \in DOMAIN f.queue /\ d + m < d + n
          /\ f.queue[d + m] = ids[i] /\ f.queue[d + n] = ids[j]
      <4>1. a \in Nat /\ Len(q) \in Nat /\ Len(back) \in Nat /\ DOMAIN f.queue = 1 .. a + Len(q) + Len(back)
        BY <1>12
      <4>2. d + m \in DOMAIN f.queue /\ d + n \in DOMAIN f.queue /\ d + m < d + n
        BY <3>2, <4>1
      <4> QED BY <1>12, <3>2, <4>2
    <3> QED BY <3>3 DEF Outlives
  <2>3. CASE p.ref[ids[j]] # 1
    <3>1. p.ref[ids[j]] \in Nat /\ p.ref[ids[j]] > 0
      BY <1>2, <1>5, <2>1
    <3>2. f.ref[ids[j]] > 0
      BY <1>10, <2>1, <2>3, <3>1
    <3> QED BY <3>2 DEF Outlives
  <2> QED BY <2>2, <2>3
<1>18. \A b \in Range(f.queue) \ Range(q) : b \in Range(ids) /\ p.ref[b] = 1
  BY <1>9
<1> QED BY <1>10, <1>11, <1>15, <1>16, <1>17, <1>18 DEF f

(* Hashes leave blocks that are not in the queue, or all of them. *)
LEMMA EvictedProperties ==
  ASSUME NEW p, PoolOK(p), NEW bs \in SUBSET Block
  PROVE  LET e == Evicted(p, bs) IN
         /\ PoolOK(e) /\ e.ref = p.ref /\ e.queue = p.queue
         /\ \A b \in Block : e.hash[b] = IF b \in bs THEN NoHash ELSE p.hash[b]
<1> DEFINE e == Evicted(p, bs)
<1>1. p = [ref |-> p.ref, hash |-> p.hash, queue |-> p.queue]
  BY DEF PoolOK, PoolType
<1>2. e = [ref |-> p.ref, hash |-> [b \in Block |-> IF b \in bs THEN NoHash ELSE p.hash[b]],
           queue |-> p.queue]
  BY <1>1 DEF Evicted
<1>3. NoHash \in Seq(Token)
  BY EmptySeq DEF NoHash
<1>4. e \in PoolType
  BY <1>2, <1>3 DEF PoolOK, PoolType
<1> QED BY <1>2, <1>4 DEF PoolOK
-----------------------------------------------------------------------------
(* A request's row: how far it is computed, cached and hashed, and that it *)
(* lists no block twice.                                                   *)
RowOK(q) ==
  /\ q.computed <= Len(q.tokens)
  /\ Len(q.blocks) = CeilDiv(q.computed)
  /\ Ends(q.cached) <= q.computed
  /\ Len(q.hashes) = Len(q.tokens) \div BlockSize
  /\ Chained(q.hashes)
  /\ q.status = "ABSENT" => q = Absent
  /\ q.status \notin {"ABSENT", "GONE"} => q.tokens # <<>>
  /\ q.status = "IDLE" => Len(q.tokens) <= q.computed + 1
  /\ \A i, j \in DOMAIN q.blocks : q.blocks[i] = q.blocks[j] /\ q.blocks[i] \in Block => i = j

(* The arithmetic of a sound row. *)
LEMMA RowBounds ==
  ASSUME NEW q \in RowType, RowOK(q)
  PROVE  /\ q.tokens \in Seq(Token) /\ Len(q.tokens) \in Nat
         /\ q.cached \in Nat /\ q.computed \in Nat
         /\ q.hashes \in Seq(Seq(Token)) /\ Len(q.hashes) \in Nat /\ DOMAIN q.hashes = 1 .. Len(q.hashes)
         /\ q.blocks \in Seq(Block \cup {NullBlock}) /\ Len(q.blocks) \in Nat
         /\ DOMAIN q.blocks = 1 .. Len(q.blocks)
         /\ q.cached <= Len(q.hashes) /\ q.cached <= Len(q.blocks)
         /\ \A i \in DOMAIN q.blocks : i <= q.cached => i \in DOMAIN q.hashes
         /\ q.computed <= Ends(Len(q.blocks))
         /\ q.computed = 0 => q.blocks = <<>> /\ q.cached = 0
<1>1. /\ q.tokens \in Seq(Token) /\ Len(q.tokens) \in Nat
      /\ q.cached \in Nat /\ q.computed \in Nat
      /\ q.hashes \in Seq(Seq(Token)) /\ Len(q.hashes) \in Nat /\ DOMAIN q.hashes = 1 .. Len(q.hashes)
      /\ q.blocks \in Seq(Block \cup {NullBlock}) /\ Len(q.blocks) \in Nat
      /\ DOMAIN q.blocks = 1 .. Len(q.blocks)
  BY LenProperties DEF RowType
<1>2. Ends(q.cached) \in Nat /\ q.cached <= Ends(q.cached)
  BY <1>1, EndsNat
<1>3. Ends(q.cached) <= q.computed /\ q.computed <= Len(q.tokens)
      /\ Len(q.blocks) = CeilDiv(q.computed) /\ Len(q.hashes) = Len(q.tokens) \div BlockSize
  BY DEF RowOK
<1>4. Ends(q.cached) <= Len(q.tokens)
  BY <1>1, <1>2, <1>3
<1>5. q.cached <= Len(q.hashes)
  <2>1. q.cached <= Len(q.tokens) \div BlockSize <=> Ends(q.cached) <= Len(q.tokens)
    BY <1>1, QuotientProperties
  <2> QED BY <1>3, <1>4, <2>1
<1>6. q.computed <= Ends(Len(q.blocks)) /\ (q.computed = 0 => Len(q.blocks) = 0)
  <2>1. CeilDiv(q.computed) <= Len(q.blocks) <=> q.computed <= Ends(Len(q.blocks))
    BY <1>1, QuotientProperties
  <2>2. CeilDiv(q.computed) = 0 <=> q.computed = 0
    BY <1>1, QuotientProperties
  <2> QED BY <1>1, <1>3, <2>1, <2>2
<1>7. q.cached <= Len(q.blocks)
  <2>1. Ends(Len(q.blocks)) \in Nat
    BY <1>1, EndsNat
  <2>2. Ends(q.cached) <= Ends(Len(q.blocks))
    BY <1>1, <1>2, <1>3, <1>6, <2>1
  <2> QED BY <1>1, <2>2, EndsOrder
<1>8. q.computed = 0 => q.blocks = <<>> /\ q.cached = 0
  <2>1. q.computed = 0 => q.cached = 0
    BY <1>1, <1>2, <1>3
  <2>2. Len(q.blocks) = 0 => q.blocks = <<>>
    BY <1>1, EmptySeq
  <2> QED BY <1>6, <2>1, <2>2
<1>9. \A i \in DOMAIN q.blocks : i <= q.cached => i \in DOMAIN q.hashes
  BY <1>1, <1>5
<1> QED BY <1>1, <1>5, <1>6, <1>7, <1>8, <1>9

(* Its blocks and the pool: the cached ones are found by its hashes, the   *)
(* others by none, and those are its own.                                  *)
RowCached(q, p) ==
  \A i \in DOMAIN q.blocks : q.blocks[i] \in Block =>
    IF i <= q.cached THEN p.hash[q.blocks[i]] = q.hashes[i]
    ELSE p.hash[q.blocks[i]] = NoHash /\ p.ref[q.blocks[i]] = 1

(* Who holds a block, and what its reference count says. *)
Holders(b) == {r \in Req : b \in Range(req[r].blocks)}

References == \A b \in Block : pool.ref[b] = Cardinality(Holders(b))

(* The rows, the pool and the counts agree. *)
Tables ==
  /\ req \in [Req -> RowType] /\ PoolOK(pool) /\ References
  /\ \A r \in Req : RowOK(req[r]) /\ RowCached(req[r], pool)

(* The running list and the step's outputs to come name running requests. *)
Queues ==
  /\ running \in Seq(Req) /\ IsInjective(running) /\ todo \in Seq(Req) /\ IsInjective(todo)
  /\ \A r \in Range(running) : req[r].status = "RUNNING"
  /\ \A r \in Range(todo) : req[r].status = "RUNNING" /\ req[r].computed = Len(req[r].tokens)
  /\ phase = "between" => todo = <<>>
  /\ phase \in {"running", "preempting"} =>
       Len(todo) <= Len(running) /\ \A i \in 1 .. Len(todo) : todo[i] = running[i]

(* Plans name real blocks, and the two exceptions that are never raised. *)
Others ==
  /\ content \in [Block -> Seq(Token)]
  /\ DOMAIN plans = Req /\ \A r \in Req : \A i \in DOMAIN plans[r] : plans[r][i] \in Block
  /\ demotions \in Nat
  /\ raised \notin {"short", "rehash"}

(* The inductive invariant. *)
CacheInv == Tables /\ Queues /\ Others

(* A block in a row has a holder; with one holder it is in no other row.    *)
LEMMA HeldBlocks ==
  ASSUME Tables, NEW b \in Block
  PROVE  /\ pool.ref[b] \in Nat /\ IsFiniteSet(Holders(b))
         /\ \A r \in Req : b \in Range(req[r].blocks) => pool.ref[b] > 0
         /\ pool.ref[b] = 1 => \A r, s \in Req :
              b \in Range(req[r].blocks) /\ b \in Range(req[s].blocks) => r = s
<1>1. IsFiniteSet(Holders(b))
  <2>1. Holders(b) \in SUBSET Req
    BY DEF Holders
  <2>2. IsFiniteSet(Req)
    BY PrefixAssumption
  <2> QED BY <2>1, <2>2, FS_Subset
<1>2. pool.ref[b] = Cardinality(Holders(b)) /\ pool.ref[b] \in Nat
  BY DEF Tables, References, PoolOK, PoolType
<1>3. \A r \in Req : b \in Range(req[r].blocks) => Holders(b) # {}
  BY DEF Holders
<1>4. \A r \in Req : b \in Range(req[r].blocks) => pool.ref[b] > 0
  <2>1. Cardinality(Holders(b)) = 0 <=> Holders(b) = {}
    BY <1>1, FS_EmptySet
  <2> QED BY <1>2, <1>3, <2>1
<1>5. pool.ref[b] = 1 => \E x : Holders(b) = {x}
  BY <1>1, <1>2, FS_Singleton
<1>6. \A r \in Req : b \in Range(req[r].blocks) => r \in Holders(b)
  BY DEF Holders
<1> QED BY <1>1, <1>2, <1>4, <1>5, <1>6

(* The count of a block's holders when one row changes. *)
LEMMA HoldersChange ==
  ASSUME Tables, NEW b \in Block, NEW r \in Req, NEW q \in RowType, req' = [req EXCEPT ![r] = q]
  PROVE  Cardinality(Holders(b)') =
           pool.ref[b] + (IF b \in Range(q.blocks) THEN 1 ELSE 0)
                       - (IF b \in Range(req[r].blocks) THEN 1 ELSE 0)
<1>1. IsFiniteSet(Holders(b)) /\ pool.ref[b] = Cardinality(Holders(b)) /\ pool.ref[b] \in Nat
  BY HeldBlocks DEF Tables, References
<1>2. \A s \in Req : req'[s] = IF s = r THEN q ELSE req[s]
  BY DEF Tables
<1>3. Holders(b)' = IF b \in Range(q.blocks) THEN Holders(b) \cup {r} ELSE Holders(b) \ {r}
  BY <1>2 DEF Holders
<1>4. r \in Holders(b) <=> b \in Range(req[r].blocks)
  BY DEF Holders
<1>5. CASE b \in Range(q.blocks)
  <2>1. Cardinality(Holders(b) \cup {r}) =
          IF r \in Holders(b) THEN Cardinality(Holders(b)) ELSE Cardinality(Holders(b)) + 1
    BY <1>1, FS_AddElement
  <2> QED BY <1>1, <1>3, <1>4, <1>5, <2>1
<1>6. CASE b \notin Range(q.blocks)
  <2>1. Cardinality(Holders(b) \ {r}) =
          IF r \in Holders(b) THEN Cardinality(Holders(b)) - 1 ELSE Cardinality(Holders(b))
    BY <1>1, FS_RemoveElement
  <2> QED BY <1>1, <1>3, <1>4, <1>6, <2>1
<1> QED BY <1>5, <1>6

(* A row keeps its blocks and what is cached of it. *)
LEMMA SameBlocks ==
  ASSUME Tables, NEW r \in Req, NEW q \in RowType, RowOK(q),
         q.blocks = req[r].blocks, q.cached = req[r].cached,
         \A i \in DOMAIN req[r].hashes : q.hashes[i] = req[r].hashes[i],
         req' = [req EXCEPT ![r] = q], pool' = pool
  PROVE  Tables'
<1>1. \A s \in Req : req'[s] = IF s = r THEN q ELSE req[s]
  BY DEF Tables
<1>2. req' \in [Req -> RowType]
  BY DEF Tables
<1>3. \A b \in Block : Holders(b)' = Holders(b)
  BY <1>1 DEF Holders
<1>4. References'
  BY <1>3 DEF Tables, References
<1>5. \A i \in DOMAIN req[r].blocks : i <= req[r].cached => i \in DOMAIN req[r].hashes
  <2>1. req[r] \in RowType /\ RowOK(req[r])
    BY DEF Tables
  <2> QED BY <2>1, RowBounds
<1>6. RowCached(q, pool)
  BY <1>5 DEF Tables, RowCached
<1> QED BY <1>1, <1>2, <1>4, <1>6 DEF Tables

(* A row gives blocks back, all or some of them. *)
LEMMA FreedRow ==
  ASSUME Tables, NEW r \in Req, NEW q \in RowType, RowOK(q), NEW p, PoolOK(p), p.ref = pool.ref,
         NEW ids \in Seq(Block \cup {NullBlock}),
         \A i, j \in DOMAIN ids : ids[i] = ids[j] /\ ids[i] \in Block => i = j,
         \A b \in Block : b \in Range(ids) => b \in Range(req[r].blocks),
         \A b \in Block : b \in Range(q.blocks) <=> b \in Range(req[r].blocks) /\ b \notin Range(ids),
         \A i \in DOMAIN q.blocks : q.blocks[i] \in Block =>
           /\ i \in DOMAIN req[r].blocks /\ q.blocks[i] = req[r].blocks[i]
           /\ q.cached = req[r].cached /\ q.hashes = req[r].hashes,
         \A b \in Block : p.hash[b] # pool.hash[b] => b \in Range(ids) /\ pool.ref[b] = 1,
         req' = [req EXCEPT ![r] = q], pool' = Freed(p, ids)
  PROVE  Tables'
<1>1. \A s \in Req : req'[s] = IF s = r THEN q ELSE req[s]
  BY DEF Tables
<1>2. req' \in [Req -> RowType]
  BY DEF Tables
<1>3. \A i \in DOMAIN ids : ids[i] \in Block => p.ref[ids[i]] > 0
  <2> TAKE i \in DOMAIN ids
  <2>1. ids[i] \in Range(ids)
    BY DEF Range
  <2> QED BY <2>1, HeldBlocks
<1>4. /\ PoolOK(pool') /\ pool'.hash = p.hash
      /\ \A b \in Block : pool'.ref[b] = pool.ref[b] - IF b \in Range(ids) THEN 1 ELSE 0
  BY <1>3, FreedProperties
<1>5. References'
  <2> SUFFICES ASSUME NEW b \in Block PROVE pool'.ref[b] = Cardinality(Holders(b)')
    BY DEF References
  <2>1. pool.ref[b] \in Nat
    BY HeldBlocks
  <2>2. Cardinality(Holders(b)') =
           pool.ref[b] + (IF b \in Range(q.blocks) THEN 1 ELSE 0)
                       - (IF b \in Range(req[r].blocks) THEN 1 ELSE 0)
    BY HoldersChange
  <2> QED BY <1>4, <2>1, <2>2
<1>6. RowCached(q, pool')
  <2> SUFFICES ASSUME NEW i \in DOMAIN q.blocks, q.blocks[i] \in Block
               PROVE  IF i <= q.cached THEN pool'.hash[q.blocks[i]] = q.hashes[i]
                      ELSE pool'.hash[q.blocks[i]] = NoHash /\ pool'.ref[q.blocks[i]] = 1
    BY DEF RowCached
  <2>1. q.blocks[i] \in Range(q.blocks)
    BY DEF Range
  <2>2. q.blocks[i] \notin Range(ids) /\ p.hash[q.blocks[i]] = pool.hash[q.blocks[i]]
    BY <2>1
  <2>3. pool'.ref[q.blocks[i]] = pool.ref[q.blocks[i]]
    <3>1. pool.ref[q.blocks[i]] \in Nat
      BY HeldBlocks
    <3> QED BY <1>4, <2>2, <3>1
  <2>4. RowCached(req[r], pool)
    BY DEF Tables
  <2> QED BY <1>4, <2>2, <2>3, <2>4 DEF RowCached
<1>7. ASSUME NEW s \in Req, s # r PROVE RowCached(req[s], pool')
  <2> SUFFICES ASSUME NEW i \in DOMAIN req[s].blocks, req[s].blocks[i] \in Block
               PROVE  IF i <= req[s].cached THEN pool'.hash[req[s].blocks[i]] = req[s].hashes[i]
                      ELSE pool'.hash[req[s].blocks[i]] = NoHash /\ pool'.ref[req[s].blocks[i]] = 1
    BY DEF RowCached
  <2> DEFINE b == req[s].blocks[i]
  <2>1. b \in Block /\ b \in Range(req[s].blocks)
    BY DEF Range
  <2>2. b \in Range(ids) => pool.ref[b] # 1
    <3>1. b \in Range(ids) => b \in Range(req[r].blocks)
      BY <2>1
    <3> HIDE DEF b
    <3> QED BY <1>7, <2>1, <3>1, HeldBlocks
  <2>3. IF i <= req[s].cached THEN pool.hash[b] = req[s].hashes[i]
        ELSE pool.hash[b] = NoHash /\ pool.ref[b] = 1
    BY DEF Tables, RowCached
  <2> HIDE DEF b
  <2>4. p.hash[b] = pool.hash[b] /\ pool.ref[b] \in Nat
    BY <2>1, <2>2, HeldBlocks
  <2>5. IF i <= req[s].cached THEN pool'.hash[b] = req[s].hashes[i]
        ELSE pool'.hash[b] = NoHash /\ pool'.ref[b] = 1
    BY <1>4, <2>1, <2>2, <2>3, <2>4
  <2> QED BY <2>5 DEF b
<1>8. \A s \in Req : RowOK(req'[s]) /\ RowCached(req'[s], pool')
  BY <1>1, <1>6, <1>7 DEF Tables
<1> QED BY <1>2, <1>4, <1>5, <1>8 DEF Tables
-----------------------------------------------------------------------------
(* The hits of a lookup: a block for each of the first hashes, once each,   *)
(* and not for the last token.                                             *)
HitsOf(q, hits) ==
  /\ hits \in Seq(Block) /\ IsInjective(hits)
  /\ Len(hits) <= Len(q.hashes)
  /\ \A i \in 1 .. Len(hits) : pool.hash[hits[i]] = q.hashes[i]
  /\ hits # <<>> => q.computed = 0

(* A lookup that found nothing. *)
LEMMA NoHits ==
  ASSUME NEW q \in RowType PROVE HitsOf(q, <<>>)
<1>1. <<>> \in Seq(Block) /\ Len(<<>>) = 0
  BY EmptySeq
<1>2. IsInjective(<<>>)
  BY DEF IsInjective
<1>3. Len(q.hashes) \in Nat
  BY LenProperties DEF RowType
<1> QED BY <1>1, <1>2, <1>3 DEF HitsOf

(* find_longest_cache_hit: every block it returns is hashed by the row's   *)
(* hash of that place, and the last token is never among the hits.         *)
LEMMA HitsProperties ==
  ASSUME Tables, NEW q \in RowType, RowOK(q), q.tokens # <<>>, NEW hits \in Hits(q)
  PROVE  HitsOf(q, hits)
<1>1. CASE q.computed # 0
  BY <1>1, NoHits DEF Hits
<1>2. CASE q.computed = 0
  <2> DEFINE S == {k \in 0 .. MaxHits(q) : \A i \in 1 .. k : Holding(pool, q.hashes[i]) # {}}
             n == Max(S)
  <2>1. hits \in [1 .. n -> Block] /\ \A i \in 1 .. n : hits[i] \in Holding(pool, q.hashes[i])
    BY <1>2 DEF Hits, LongestHits
  <2>2. /\ Len(q.tokens) \in Nat \ {0} /\ Len(q.hashes) \in Nat
        /\ q.hashes \in Seq(Seq(Token)) /\ DOMAIN q.hashes = 1 .. Len(q.hashes)
    BY RowBounds, EmptySeq
  <2>3. MaxHits(q) \in Nat /\ MaxHits(q) <= Len(q.hashes)
    <3>1. Len(q.tokens) - 1 \in Nat
      BY <2>2
    <3>2. (Len(q.tokens) - 1) \div BlockSize \in Nat
      BY <3>1, QuotientProperties
    <3> QED BY <2>2, <3>2 DEF MaxHits, Smaller
  <2>4. n \in S
    <3>1. 0 \in S
      BY <2>3
    <3> DEFINE T == {x \in Nat : \A y \in S : x >= y}
    <3>2. MaxHits(q) \in T
      BY <2>3
    <3>3. PICK m \in T : \A y \in T : m <= y
      <4> HIDE DEF T
      <4>1. T \in SUBSET Nat /\ T # {}
        BY <3>2 DEF T
      <4> QED BY <4>1, LeastNumber
    <3>4. m \in S
      <4> SUFFICES ASSUME m \notin S PROVE FALSE
        OBVIOUS
      <4>1. m # 0 /\ m - 1 \in Nat
        BY <3>1
      <4>2. \A y \in S : y \in Nat /\ m >= y /\ y # m
        BY <2>3
      <4>5. m \in Nat
        OBVIOUS
      <4>3. \A y \in S : m - 1 >= y
        <5> HIDE DEF S, T
        <5> QED BY <4>2, <4>5
      <4>4. m - 1 \in T
        BY <4>1, <4>3
      <4> HIDE DEF T
      <4> QED BY <3>3, <4>4, <4>5
    <3>5. m \in S /\ \A y \in S : m >= y
      BY <3>4
    <3> HIDE DEF S
    <3> QED BY <3>5 DEF Max
  <2>5. n \in Nat /\ n <= Len(q.hashes)
    BY <2>2, <2>3, <2>4
  <2> HIDE DEF n
  <2>6. hits \in Seq(Block) /\ Len(hits) = n /\ DOMAIN hits = 1 .. n
    BY <2>1, <2>5
  <2>7. \A i \in 1 .. n : pool.hash[hits[i]] = q.hashes[i]
    BY <2>1 DEF Holding
  <2>8. IsInjective(hits)
    <3> SUFFICES ASSUME NEW i \in 1 .. n, NEW j \in 1 .. n, hits[i] = hits[j] PROVE i = j
      BY <2>6 DEF IsInjective
    <3>1. q.hashes[i] = q.hashes[j]
      BY <2>7
    <3>2. i \in DOMAIN q.hashes /\ j \in DOMAIN q.hashes /\ i \in Nat /\ j \in Nat
      BY <2>2, <2>5
    <3>3. Ends(i) = Ends(j)
      BY <3>1, <3>2 DEF RowOK, Chained
    <3> QED BY <3>2, <3>3, EndsNat, EndsOrder
  <2> QED BY <1>2, <2>5, <2>6, <2>7, <2>8 DEF HitsOf
<1> QED BY <1>1, <1>2

(* The queue that is left when hits are touched: it lost the hits that no   *)
(* request held.                                                           *)
LEMMA TouchedLength ==
  ASSUME NEW p, PoolOK(p), NEW hits \in Seq(Block)
  PROVE  /\ Len(p.queue) \in Nat /\ Len(Touched(p, hits).queue) \in Nat
         /\ Cardinality({i \in DOMAIN hits : p.ref[hits[i]] = 0}) \in Nat
         /\ Len(p.queue) <= Len(Touched(p, hits).queue)
                            + Cardinality({i \in DOMAIN hits : p.ref[hits[i]] = 0})
<1> DEFINE t == Touched(p, hits)
           Z == {i \in DOMAIN hits : p.ref[hits[i]] = 0}
           Y == Range(p.queue) \cap Range(hits)
           f == [i \in Z |-> hits[i]]
<1>1. /\ Len(hits) \in Nat /\ DOMAIN hits = 1 .. Len(hits) /\ Range(hits) \subseteq Block
      /\ \A i \in DOMAIN hits : hits[i] \in Block
  BY LenProperties, RangeOfSeq
<1>2. IsFiniteSet(Z) /\ Cardinality(Z) \in Nat
  <2>1. IsFiniteSet(DOMAIN hits)
    BY <1>1, FS_Interval
  <2>2. Z \in SUBSET (DOMAIN hits)
    OBVIOUS
  <2> HIDE DEF Z
  <2>3. IsFiniteSet(Z)
    BY <2>1, <2>2, FS_Subset
  <2> QED BY <2>3, FS_CardinalityType
<1>3. f \in Surjection(Z, Y)
  <2>1. \A i \in Z : hits[i] \in Y
    BY <1>1 DEF PoolOK, Range
  <2>2. \A b \in Y : \E i \in Z : hits[i] = b
    BY <1>1 DEF PoolOK, Range
  <2>3. f \in [Z -> Y] /\ \A b \in Y : \E i \in Z : f[i] = b
    BY <2>1, <2>2
  <2> HIDE DEF f, Z, Y
  <2> QED BY <2>3 DEF Surjection
<1>4. IsFiniteSet(Y) /\ Cardinality(Y) <= Cardinality(Z)
  <2> HIDE DEF f, Z, Y
  <2> QED BY <1>2, <1>3, FS_Surjection
<1>5. /\ p.queue \in Seq(Block) /\ IsInjective(p.queue) /\ Range(p.queue) \subseteq Block
      /\ t.queue \in Seq(Block) /\ IsInjective(t.queue) /\ Range(t.queue) = Range(p.queue) \ Range(hits)
  BY TouchedProperties, RangeOfSeq DEF PoolOK, PoolType
<1> HIDE DEF t
<1>6. /\ Len(p.queue) \in Nat /\ Len(t.queue) \in Nat
      /\ IsFiniteSet(Range(p.queue)) /\ Cardinality(Range(p.queue)) = Len(p.queue)
      /\ IsFiniteSet(Range(t.queue)) /\ Cardinality(Range(t.queue)) = Len(t.queue)
  BY <1>5, LengthIsCardinality, LenProperties
<1>7. Range(t.queue) \cup Y = Range(p.queue) /\ Range(t.queue) \cap Y = {}
  BY <1>5
<1> HIDE DEF Y
<1>8. Cardinality(Range(p.queue)) = Cardinality(Range(t.queue)) + Cardinality(Y) - Cardinality({})
  BY <1>4, <1>6, <1>7, FS_Union
<1>9. Cardinality(Y) \in Nat /\ Cardinality({}) = 0
  BY <1>4, FS_CardinalityType, FS_EmptySet
<1> HIDE DEF Z
<1>10. Len(p.queue) <= Len(t.queue) + Cardinality(Z)
  BY <1>2, <1>4, <1>6, <1>8, <1>9
<1> QED BY <1>2, <1>6, <1>10 DEF t, Z
-----------------------------------------------------------------------------
(* What allocate_slots and the write of the KV do to a request's row, to   *)
(* the pool and to the contents: the row keeps its blocks, the hits come   *)
(* next, then blocks nobody held; a block has the row's hash if it is full *)
(* now, and none otherwise.                                                *)
Placed(r, hits, blocks) ==
  LET q == req[r]
      m == Len(q.blocks) + Len(hits)
      full == Len(q.tokens) \div BlockSize
  IN /\ req' = [req EXCEPT ![r] = [q EXCEPT !.status = "RUNNING", !.blocks = blocks,
                                            !.computed = Len(q.tokens), !.cached = full]]
     /\ Len(blocks) = CeilDiv(Len(q.tokens)) /\ m <= Len(blocks)
     /\ \A i, j \in DOMAIN blocks : blocks[i] = blocks[j] /\ blocks[i] \in Block => i = j
     /\ \A i \in 1 .. Len(q.blocks) : blocks[i] = q.blocks[i]
     /\ hits # <<>> => q.blocks = <<>>
     /\ \A i \in 1 .. Len(hits) : blocks[i] = hits[i]
     /\ \A i \in m + 1 .. Len(blocks) :
          blocks[i] \in Block /\ pool.ref[blocks[i]] = 0 /\ blocks[i] \notin Range(hits)
     /\ PoolOK(pool')
     /\ \A b \in Block :
          /\ pool'.ref[b] = pool.ref[b] + (IF b \in Range(hits) THEN 1 ELSE 0)
                              + (IF \E i \in m + 1 .. Len(blocks) : blocks[i] = b THEN 1 ELSE 0)
          /\ b \notin Range(blocks) => pool'.hash[b] = pool.hash[b] /\ content'[b] = content[b]
     /\ \A i \in DOMAIN blocks : blocks[i] \in Block =>
          /\ pool'.hash[blocks[i]] = IF i <= full THEN q.hashes[i] ELSE NoHash
          /\ i <= m => pool.hash[blocks[i]] = NoHash \/ pool'.hash[blocks[i]] = pool.hash[blocks[i]]
          /\ content'[blocks[i]] = IF Ends(i) > q.computed + Ends(Len(hits))
                                   THEN Prefix(q.tokens, Ends(i)) ELSE content[blocks[i]]
     /\ UnhashedAhead(pool) => UnhashedAhead(pool')
     /\ \A b, c \in Block : b \in Range(pool'.queue) /\ Outlives(pool, c, b) =>
          /\ Outlives(pool', c, b)
          /\ ~ \E i \in m + 1 .. Len(blocks) : blocks[i] = c

(* The row and the pool after a request was placed. *)
LEMMA PlacedRow ==
  ASSUME Tables, NEW r \in Req, NEW hits, HitsOf(req[r], hits), req[r].tokens # <<>>,
         Fits(req[r], hits), Place(r, hits), content \in [Block -> Seq(Token)]
  PROVE  /\ raised' = raised /\ todo' = Append(todo, r)
         /\ content' \in [Block -> Seq(Token)]
         /\ \E blocks \in Seq(Block \cup {NullBlock}) : Placed(r, hits, blocks)
<1> DEFINE q == req[r]
           L == Len(q.tokens)
           h == Len(hits)
           own == Len(q.blocks)
           n == CeilDiv(Len(q.tokens)) - Len(q.blocks) - Len(hits)
           touched == Touched(pool, hits)
           new == NewBlocks(touched, n)
           kept == q.blocks \o hits
           blocks == q.blocks \o hits \o NewBlocks(touched, n)
           allocated == Allocated(touched, n)
           start == q.computed + BlockSize * Len(hits)
           full == Len(q.tokens) \div BlockSize
           first == Larger(q.cached, Len(hits))
           toCache == {i \in first + 1 .. full : blocks[i] # NullBlock}
           written == {i \in DOMAIN blocks : i * BlockSize > start}
           at(b) == CHOOSE i \in DOMAIN blocks : blocks[i] = b
           m == own + h
\* The request and its hits.
<1>1. /\ q \in RowType /\ RowOK(q) /\ RowCached(q, pool) /\ PoolOK(pool)
      /\ hits \in Seq(Block) /\ IsInjective(hits) /\ h <= Len(q.hashes)
      /\ \A i \in 1 .. h : pool.hash[hits[i]] = q.hashes[i]
      /\ hits # <<>> => q.computed = 0
  BY DEF Tables, HitsOf
<1>2. /\ L \in Nat /\ h \in Nat /\ own \in Nat /\ DOMAIN hits = 1 .. h
      /\ q.tokens \in Seq(Token) /\ q.cached \in Nat /\ q.computed \in Nat
      /\ q.hashes \in Seq(Seq(Token)) /\ DOMAIN q.hashes = 1 .. Len(q.hashes)
      /\ q.blocks \in Seq(Block \cup {NullBlock}) /\ DOMAIN q.blocks = 1 .. own
      /\ q.cached <= own /\ q.computed <= L /\ Len(q.hashes) = full /\ own = CeilDiv(q.computed)
      /\ q.computed = 0 => q.blocks = <<>> /\ q.cached = 0
      /\ full \in Nat /\ q.cached <= full /\ h <= full
  <2>1. h \in Nat /\ DOMAIN hits = 1 .. h
    BY <1>1, LenProperties
  <2>2. /\ L \in Nat /\ own \in Nat
        /\ q.tokens \in Seq(Token) /\ q.cached \in Nat /\ q.computed \in Nat
        /\ q.hashes \in Seq(Seq(Token)) /\ DOMAIN q.hashes = 1 .. Len(q.hashes)
        /\ q.blocks \in Seq(Block \cup {NullBlock}) /\ DOMAIN q.blocks = 1 .. own
        /\ q.cached <= own /\ q.cached <= Len(q.hashes)
        /\ q.computed = 0 => q.blocks = <<>> /\ q.cached = 0
    BY <1>1, RowBounds
  <2>3. q.computed <= L /\ Len(q.hashes) = full /\ own = CeilDiv(q.computed)
    BY <1>1 DEF RowOK
  <2>4. full \in Nat
    BY <2>2, QuotientProperties
  <2> QED BY <1>1, <2>1, <2>2, <2>3, <2>4
<1>3. hits # <<>> => q.blocks = <<>> /\ own = 0 /\ q.cached = 0
  BY <1>1, <1>2, EmptySeq
<1>4. hits = <<>> => h = 0
  BY EmptySeq
<1> HIDE DEF q
\* How many blocks it gets.
<1>5. /\ CeilDiv(L) \in Nat /\ full <= CeilDiv(L) /\ m <= CeilDiv(L)
      /\ n \in Nat /\ n = CeilDiv(L) - m /\ Ends(full) <= L
  <2>1. CeilDiv(L) \in Nat /\ L <= Ends(CeilDiv(L)) /\ Ends(full) <= L
    <3>1. CeilDiv(L) \in Nat
      BY <1>2, QuotientProperties
    <3>2. CeilDiv(L) <= CeilDiv(L) <=> L <= Ends(CeilDiv(L))
      BY <1>2, <3>1, QuotientProperties
    <3>3. full <= L \div BlockSize <=> Ends(full) <= L
      <4> HIDE DEF full, L
      <4> QED BY <1>2, QuotientProperties
    <3> QED BY <1>2, <3>1, <3>2, <3>3
  <2>2. full <= CeilDiv(L)
    <3>1. Ends(full) <= Ends(CeilDiv(L))
      <4>1. Ends(full) \in Nat /\ Ends(CeilDiv(L)) \in Nat
        BY <1>2, <2>1, EndsNat
      <4> HIDE DEF full, L
      <4> QED BY <1>2, <2>1, <4>1
    <3> HIDE DEF full, L
    <3> QED BY <1>2, <2>1, <3>1, EndsOrder
  <2>3. own <= CeilDiv(L)
    <3>1. CeilDiv(q.computed) <= CeilDiv(L) <=> q.computed <= Ends(CeilDiv(L))
      BY <1>2, <2>1, QuotientProperties
    <3>2. Ends(CeilDiv(L)) \in Nat
      BY <2>1, EndsNat
    <3> QED BY <1>2, <2>1, <3>1, <3>2
  <2>4. m <= CeilDiv(L)
    <3>1. CASE hits = <<>>
      BY <1>2, <1>4, <2>3, <3>1
    <3>2. CASE hits # <<>>
      <4> HIDE DEF full, h, own, L
      <4> QED BY <1>2, <1>3, <2>1, <2>2, <3>2
    <3> QED BY <3>1, <3>2
  <2> HIDE DEF full
  <2> QED BY <1>2, <2>1, <2>2, <2>4
<1>6. n \in 0 .. Len(touched.queue)
  <2> DEFINE z == Cardinality({i \in DOMAIN hits : pool.ref[hits[i]] = 0})
  <2>1. /\ Len(pool.queue) \in Nat /\ Len(touched.queue) \in Nat /\ z \in Nat
        /\ Len(pool.queue) <= Len(touched.queue) + z
    BY <1>1, TouchedLength
  <2>2. Larger(n, 0) + z <= Len(pool.queue)
    BY DEF Fits, Needed, NeededForNew, Free, q
  <2>3. Larger(n, 0) = n
    BY <1>5 DEF Larger
  <2> HIDE DEF n, z, touched
  <2> QED BY <1>5, <2>1, <2>2, <2>3
<1>7. /\ PoolOK(touched) /\ touched.hash = pool.hash
      /\ \A b \in Block : touched.ref[b] = pool.ref[b] + IF b \in Range(hits) THEN 1 ELSE 0
      /\ UnhashedAhead(pool) => UnhashedAhead(touched)
      /\ \A b, c \in Block : b \in Range(touched.queue) /\ Outlives(pool, c, b) => Outlives(touched, c, b)
  BY <1>1, TouchedProperties
<1> HIDE DEF n, touched
<1>8. /\ PoolOK(allocated) /\ new \in Seq(Block) /\ Len(new) = n /\ IsInjective(new)
      /\ Range(new) \subseteq Range(touched.queue)
      /\ \A b \in Block : /\ allocated.ref[b] = touched.ref[b] + IF b \in Range(new) THEN 1 ELSE 0
                          /\ allocated.hash[b] = IF b \in Range(new) THEN NoHash ELSE touched.hash[b]
      /\ Range(allocated.queue) = Range(touched.queue) \ Range(new)
      /\ UnhashedAhead(touched) => UnhashedAhead(allocated)
      /\ \A b, c \in Block : b \in Range(allocated.queue) /\ Outlives(touched, c, b) =>
           Outlives(allocated, c, b) /\ c \notin Range(new)
  BY <1>6, <1>7, AllocatedProperties
<1> HIDE DEF new, allocated
<1>9. /\ Range(hits) \subseteq Block /\ Range(new) \subseteq Block /\ DOMAIN new = 1 .. n
      /\ \A b \in Block : pool.ref[b] \in Nat /\ touched.ref[b] \in Nat
      /\ \A b \in Range(new) : touched.ref[b] = 0 /\ pool.ref[b] = 0 /\ b \notin Range(hits)
  <2>1. Range(hits) \subseteq Block /\ Range(new) \subseteq Block /\ DOMAIN new = 1 .. n
    BY <1>1, <1>8, RangeOfSeq, LenProperties
  <2>2. \A b \in Block : pool.ref[b] \in Nat /\ touched.ref[b] \in Nat
    BY <1>1, <1>7 DEF PoolOK, PoolType
  <2>3. ASSUME NEW b \in Range(new) PROVE touched.ref[b] = 0 /\ pool.ref[b] = 0 /\ b \notin Range(hits)
    <3>1. b \in Block /\ touched.ref[b] = 0
      BY <1>7, <1>8, <2>1 DEF PoolOK
    <3> QED BY <1>7, <2>2, <3>1
  <2> QED BY <2>1, <2>2, <2>3
\* Where each block of the row comes from.
<1>10. /\ blocks \in Seq(Block \cup {NullBlock}) /\ Len(blocks) = CeilDiv(L) /\ DOMAIN blocks = 1 .. CeilDiv(L)
       /\ \A i \in 1 .. own : blocks[i] = q.blocks[i]
       /\ \A i \in 1 .. h : blocks[i] = hits[i]
       /\ \A i \in m + 1 .. CeilDiv(L) : \E k \in 1 .. n : i = m + k /\ blocks[i] = new[k]
       /\ \A k \in 1 .. n : m + k \in m + 1 .. CeilDiv(L) /\ blocks[m + k] = new[k]
  <2> DEFINE T == Block \cup {NullBlock}
  <2>1. hits \in Seq(T) /\ new \in Seq(T) /\ q.blocks \in Seq(T)
    BY <1>1, <1>2, <1>8, SeqMonotonic
  <2>2. /\ kept \in Seq(T) /\ Len(kept) = m
        /\ \A i \in 1 .. own + h : kept[i] = IF i <= own THEN q.blocks[i] ELSE hits[i - own]
    <3> HIDE DEF T
    <3> QED BY <2>1, ConcatProperties
  <2>3. blocks = kept \o new
    BY DEF new
  <2> HIDE DEF kept, blocks
  <2>4. /\ blocks \in Seq(T) /\ Len(blocks) = m + n
        /\ \A i \in 1 .. m + n : blocks[i] = IF i <= m THEN kept[i] ELSE new[i - m]
    <3>1. /\ kept \o new \in Seq(T) /\ Len(kept \o new) = Len(kept) + Len(new)
          /\ \A i \in 1 .. Len(kept) + Len(new) : (kept \o new)[i] = IF i <= Len(kept) THEN kept[i] ELSE new[i - Len(kept)]
      <4>1. kept \in Seq(T) /\ new \in Seq(T)
        BY <2>1, <2>2
      <4> HIDE DEF T
      <4> QED BY <4>1, ConcatProperties
    <3> QED BY <1>8, <2>2, <2>3, <3>1
  <2> HIDE DEF h, own, L
  <2>5. m + n = CeilDiv(L) /\ m \in Nat
    BY <1>2, <1>5, SMTT(30)
  <2>6. \A i \in 1 .. own : blocks[i] = q.blocks[i]
    <3> TAKE i \in 1 .. own
    <3>1. i \in 1 .. own + h /\ i \in 1 .. m + n /\ i <= m /\ i <= own
      <4>1. own \in Nat /\ h \in Nat /\ n \in Nat
        BY <1>2, <1>5
      <4> QED BY <4>1
    <3> QED BY <2>2, <2>4, <3>1
  <2>7. \A i \in 1 .. h : blocks[i] = hits[i]
    <3> TAKE i \in 1 .. h
    <3>1. own = 0
      BY <1>2, <1>3, <1>4
    <3>2. i \in 1 .. own + h /\ i \in 1 .. m + n /\ i <= m /\ ~ (i <= own) /\ i - own = i
      BY <1>2, <1>5, <2>5, <3>1
    <3> QED BY <2>2, <2>4, <3>2
  <2> HIDE DEF m
  <2>8. \A i \in m + 1 .. CeilDiv(L) : \E k \in 1 .. n : i = m + k /\ blocks[i] = new[k]
    <3> TAKE i \in m + 1 .. CeilDiv(L)
    <3>1. PICK k \in 1 .. n : k = i - m /\ i = m + k /\ i \in 1 .. m + n /\ ~ (i <= m)
      BY <1>5, <2>5
    <3> QED BY <2>4, <3>1
  <2>9. \A k \in 1 .. n : m + k \in m + 1 .. CeilDiv(L) /\ blocks[m + k] = new[k]
    <3> TAKE k \in 1 .. n
    <3>1. PICK i \in m + 1 .. CeilDiv(L) : i - m = k /\ i = m + k /\ i \in 1 .. m + n /\ ~ (i <= m)
      BY <1>5, <2>5
    <3>2. blocks[i] = new[k]
      BY <2>4, <3>1
    <3> QED BY <3>1, <3>2
  <2>10. DOMAIN blocks = 1 .. CeilDiv(L)
    BY <2>4, <2>5, LenProperties
  <2> QED BY <2>4, <2>5, <2>6, <2>7, <2>8, <2>9, <2>10
<1> HIDE DEF L, h, own, full, m
<1>11. /\ m = own + h /\ first \in Nat /\ first <= m /\ first <= full
       /\ first = IF hits = <<>> THEN q.cached ELSE h
  BY <1>2, <1>3, <1>4, <1>5, EmptySeq DEF m, Larger, h
<1>12. ASSUME NEW i \in 1 .. m, blocks[i] \in Block
       PROVE  /\ touched.ref[blocks[i]] > 0 /\ blocks[i] \notin Range(new)
              /\ allocated.hash[blocks[i]] = pool.hash[blocks[i]]
              /\ IF i <= first THEN pool.hash[blocks[i]] = q.hashes[i] ELSE pool.hash[blocks[i]] = NoHash
  <2>1. CASE hits = <<>>
    <3>1. i \in DOMAIN q.blocks /\ blocks[i] = q.blocks[i] /\ first = q.cached
      BY <1>2, <1>4, <1>10, <1>11, <2>1
    <3>2. q.blocks[i] \in Block /\ q.blocks[i] \in Range(q.blocks)
      BY <1>12, <3>1 DEF Range
    <3>3. pool.ref[q.blocks[i]] > 0
      BY <3>2, HeldBlocks DEF q
    <3>4. touched.ref[q.blocks[i]] > 0
      BY <1>7, <1>9, <3>2, <3>3
    <3>5. IF i <= q.cached THEN pool.hash[q.blocks[i]] = q.hashes[i] ELSE pool.hash[q.blocks[i]] = NoHash
      BY <1>1, <3>1, <3>2 DEF RowCached
    <3>6. q.blocks[i] \notin Range(new)
      BY <1>9, <3>4
    <3> HIDE DEF first, blocks
    <3> QED BY <1>7, <1>8, <3>1, <3>2, <3>4, <3>5, <3>6
  <2>2. CASE hits # <<>>
    <3>1. i \in DOMAIN hits /\ blocks[i] = hits[i] /\ i <= first
      BY <1>2, <1>3, <1>10, <1>11, <2>2
    <3>2. hits[i] \in Block /\ hits[i] \in Range(hits)
      BY <1>12, <3>1 DEF Range
    <3>3. touched.ref[hits[i]] > 0
      BY <1>7, <1>9, <3>2
    <3>4. hits[i] \notin Range(new)
      BY <1>9, <3>3
    <3>5. pool.hash[hits[i]] = q.hashes[i]
      BY <1>1, <1>2, <3>1
    <3> HIDE DEF first, blocks
    <3> QED BY <1>7, <1>8, <3>1, <3>2, <3>3, <3>4, <3>5
  <2> QED BY <2>1, <2>2
<1>13. ASSUME NEW i \in m + 1 .. CeilDiv(L)
       PROVE  /\ blocks[i] \in Range(new) /\ blocks[i] \in Block /\ allocated.hash[blocks[i]] = NoHash
              /\ pool.ref[blocks[i]] = 0 /\ blocks[i] \notin Range(hits)
  <2>1. PICK k \in 1 .. n : i = m + k /\ blocks[i] = new[k]
    BY <1>10
  <2>2. blocks[i] \in Range(new)
    BY <1>9, <2>1 DEF Range
  <2> QED BY <1>8, <1>9, <2>2
<1>14. m \in Nat /\ \A i \in DOMAIN blocks : i \in 1 .. m \/ i \in m + 1 .. CeilDiv(L)
  <2>1. own \in Nat /\ h \in Nat /\ m = own + h /\ m <= CeilDiv(L) /\ CeilDiv(L) \in Nat
        /\ DOMAIN blocks = 1 .. CeilDiv(L)
    BY <1>2, <1>5, <1>10, <1>11
  <2> HIDE DEF blocks
  <2> QED BY <2>1
<1> HIDE DEF blocks
<1>15. ASSUME NEW i \in DOMAIN blocks, NEW j \in DOMAIN blocks, blocks[i] = blocks[j], blocks[i] \in Block
       PROVE  i = j
  <2>1. CASE i \in 1 .. m /\ j \in 1 .. m
    <3>1. CASE hits = <<>>
      <4>1. i \in DOMAIN q.blocks /\ j \in DOMAIN q.blocks /\ q.blocks[i] = q.blocks[j] /\ q.blocks[i] \in Block
        BY <1>2, <1>4, <1>10, <1>11, <1>15, <2>1, <3>1
      <4> QED BY <1>1, <4>1 DEF RowOK
    <3>2. CASE hits # <<>>
      <4>1. i \in DOMAIN hits /\ j \in DOMAIN hits /\ hits[i] = hits[j]
        BY <1>2, <1>3, <1>10, <1>11, <1>15, <2>1, <3>2
      <4> QED BY <1>1, <4>1 DEF IsInjective
    <3> QED BY <3>1, <3>2
  <2>2. CASE i \in m + 1 .. CeilDiv(L) /\ j \in m + 1 .. CeilDiv(L)
    <3>1. PICK x \in 1 .. n : i = m + x /\ blocks[i] = new[x]
      BY <1>10, <2>2
    <3>2. PICK y \in 1 .. n : j = m + y /\ blocks[j] = new[y]
      BY <1>10, <2>2
    <3>3. x = y
      BY <1>8, <1>9, <1>15, <3>1, <3>2 DEF IsInjective
    <3> QED BY <3>1, <3>2, <3>3
  <2>3. CASE i \in 1 .. m /\ j \in m + 1 .. CeilDiv(L)
    BY <1>12, <1>13, <1>15, <2>3
  <2>4. CASE j \in 1 .. m /\ i \in m + 1 .. CeilDiv(L)
    BY <1>12, <1>13, <1>15, <2>4
  <2> QED BY <1>14, <2>1, <2>2, <2>3, <2>4
\* Allocation does not raise, and the three variables that change.
<1>16. ASSUME NEW i \in toCache
       PROVE  i \in DOMAIN blocks /\ blocks[i] \in Block /\ allocated.hash[blocks[i]] = NoHash
  <2>1. i \in Int /\ i >= first + 1 /\ i <= full /\ blocks[i] # NullBlock
    OBVIOUS
  <2> HIDE DEF toCache, first
  <2>2. i \in 1 .. CeilDiv(L) /\ ~ (i <= first)
    BY <1>2, <1>5, <1>11, <2>1
  <2>3. i \in DOMAIN blocks /\ blocks[i] \in Block
    <3>1. i \in DOMAIN blocks
      BY <1>10, <2>2
    <3>2. blocks[i] \in Block \cup {NullBlock}
      BY <1>10, <3>1, ElementOfSeq, LenProperties
    <3> QED BY <2>1, <3>1, <3>2
  <2>4. CASE i \in 1 .. m
    <3>1. IF i <= first THEN pool.hash[blocks[i]] = q.hashes[i] ELSE pool.hash[blocks[i]] = NoHash
      BY <1>12, <2>3, <2>4
    <3>2. allocated.hash[blocks[i]] = pool.hash[blocks[i]]
      BY <1>12, <2>3, <2>4
    <3> QED BY <2>2, <2>3, <3>1, <3>2
  <2>5. CASE i \in m + 1 .. CeilDiv(L)
    BY <1>13, <2>3, <2>5
  <2> QED BY <1>14, <2>3, <2>4, <2>5
<1>17. /\ raised' = raised /\ todo' = Append(todo, r)
       /\ req' = [req EXCEPT ![r] = [q EXCEPT !.status = "RUNNING", !.blocks = blocks,
                                              !.computed = L, !.cached = Larger(q.cached, full)]]
       /\ pool' = [allocated EXCEPT !.hash =
                     [b \in Block |-> IF \E i \in toCache : blocks[i] = b
                                      THEN q.hashes[at(b)] ELSE allocated.hash[b]]]
       /\ content' = [b \in Block |-> IF \E i \in written : blocks[i] = b
                                      THEN Prefix(q.tokens, at(b) * BlockSize) ELSE content[b]]
  <2>1. ~ (n > Free(touched))
    BY <1>6 DEF Free
  <2>2. ~ \E i \in toCache : allocated.hash[blocks[i]] # NoHash
    BY <1>16
  <2> QED BY <2>1, <2>2 DEF Place, q, n, touched, new, allocated, L, h, full, blocks
<1>18. ASSUME NEW i \in DOMAIN blocks, blocks[i] \in Block PROVE at(blocks[i]) = i
  <2>1. at(blocks[i]) \in DOMAIN blocks /\ blocks[at(blocks[i])] = blocks[i]
    OBVIOUS
  <2> QED BY <1>15, <1>18, <2>1
<1> HIDE DEF at
<1>19. Larger(q.cached, full) = full
  BY <1>2 DEF Larger
<1>20. /\ pool' \in PoolType /\ pool'.ref = allocated.ref /\ pool'.queue = allocated.queue
       /\ \A b \in Block : pool'.hash[b] = IF \E i \in toCache : blocks[i] = b
                                           THEN q.hashes[at(b)] ELSE allocated.hash[b]
  <2> DEFINE f == [b \in Block |-> IF \E i \in toCache : blocks[i] = b
                                   THEN q.hashes[at(b)] ELSE allocated.hash[b]]
  <2>1. allocated \in PoolType
    BY <1>8 DEF PoolOK
  <2>2. \A b \in Block : f[b] \in Seq(Token)
    <3> SUFFICES ASSUME NEW b \in Block PROVE f[b] \in Seq(Token)
      OBVIOUS
    <3>1. CASE \E i \in toCache : blocks[i] = b
      <4>1. PICK i \in toCache : blocks[i] = b
        BY <3>1
      <4>2. at(b) = i
        BY <1>16, <1>18, <4>1
      <4>3. i \in DOMAIN q.hashes
        BY <1>2, <1>11
      <4>4. q.hashes[i] \in Seq(Token)
        BY <1>2, <4>3, ElementOfSeq
      <4> QED BY <3>1, <4>2, <4>4
    <3>2. CASE ~ \E i \in toCache : blocks[i] = b
      BY <2>1, <3>2 DEF PoolType
    <3> QED BY <3>1, <3>2
  <2>3. f \in [Block -> Seq(Token)]
    BY <2>2
  <2>4. pool' = [allocated EXCEPT !.hash = f]
    BY <1>17
  <2>5. \A b \in Block : f[b] = IF \E i \in toCache : blocks[i] = b
                                THEN q.hashes[at(b)] ELSE allocated.hash[b]
    OBVIOUS
  <2> HIDE DEF f
  <2> QED BY <2>1, <2>3, <2>4, <2>5 DEF PoolType
<1>21. PoolOK(pool')
  BY <1>8, <1>20 DEF PoolOK
\* The hashes and the contents of the row's blocks, and of the others.
<1>22. ASSUME NEW i \in DOMAIN blocks, blocks[i] \in Block
       PROVE  /\ pool'.hash[blocks[i]] = IF i <= full THEN q.hashes[i] ELSE NoHash
              /\ i <= m => pool.hash[blocks[i]] = NoHash \/ pool'.hash[blocks[i]] = pool.hash[blocks[i]]
  <2>1. i \in Nat /\ i >= 1 /\ blocks[i] # NullBlock
    BY <1>10, <1>22 DEF Block, NullBlock
  <2>2. i \in toCache <=> i > first /\ i <= full
    <3> HIDE DEF first
    <3> QED BY <1>2, <1>11, <2>1
  <2>3. (\E j \in toCache : blocks[j] = blocks[i]) <=> i \in toCache
    BY <1>15, <1>16, <1>22
  <2>4. at(blocks[i]) = i
    BY <1>18, <1>22
  <2>5. pool'.hash[blocks[i]] = IF i \in toCache THEN q.hashes[i] ELSE allocated.hash[blocks[i]]
    <3> HIDE DEF toCache
    <3> QED BY <1>20, <1>22, <2>3, <2>4
  <2>6. i \notin toCache /\ i <= full => i <= m
    <3> HIDE DEF toCache, first
    <3> QED BY <1>2, <1>11, <1>14, <2>1, <2>2
  <2> HIDE DEF toCache, first
  <2>7. CASE i \in 1 .. m
    <3>1. /\ allocated.hash[blocks[i]] = pool.hash[blocks[i]]
          /\ IF i <= first THEN pool.hash[blocks[i]] = q.hashes[i] ELSE pool.hash[blocks[i]] = NoHash
      BY <1>12, <1>22, <2>7
    <3>2. CASE i <= first
      <4>1. i \notin toCache /\ i <= full
        BY <1>2, <1>11, <2>1, <2>2, <3>2
      <4> QED BY <2>5, <3>1, <3>2, <4>1
    <3>3. CASE ~ (i <= first)
      <4>1. i > first
        BY <1>11, <2>1, <3>3
      <4> QED BY <2>2, <2>5, <3>1, <3>3, <4>1
    <3> QED BY <3>2, <3>3
  <2>8. CASE i \in m + 1 .. CeilDiv(L)
    <3>1. allocated.hash[blocks[i]] = NoHash
      BY <1>13, <2>8
    <3>2. i > first /\ ~ (i <= m)
      BY <1>11, <1>14, <2>8
    <3> QED BY <2>2, <2>5, <3>1, <3>2
  <2> QED BY <1>14, <1>22, <2>7, <2>8
<1>23. ASSUME NEW i \in DOMAIN blocks, blocks[i] \in Block
       PROVE  content'[blocks[i]] = IF Ends(i) > q.computed + Ends(h)
                                    THEN Prefix(q.tokens, Ends(i)) ELSE content[blocks[i]]
  <2>1. (\E j \in written : blocks[j] = blocks[i]) <=> i \in written
    BY <1>15, <1>23
  <2>2. at(blocks[i]) = i
    BY <1>18, <1>23
  <2>3. i \in written <=> Ends(i) > q.computed + Ends(h)
    <3>1. i * BlockSize = Ends(i) /\ start = q.computed + Ends(h)
      <4>1. BlockSize * Len(hits) = Len(hits) * BlockSize
        BY <1>2, Sizes DEF h
      <4> QED BY <4>1 DEF Ends, h
    <3> HIDE DEF start
    <3> QED BY <3>1
  <2> HIDE DEF written
  <2>4. content'[blocks[i]] = IF \E j \in written : blocks[j] = blocks[i]
                              THEN Prefix(q.tokens, at(blocks[i]) * BlockSize) ELSE content[blocks[i]]
    BY <1>17, <1>23
  <2> QED BY <2>1, <2>2, <2>3, <2>4 DEF Ends
<1>24. content' \in [Block -> Seq(Token)]
  <2>1. ASSUME NEW i \in DOMAIN blocks, blocks[i] \in Block PROVE content'[blocks[i]] \in Seq(Token)
    <3>1. i \in Nat /\ Ends(i) \in Nat
      BY <1>10, EndsNat
    <3>2. Prefix(q.tokens, Ends(i)) \in Seq(Token)
      BY <1>2, <3>1, PrefixProperties
    <3> QED BY <1>23, <2>1, <3>2
  <2>2. ASSUME NEW b \in Block, b \notin Range(blocks) PROVE content'[b] = content[b]
    <3>1. ~ \E i \in written : blocks[i] = b
      BY <2>2 DEF Range
    <3> HIDE DEF written
    <3> QED BY <1>17, <3>1
  <2>3. DOMAIN content' = Block /\ content' = [b \in Block |-> content'[b]]
    <3> HIDE DEF written
    <3> QED BY <1>17
  <2>4. \A b \in Block : content'[b] \in Seq(Token)
    BY <2>1, <2>2 DEF Range
  <2> QED BY <2>3, <2>4
<1>25. ASSUME NEW b \in Block, b \notin Range(blocks)
       PROVE  pool'.hash[b] = pool.hash[b] /\ content'[b] = content[b]
  <2>1. (~ \E i \in written : blocks[i] = b) /\ (~ \E i \in toCache : blocks[i] = b)
    <3>1. \A i \in toCache : i \in DOMAIN blocks
      BY <1>16
    <3> HIDE DEF toCache
    <3> QED BY <1>25, <3>1 DEF Range
  <2>2. b \notin Range(new)
    <3> SUFFICES ASSUME b \in Range(new) PROVE FALSE
      OBVIOUS
    <3>1. PICK k \in 1 .. n : new[k] = b
      BY <1>9 DEF Range
    <3>2. m + k \in DOMAIN blocks /\ blocks[m + k] = b
      BY <1>2, <1>5, <1>10, <1>14, <3>1
    <3> QED BY <1>25, <3>2 DEF Range
  <2> HIDE DEF written, toCache
  <2>3. pool'.hash[b] = allocated.hash[b]
    BY <1>20, <2>1
  <2>4. content'[b] = content[b]
    BY <1>17, <2>1
  <2> QED BY <1>7, <1>8, <2>2, <2>3, <2>4
<1>26. ASSUME NEW b \in Block
       PROVE  pool'.ref[b] = pool.ref[b] + (IF b \in Range(hits) THEN 1 ELSE 0)
                              + (IF \E i \in m + 1 .. CeilDiv(L) : blocks[i] = b THEN 1 ELSE 0)
  <2>1. b \in Range(new) <=> \E i \in m + 1 .. CeilDiv(L) : blocks[i] = b
    <3>1. ASSUME b \in Range(new) PROVE \E i \in m + 1 .. CeilDiv(L) : blocks[i] = b
      <4>1. PICK k \in 1 .. n : new[k] = b
        BY <1>9, <3>1 DEF Range
      <4> QED BY <1>10, <4>1
    <3> QED BY <1>13, <3>1
  <2>2. allocated.ref[b] = touched.ref[b] + IF b \in Range(new) THEN 1 ELSE 0
    BY <1>8
  <2>3. touched.ref[b] = pool.ref[b] + IF b \in Range(hits) THEN 1 ELSE 0
    BY <1>7
  <2>4. pool'.ref[b] = allocated.ref[b]
    BY <1>20
  <2> QED BY <1>9, <2>1, <2>2, <2>3, <2>4
<1>27. ASSUME NEW b \in Range(pool'.queue) PROVE b \in Block /\ b \notin Range(blocks)
  <2>1. b \in Block /\ pool'.ref[b] = 0
    BY <1>21, RangeOfSeq DEF PoolOK, PoolType
  <2> SUFFICES ASSUME NEW i \in DOMAIN blocks, blocks[i] = b PROVE FALSE
    BY <2>1 DEF Range
  <2>2. pool'.ref[b] = touched.ref[b] + IF b \in Range(new) THEN 1 ELSE 0
    BY <1>8, <1>20, <2>1
  <2>3. CASE i \in 1 .. m
    <3>1. touched.ref[b] > 0 /\ touched.ref[b] \in Nat
      BY <1>9, <1>12, <2>1, <2>3
    <3> QED BY <2>1, <2>2, <3>1
  <2>4. CASE i \in m + 1 .. CeilDiv(L)
    <3>1. b \in Range(new) /\ touched.ref[b] \in Nat
      BY <1>9, <1>13, <2>1, <2>4
    <3> QED BY <2>1, <2>2, <3>1
  <2> QED BY <1>14, <2>3, <2>4
<1>28. ASSUME UnhashedAhead(pool) PROVE UnhashedAhead(pool')
  <2>1. UnhashedAhead(allocated)
    BY <1>7, <1>8, <1>28
  <2>2. ASSUME NEW i \in DOMAIN allocated.queue
        PROVE  pool'.hash[allocated.queue[i]] = allocated.hash[allocated.queue[i]]
    <3>1. allocated.queue[i] \in Range(pool'.queue)
      BY <1>20 DEF Range
    <3>2. allocated.queue[i] \in Block /\ allocated.queue[i] \notin Range(blocks)
      BY <1>27, <3>1
    <3>3. ~ \E j \in toCache : blocks[j] = allocated.queue[i]
      BY <1>16, <3>2 DEF Range
    <3> HIDE DEF toCache
    <3> QED BY <1>20, <3>2, <3>3
  <2> QED BY <1>20, <2>1, <2>2 DEF UnhashedAhead
<1>29. ASSUME NEW b \in Block, NEW c \in Block, b \in Range(pool'.queue), Outlives(pool, c, b)
       PROVE  Outlives(pool', c, b) /\ ~ \E i \in m + 1 .. CeilDiv(L) : blocks[i] = c
  <2>1. b \in Range(allocated.queue) /\ b \in Range(touched.queue)
    BY <1>8, <1>20, <1>29
  <2>2. Outlives(touched, c, b)
    BY <1>7, <1>29, <2>1
  <2>3. Outlives(allocated, c, b) /\ c \notin Range(new)
    BY <1>8, <2>1, <2>2
  <2>4. Outlives(pool', c, b)
    BY <1>20, <2>3 DEF Outlives
  <2> QED BY <1>13, <2>3, <2>4
<1> DEFINE here == Placed(r, hits, blocks)
<1>30. here
  <2>1. /\ req' = [req EXCEPT ![r] = [q EXCEPT !.status = "RUNNING", !.blocks = blocks,
                                               !.computed = L, !.cached = full]]
        /\ Len(blocks) = CeilDiv(L) /\ m <= Len(blocks)
    BY <1>5, <1>10, <1>17, <1>19
  <2>2. m = Len(q.blocks) + Len(hits)
    BY DEF m, own, h
  <2> HIDE DEF first, toCache, written, start, kept
  <2> QED
    BY <1>3, <1>10, <1>13, <1>15, <1>21, <1>22, <1>23, <1>25, <1>26, <1>28, <1>29, <2>1, <2>2, SMTT(30)
    DEF Placed, q, L, full, h, own
<1> QED BY <1>10, <1>17, <1>24, <1>30

(* A row's hash is never the empty sequence that means no hash. *)
LEMMA HashesNotEmpty ==
  ASSUME NEW q \in RowType, RowOK(q), NEW i \in DOMAIN q.hashes
  PROVE  q.hashes[i] # NoHash
<1>1. i \in Nat /\ i >= 1
  BY RowBounds
<1>2. Len(q.hashes[i]) = Ends(i)
  BY DEF RowOK, Chained
<1>3. Len(NoHash) = 0
  BY EmptySeq DEF NoHash
<1> QED BY <1>1, <1>2, <1>3, EndsNat

(* Placing one request leaves every other row as sound as it was. *)
LEMMA PlacedTables ==
  ASSUME Tables, NEW r \in Req, NEW hits, HitsOf(req[r], hits), req[r].tokens # <<>>,
         NEW blocks \in Seq(Block \cup {NullBlock}), Placed(r, hits, blocks)
  PROVE  Tables'
<1> DEFINE old == req[r]
           own == Len(old.blocks)
           h == Len(hits)
           m == Len(old.blocks) + Len(hits)
           full == Len(old.tokens) \div BlockSize
           q == [old EXCEPT !.status = "RUNNING", !.blocks = blocks,
                            !.computed = Len(old.tokens), !.cached = full]
           New(b) == \E i \in m + 1 .. Len(blocks) : blocks[i] = b
<1>1. old \in RowType /\ RowOK(old) /\ RowCached(old, pool) /\ req \in [Req -> RowType]
  BY DEF Tables
<1>2. /\ old.tokens \in Seq(Token) /\ Len(old.tokens) \in Nat /\ full \in Nat
      /\ old.blocks \in Seq(Block \cup {NullBlock}) /\ own \in Nat /\ DOMAIN old.blocks = 1 .. own
      /\ old.cached \in Nat /\ old.cached <= Len(old.hashes) /\ Len(old.hashes) = full
      /\ DOMAIN old.hashes = 1 .. full /\ Ends(full) <= Len(old.tokens)
  <2>1. /\ old.tokens \in Seq(Token) /\ Len(old.tokens) \in Nat
        /\ old.blocks \in Seq(Block \cup {NullBlock}) /\ own \in Nat /\ DOMAIN old.blocks = 1 .. own
        /\ old.cached \in Nat /\ old.cached <= Len(old.hashes) /\ DOMAIN old.hashes = 1 .. Len(old.hashes)
    BY <1>1, RowBounds
  <2>2. full \in Nat /\ (full <= full <=> Ends(full) <= Len(old.tokens))
    BY <2>1, QuotientProperties
  <2>3. Len(old.hashes) = full
    BY <1>1 DEF RowOK
  <2> HIDE DEF full
  <2> QED BY <2>1, <2>2, <2>3
<1>3. /\ hits \in Seq(Block) /\ h \in Nat /\ DOMAIN hits = 1 .. h /\ h <= full
      /\ \A i \in 1 .. h : pool.hash[hits[i]] = old.hashes[i] /\ old.hashes[i] # NoHash
  <2>1. /\ hits \in Seq(Block) /\ h \in Nat /\ DOMAIN hits = 1 .. h /\ h <= Len(old.hashes)
        /\ \A i \in 1 .. h : pool.hash[hits[i]] = old.hashes[i]
    BY LenProperties DEF HitsOf
  <2> HIDE DEF h, full, old
  <2>2. \A i \in 1 .. h : i \in DOMAIN old.hashes
    BY <1>2, <2>1
  <2> QED BY <1>1, <1>2, <2>1, <2>2, HashesNotEmpty
<1>4. /\ req' = [req EXCEPT ![r] = q]
      /\ Len(blocks) = CeilDiv(Len(old.tokens)) /\ m <= Len(blocks)
      /\ \A i, j \in DOMAIN blocks : blocks[i] = blocks[j] /\ blocks[i] \in Block => i = j
      /\ \A i \in 1 .. own : blocks[i] = old.blocks[i]
      /\ hits # <<>> => old.blocks = <<>>
      /\ \A i \in 1 .. h : blocks[i] = hits[i]
      /\ \A i \in m + 1 .. Len(blocks) :
           blocks[i] \in Block /\ pool.ref[blocks[i]] = 0 /\ blocks[i] \notin Range(hits)
      /\ PoolOK(pool')
  BY DEF Placed
<1>5. \A b \in Block :
        /\ pool'.ref[b] = pool.ref[b] + (IF b \in Range(hits) THEN 1 ELSE 0) + (IF New(b) THEN 1 ELSE 0)
        /\ b \notin Range(blocks) => pool'.hash[b] = pool.hash[b]
  BY DEF Placed
<1>6. \A i \in DOMAIN blocks : blocks[i] \in Block =>
        /\ pool'.hash[blocks[i]] = IF i <= full THEN old.hashes[i] ELSE NoHash
        /\ i <= m => pool.hash[blocks[i]] = NoHash \/ pool'.hash[blocks[i]] = pool.hash[blocks[i]]
  BY DEF Placed
<1> HIDE DEF full
<1>7. /\ q \in RowType /\ q.blocks = blocks /\ q.cached = full /\ q.hashes = old.hashes
      /\ q.tokens = old.tokens /\ q.computed = Len(old.tokens) /\ q.status = "RUNNING"
  BY <1>1, <1>2 DEF RowType, Status
<1>8. RowOK(q)
  <2>1. old.tokens # <<>> /\ Chained(old.hashes) /\ Len(old.hashes) = full
        /\ Ends(full) <= Len(old.tokens) /\ Len(old.tokens) \in Nat
    BY <1>1, <1>2 DEF RowOK
  <2>2. Len(old.hashes) = Len(old.tokens) \div BlockSize
    BY <2>1 DEF full
  <2> HIDE DEF old, q
  <2>3. Len(q.blocks) = CeilDiv(q.computed) /\ Len(q.hashes) = Len(q.tokens) \div BlockSize
    BY <1>4, <1>7, <2>2
  <2>4. q.computed <= Len(q.tokens) /\ Ends(q.cached) <= q.computed
    BY <1>7, <2>1
  <2> QED BY <1>4, <1>7, <2>1, <2>3, <2>4 DEF RowOK
<1> HIDE DEF q
<1>9. /\ Len(blocks) \in Nat /\ DOMAIN blocks = 1 .. Len(blocks) /\ m \in Nat
      /\ \A i \in DOMAIN blocks : i \in 1 .. own \/ (i \in m + 1 .. Len(blocks))
                                  \/ (hits # <<>> /\ i \in 1 .. h)
      /\ (hits # <<>> => own = 0) /\ (hits = <<>> => h = 0)
  <2>1. Len(blocks) \in Nat /\ DOMAIN blocks = 1 .. Len(blocks)
    BY LenProperties
  <2>2. (hits # <<>> => own = 0) /\ (hits = <<>> => h = 0)
    BY <1>4, EmptySeq
  <2> HIDE DEF own, h
  <2>3. m = own + h
    BY DEF own, h
  <2> HIDE DEF m
  <2> QED BY <1>2, <1>3, <2>1, <2>2, <2>3
<1>10. ASSUME NEW b \in Block
       PROVE  /\ b \in Range(blocks) <=> b \in Range(old.blocks) \/ b \in Range(hits) \/ New(b)
              /\ ~ (b \in Range(old.blocks) /\ b \in Range(hits))
              /\ New(b) => pool.ref[b] = 0 /\ b \notin Range(old.blocks) /\ b \notin Range(hits)
  <2>1. b \in Range(blocks) => b \in Range(old.blocks) \/ b \in Range(hits) \/ New(b)
    <3>1. ASSUME NEW i \in DOMAIN blocks, blocks[i] = b
          PROVE  b \in Range(old.blocks) \/ b \in Range(hits) \/ New(b)
      <4>1. CASE i \in 1 .. own
        BY <1>2, <1>4, <3>1, <4>1 DEF Range
      <4>2. CASE i \in m + 1 .. Len(blocks)
        BY <3>1, <4>2
      <4>3. CASE i \in 1 .. h
        BY <1>3, <1>4, <3>1, <4>3 DEF Range
      <4> QED BY <1>9, <4>1, <4>2, <4>3
    <3> QED BY <3>1 DEF Range
  <2>2. b \in Range(old.blocks) => b \in Range(blocks)
    <3>1. \A i \in 1 .. own : i \in DOMAIN blocks
      <4>1. own <= m /\ own \in Nat /\ m \in Nat /\ m <= Len(blocks)
        BY <1>2, <1>3, <1>4
      <4> QED BY <1>9, <4>1
    <3> QED BY <1>2, <1>4, <3>1 DEF Range
  <2>3. b \in Range(hits) => b \in Range(blocks)
    <3>1. \A i \in 1 .. h : i \in DOMAIN blocks
      <4>1. h <= m /\ h \in Nat /\ m \in Nat /\ m <= Len(blocks)
        BY <1>2, <1>3, <1>4, SMTT(30)
      <4> QED BY <1>9, <4>1
    <3> QED BY <1>3, <1>4, <3>1 DEF Range
  <2>4. New(b) => b \in Range(blocks)
    <3> HIDE DEF m
    <3>1. \A i \in m + 1 .. Len(blocks) : i \in DOMAIN blocks
      BY <1>9
    <3> QED BY <3>1 DEF Range
  <2>5. ~ (b \in Range(old.blocks) /\ b \in Range(hits))
    BY <1>2, <1>3, <1>9 DEF Range
  <2>6. New(b) => pool.ref[b] = 0 /\ b \notin Range(hits)
    BY <1>4
  <2>7. b \in Range(old.blocks) => pool.ref[b] > 0
    BY HeldBlocks
  <2> HIDE DEF New, old
  <2> QED BY <2>1, <2>2, <2>3, <2>4, <2>5, <2>6, <2>7
<1>11. References'
  <2> SUFFICES ASSUME NEW b \in Block PROVE pool'.ref[b] = Cardinality(Holders(b)')
    BY DEF References
  <2>1. pool.ref[b] \in Nat
    BY HeldBlocks
  <2>2. Cardinality(Holders(b)') =
           pool.ref[b] + (IF b \in Range(blocks) THEN 1 ELSE 0)
                       - (IF b \in Range(old.blocks) THEN 1 ELSE 0)
    BY <1>4, <1>7, HoldersChange
  <2>3. pool'.ref[b] = pool.ref[b] + (IF b \in Range(hits) THEN 1 ELSE 0) + (IF New(b) THEN 1 ELSE 0)
    BY <1>5
  <2> HIDE DEF New, old
  <2> QED BY <1>10, <2>1, <2>2, <2>3
<1> HIDE DEF New
<1>12. RowCached(q, pool')
  <2> SUFFICES ASSUME NEW i \in DOMAIN blocks, blocks[i] \in Block, ~ (i <= full)
               PROVE  pool'.ref[blocks[i]] = 1
    BY <1>6, <1>7 DEF RowCached
  <2> DEFINE b == blocks[i]
  <2>1. pool'.ref[b] = pool.ref[b] + (IF b \in Range(hits) THEN 1 ELSE 0) + (IF New(b) THEN 1 ELSE 0)
    BY <1>5
  <2>2. CASE i \in 1 .. own
    <3>1. i \in DOMAIN old.blocks /\ old.blocks[i] = b /\ ~ (i <= old.cached)
      <4> HIDE DEF own, old
      <4> QED BY <1>2, <1>4, <2>2
    <3>2. pool.ref[b] = 1
      BY <1>1, <3>1 DEF RowCached
    <3>3. b \in Range(old.blocks)
      BY <3>1 DEF Range
    <3> HIDE DEF b, old
    <3>4. b \in Block
      BY DEF b
    <3> QED BY <1>10, <2>1, <3>2, <3>3, <3>4 DEF b
  <2>3. CASE i \in m + 1 .. Len(blocks)
    <3>1. New(b)
      BY <2>3 DEF New
    <3> HIDE DEF b, old
    <3>2. b \in Block
      BY DEF b
    <3> QED BY <1>10, <2>1, <3>1, <3>2 DEF b
  <2>4. CASE i \in 1 .. h
    <3> HIDE DEF h
    <3> QED BY <1>2, <1>3, <2>4
  <2> QED BY <1>9, <2>2, <2>3, <2>4
<1>13. ASSUME NEW s \in Req, s # r PROVE RowCached(req[s], pool')
  <2> SUFFICES ASSUME NEW i \in DOMAIN req[s].blocks, req[s].blocks[i] \in Block
               PROVE  IF i <= req[s].cached THEN pool'.hash[req[s].blocks[i]] = req[s].hashes[i]
                      ELSE pool'.hash[req[s].blocks[i]] = NoHash /\ pool'.ref[req[s].blocks[i]] = 1
    BY DEF RowCached
  <2> DEFINE b == req[s].blocks[i]
  <2>1. b \in Block /\ b \in Range(req[s].blocks)
    BY DEF Range
  <2>2. IF i <= req[s].cached THEN pool.hash[b] = req[s].hashes[i]
        ELSE pool.hash[b] = NoHash /\ pool.ref[b] = 1
    BY DEF Tables, RowCached
  <2>3. i <= req[s].cached => req[s].hashes[i] # NoHash
    <3>1. req[s] \in RowType /\ RowOK(req[s])
      BY DEF Tables
    <3>2. i <= req[s].cached => i \in DOMAIN req[s].hashes
      BY <3>1, RowBounds
    <3> QED BY <3>1, <3>2, HashesNotEmpty
  <2>4. b \in Range(old.blocks) => pool.ref[b] # 1
    <3> HIDE DEF b
    <3> QED BY <1>13, <2>1, HeldBlocks
  <2>5. pool.ref[b] > 0 /\ pool.ref[b] \in Nat
    <3> HIDE DEF b
    <3> QED BY <2>1, HeldBlocks
  <2> HIDE DEF b, old
  <2>6. ~ New(b)
    BY <1>10, <2>1, <2>5
  <2>7. CASE i <= req[s].cached
    <3>1. pool'.hash[b] = pool.hash[b]
      <4>1. CASE b \notin Range(blocks)
        BY <1>5, <2>1, <4>1
      <4>2. CASE b \in Range(blocks)
        <5>1. PICK j \in DOMAIN blocks : blocks[j] = b
          BY <4>2 DEF Range
        <5>2. ~ (j \in m + 1 .. Len(blocks))
          BY <2>6, <5>1 DEF New
        <5>3. j <= m
          BY <1>9, <5>2
        <5> QED BY <1>6, <2>1, <2>2, <2>3, <2>7, <5>1, <5>3
      <4> QED BY <4>1, <4>2
    <3> QED BY <2>2, <2>7, <3>1 DEF b
  <2>8. CASE ~ (i <= req[s].cached)
    <3>1. pool.hash[b] = NoHash /\ pool.ref[b] = 1
      BY <2>2, <2>8
    <3>2. b \notin Range(hits)
      BY <1>3, <3>1 DEF Range
    <3>3. b \notin Range(blocks)
      BY <1>10, <2>1, <2>4, <2>6, <3>1, <3>2
    <3>4. pool'.hash[b] = NoHash /\ pool'.ref[b] = 1
      BY <1>5, <2>1, <2>6, <3>1, <3>2, <3>3
    <3> QED BY <2>8, <3>4 DEF b
  <2> QED BY <2>7, <2>8
<1>14. \A s \in Req : req'[s] = IF s = r THEN q ELSE req[s]
  BY <1>1, <1>4
<1>15. req' \in [Req -> RowType]
  BY <1>1, <1>4, <1>7
<1>16. \A s \in Req : RowOK(req'[s]) /\ RowCached(req'[s], pool')
  BY <1>8, <1>12, <1>13, <1>14 DEF Tables
<1> QED BY <1>4, <1>11, <1>15, <1>16 DEF Tables
-----------------------------------------------------------------------------
(* The initial state. *)
LEMMA AbsentRow ==
  ASSUME NEW status \in Status
  PROVE  /\ [Absent EXCEPT !.status = status] \in RowType
         /\ Absent.blocks = <<>> /\ Absent.hashes = <<>> /\ Absent.cached = 0
         /\ Absent \in RowType
         /\ status \in {"ABSENT", "GONE"} => RowOK([Absent EXCEPT !.status = status])
<1> DEFINE q == [Absent EXCEPT !.status = status]
<1>1. /\ q.tokens = <<>> /\ q.computed = 0 /\ q.cached = 0 /\ q.hashes = <<>> /\ q.blocks = <<>>
      /\ q.status = status
  BY DEF Absent
<1>2. <<>> \in Seq(Token) /\ <<>> \in Seq(Seq(Token)) /\ <<>> \in Seq(Block \cup {NullBlock})
      /\ Len(<<>>) = 0 /\ DOMAIN <<>> = {}
  BY EmptySeq
<1>3. q \in RowType /\ Absent \in RowType
  BY <1>2 DEF Absent, RowType, Status
<1>4. 0 \div BlockSize = 0 /\ CeilDiv(0) = 0 /\ Ends(0) = 0
  <2>1. 0 \div BlockSize \in Nat /\ (1 <= 0 \div BlockSize <=> Ends(1) <= 0) /\ CeilDiv(0) = 0
    BY QuotientProperties
  <2>2. Ends(1) = BlockSize /\ Ends(0) = 0
    BY EndsProperties
  <2> QED BY <2>1, <2>2, Sizes
<1>5. status = "ABSENT" => q = Absent
  BY DEF Absent
<1>6. status \in {"ABSENT", "GONE"} => RowOK(q)
  BY <1>1, <1>2, <1>4, <1>5 DEF RowOK, Chained
<1> QED BY <1>3, <1>6 DEF Absent

(* The pool at the start and after a reset. *)
LEMMA NewPoolOK == PoolOK(NewPool) /\ NewPool.queue = [i \in 1 .. NumBlocks |-> i]
<1>1. NumBlocks \in Nat
  BY Sizes
<1>2. NoHash \in Seq(Token)
  BY EmptySeq DEF NoHash
<1>3. NewPool.queue \in Seq(Block) /\ \A b \in Block : NewPool.queue[b] = b /\ DOMAIN NewPool.queue = Block
  BY <1>1 DEF NewPool, Block
<1>4. NewPool \in PoolType
  BY <1>2, <1>3 DEF NewPool, PoolType
<1>5. IsInjective(NewPool.queue)
  BY <1>3 DEF IsInjective, NewPool, Block
<1>6. \A b \in Block : NewPool.ref[b] = 0 /\ b \in Range(NewPool.queue)
  BY <1>3 DEF NewPool, Range
<1> QED BY <1>4, <1>5, <1>6 DEF PoolOK, NewPool

(* The initial states satisfy the invariant. *)
LEMMA CacheInitOK == CacheInit => CacheInv
<1> SUFFICES ASSUME CacheInit PROVE CacheInv
  OBVIOUS
<1>1. /\ req = [r \in Req |-> Absent] /\ pool = NewPool /\ content = [b \in Block |-> <<>>]
      /\ running = <<>> /\ todo = <<>> /\ plans = [r \in Req |-> NoPlan]
      /\ phase = "between" /\ demotions = 0 /\ raised = NoError
  BY DEF CacheInit
<1>2. Absent \in RowType /\ RowOK(Absent) /\ Absent.blocks = <<>>
  <2>1. [Absent EXCEPT !.status = "ABSENT"] = Absent
    BY DEF Absent
  <2> QED BY <2>1, AbsentRow DEF Status
<1>3. /\ <<>> \in Seq(Req) /\ <<>> \in Seq(Token) /\ DOMAIN <<>> = {} /\ Range(<<>>) = {}
      /\ Len(<<>>) = 0 /\ IsInjective(<<>>)
  BY EmptySeq DEF Range, IsInjective
<1>4. Tables
  <2>1. References
    <3> SUFFICES ASSUME NEW b \in Block PROVE pool.ref[b] = Cardinality(Holders(b))
      BY DEF References
    <3>1. Holders(b) = {}
      BY <1>1, <1>2, <1>3 DEF Holders
    <3>2. Cardinality({}) = 0
      BY FS_EmptySet
    <3> QED BY <1>1, <3>1, <3>2 DEF NewPool
  <2>2. \A r \in Req : RowOK(req[r]) /\ RowCached(req[r], pool)
    BY <1>1, <1>2, <1>3 DEF RowCached
  <2> QED BY <1>1, <1>2, <2>1, <2>2, NewPoolOK DEF Tables
<1>5. Queues
  BY <1>1, <1>3 DEF Queues
<1>6. Others
  BY <1>1, <1>3 DEF Others, NoPlan, NoError
<1> QED BY <1>4, <1>5, <1>6 DEF CacheInv
-----------------------------------------------------------------------------
(* The planning of a step changes no row and no block, and plans real      *)
(* blocks only.                                                            *)
LEMMA PlanOK == CacheInv /\ Plan => CacheInv'
<1> SUFFICES ASSUME CacheInv, Plan PROVE CacheInv'
  OBVIOUS
<1>1. PICK chosen \in SUBSET {r \in Req : Demotable(r)} :
        /\ plans' = [r \in Req |-> IF r \in chosen THEN DemotionPlan(req[r]) ELSE NoPlan]
        /\ demotions' = demotions + Cardinality(chosen)
  BY DEF Plan
<1>2. /\ phase = "between" /\ phase' = "running" /\ raised' = raised
      /\ UNCHANGED <<req, pool, content, running, todo>>
  BY DEF Plan
<1>3. Tables'
  BY <1>2 DEF CacheInv, Tables, References, Holders
<1>4. Queues'
  <2>1. todo = <<>> /\ Len(<<>>) = 0 /\ Len(running) \in Nat
    BY <1>2, EmptySeq, LenProperties DEF CacheInv, Queues
  <2> QED BY <1>2, <2>1 DEF CacheInv, Queues
<1>5. \A r \in Req : \A i \in DOMAIN plans'[r] : plans'[r][i] \in Block
  <2> SUFFICES ASSUME NEW r \in Req, NEW i \in DOMAIN plans'[r] PROVE plans'[r][i] \in Block
    OBVIOUS
  <2>1. CASE r \in chosen
    <3>1. plans'[r] = DemotionPlan(req[r])
      BY <1>1, <2>1
    <3>2. i \in DOMAIN req[r].blocks /\ req[r].blocks[i] # NullBlock /\ plans'[r][i] = req[r].blocks[i]
      BY <3>1 DEF DemotionPlan
    <3>3. req[r].blocks \in Seq(Block \cup {NullBlock})
      BY DEF CacheInv, Tables, RowType
    <3>4. req[r].blocks[i] \in Block \cup {NullBlock}
      BY <3>2, <3>3, ElementOfSeq, LenProperties
    <3> QED BY <3>2, <3>4
  <2>2. CASE r \notin chosen
    <3>1. plans'[r] = <<>>
      BY <1>1, <2>2 DEF NoPlan
    <3> QED BY <3>1, EmptySeq
  <2> QED BY <2>1, <2>2
<1>6. demotions' \in Nat
  <2>1. chosen \in SUBSET Req /\ IsFiniteSet(Req)
    BY PrefixAssumption
  <2>2. Cardinality(chosen) \in Nat
    BY <2>1, FS_Subset, FS_CardinalityType
  <2> QED BY <1>1, <2>2 DEF CacheInv, Others
<1>7. DOMAIN plans' = Req
  BY <1>1
<1>8. Others'
  BY <1>2, <1>5, <1>6, <1>7 DEF CacheInv, Others
<1> QED BY <1>3, <1>4, <1>8 DEF CacheInv

(* What both loops of a step do with a request they place. *)
LEMMA PlaceOK ==
  ASSUME CacheInv, NEW r \in Req, NEW hits, HitsOf(req[r], hits), req[r].tokens # <<>>,
         Fits(req[r], hits), Place(r, hits)
  PROVE  /\ Tables' /\ raised' = raised /\ todo' = Append(todo, r)
         /\ content' \in [Block -> Seq(Token)]
         /\ \A s \in Req \ {r} : req'[s] = req[s]
         /\ req'[r].status = "RUNNING" /\ req'[r].computed = Len(req'[r].tokens)
         /\ \E blocks \in Seq(Block \cup {NullBlock}) : Placed(r, hits, blocks)
<1>1. Tables /\ content \in [Block -> Seq(Token)] /\ req \in [Req -> RowType]
  BY DEF CacheInv, Others, Tables
<1>2. /\ raised' = raised /\ todo' = Append(todo, r) /\ content' \in [Block -> Seq(Token)]
      /\ \E blocks \in Seq(Block \cup {NullBlock}) : Placed(r, hits, blocks)
  BY <1>1, PlacedRow
<1>3. PICK blocks \in Seq(Block \cup {NullBlock}) : Placed(r, hits, blocks)
  BY <1>2
<1>4. Tables'
  BY <1>1, <1>3, PlacedTables
<1>5. req' = [req EXCEPT ![r] = [req[r] EXCEPT !.status = "RUNNING", !.blocks = blocks,
                                 !.computed = Len(req[r].tokens), !.cached = Len(req[r].tokens) \div BlockSize]]
  BY <1>3 DEF Placed
<1>6. \A s \in Req \ {r} : req'[s] = req[s]
  BY <1>1, <1>5
<1>7. req'[r].status = "RUNNING" /\ req'[r].computed = Len(req'[r].tokens)
  BY <1>1, <1>5 DEF RowType
<1> QED BY <1>2, <1>3, <1>4, <1>6, <1>7

(* A running request of the step is placed. *)
LEMMA RunNextOK == CacheInv /\ RunNext => CacheInv'
<1> SUFFICES ASSUME CacheInv, RunNext PROVE CacheInv'
  OBVIOUS
<1> DEFINE r == running[Len(todo) + 1]
<1>1. /\ phase \in {"running", "preempting"} /\ raised = NoError /\ Len(todo) < Len(running)
      /\ Fits(req[r], <<>>) /\ Place(r, <<>>) /\ UNCHANGED <<running, plans, phase, demotions>>
  BY DEF RunNext
<1>2. /\ Len(todo) \in Nat /\ Len(running) \in Nat /\ DOMAIN todo = 1 .. Len(todo)
      /\ DOMAIN running = 1 .. Len(running) /\ todo \in Seq(Req) /\ running \in Seq(Req)
      /\ IsInjective(running) /\ IsInjective(todo)
      /\ \A i \in 1 .. Len(todo) : todo[i] = running[i]
      /\ \A i \in DOMAIN running : running[i] \in Req
  BY <1>1, LenProperties, ElementOfSeq DEF CacheInv, Queues
<1>3. Len(todo) + 1 \in DOMAIN running /\ r \in Req /\ r \in Range(running)
  BY <1>1, <1>2 DEF Range
<1>4. req[r].tokens # <<>> /\ HitsOf(req[r], <<>>)
  <2>1. req[r] \in RowType /\ RowOK(req[r]) /\ req[r].status = "RUNNING"
    BY <1>3 DEF CacheInv, Tables, Queues
  <2> QED BY <2>1, NoHits DEF RowOK
<1> HIDE DEF r
<1>5. /\ Tables' /\ raised' = raised /\ todo' = Append(todo, r)
      /\ content' \in [Block -> Seq(Token)]
      /\ \A s \in Req \ {r} : req'[s] = req[s]
      /\ req'[r].status = "RUNNING" /\ req'[r].computed = Len(req'[r].tokens)
  BY <1>1, <1>3, <1>4, PlaceOK
<1>6. /\ todo' \in Seq(Req) /\ Len(todo') = Len(todo) + 1
      /\ \A i \in 1 .. Len(todo) : todo'[i] = todo[i]
      /\ todo'[Len(todo) + 1] = r
      /\ Range(todo') = Range(todo) \cup {r}
  BY <1>2, <1>3, <1>5, AppendProperties, AppendRange
<1>7. \A i \in 1 .. Len(todo') : todo'[i] = running[i]
  BY <1>2, <1>6 DEF r
<1>8. IsInjective(todo')
  <2>1. DOMAIN todo' = 1 .. Len(todo')
    BY <1>6, LenProperties
  <2>2. \A i \in DOMAIN todo' : i \in DOMAIN running
    BY <1>1, <1>2, <1>6, <2>1
  <2> QED BY <1>2, <1>7, <2>1, <2>2 DEF IsInjective
<1>9. Queues'
  <2>1. \A x \in Range(running) : x \in Req /\ req'[x].status = "RUNNING"
    <3>1. \A x \in Range(running) : x \in Req /\ req[x].status = "RUNNING"
      BY <1>2, RangeOfSeq DEF CacheInv, Queues
    <3> QED BY <1>5, <3>1
  <2>2. \A x \in Range(todo') : req'[x].status = "RUNNING" /\ req'[x].computed = Len(req'[x].tokens)
    <3>1. \A x \in Range(todo) : x \in Req /\ req[x].status = "RUNNING" /\ req[x].computed = Len(req[x].tokens)
      BY <1>2, RangeOfSeq DEF CacheInv, Queues
    <3> QED BY <1>5, <1>6, <3>1
  <2> QED BY <1>1, <1>2, <1>6, <1>7, <1>8, <2>1, <2>2 DEF Queues
<1>10. Others'
  BY <1>1, <1>5 DEF CacheInv, Others
<1> QED BY <1>5, <1>9, <1>10 DEF CacheInv

(* A waiting or preempted request is looked up and placed. *)
LEMMA AdmitOK == ASSUME NEW r \in Req, CacheInv, Admit(r) PROVE CacheInv'
<1>1. PICK hits \in Hits(req[r]) : Fits(req[r], hits) /\ Place(r, hits)
  BY DEF Admit
<1>2. /\ phase = "running" /\ phase' = phase /\ raised = NoError /\ Len(todo) = Len(running)
      /\ req[r].status \in {"WAITING", "PREEMPTED"}
      /\ running' = Append(running, r) /\ UNCHANGED <<plans, demotions>>
  BY DEF Admit, Waiting
<1>3. req[r] \in RowType /\ RowOK(req[r]) /\ req[r].tokens # <<>> /\ Tables
  BY <1>2 DEF CacheInv, Tables, RowOK
<1>4. HitsOf(req[r], hits)
  BY <1>3, HitsProperties
<1>5. /\ Tables' /\ raised' = raised /\ todo' = Append(todo, r)
      /\ content' \in [Block -> Seq(Token)]
      /\ \A s \in Req \ {r} : req'[s] = req[s]
      /\ req'[r].status = "RUNNING" /\ req'[r].computed = Len(req'[r].tokens)
  BY <1>1, <1>3, <1>4, PlaceOK
<1>6. /\ Len(todo) \in Nat /\ Len(running) \in Nat
      /\ todo \in Seq(Req) /\ running \in Seq(Req) /\ IsInjective(running) /\ IsInjective(todo)
      /\ \A i \in 1 .. Len(todo) : todo[i] = running[i]
      /\ \A x \in Range(running) : x \in Req /\ req[x].status = "RUNNING"
      /\ \A x \in Range(todo) : x \in Req /\ req[x].status = "RUNNING" /\ req[x].computed = Len(req[x].tokens)
  BY <1>2, LenProperties, RangeOfSeq DEF CacheInv, Queues
<1>7. r \notin Range(running) /\ r \notin Range(todo)
  BY <1>2, <1>6
<1>8. /\ todo' \in Seq(Req) /\ Len(todo') = Len(todo) + 1 /\ IsInjective(todo')
      /\ \A i \in 1 .. Len(todo) : todo'[i] = todo[i]
      /\ todo'[Len(todo) + 1] = r /\ Range(todo') = Range(todo) \cup {r}
  BY <1>5, <1>6, <1>7, AppendProperties, AppendRange
<1>9. /\ running' \in Seq(Req) /\ Len(running') = Len(running) + 1 /\ IsInjective(running')
      /\ \A i \in 1 .. Len(running) : running'[i] = running[i]
      /\ running'[Len(running) + 1] = r /\ Range(running') = Range(running) \cup {r}
  BY <1>2, <1>6, <1>7, AppendProperties, AppendRange
<1>10. \A i \in 1 .. Len(todo') : todo'[i] = running'[i]
  BY <1>2, <1>6, <1>8, <1>9
<1>11. Queues'
  <2>1. \A x \in Range(running') : req'[x].status = "RUNNING"
    BY <1>5, <1>6, <1>9
  <2>2. \A x \in Range(todo') : req'[x].status = "RUNNING" /\ req'[x].computed = Len(req'[x].tokens)
    BY <1>5, <1>6, <1>8
  <2>3. Len(todo') <= Len(running') /\ phase' = "running"
    BY <1>2, <1>6, <1>8, <1>9
  <2> QED BY <1>8, <1>9, <1>10, <2>1, <2>2, <2>3 DEF Queues
<1>12. Others'
  BY <1>2, <1>5 DEF CacheInv, Others
<1> QED BY <1>5, <1>11, <1>12 DEF CacheInv
-----------------------------------------------------------------------------
(* The order of a row's blocks, reversed. *)
LEMMA ReverseProperties ==
  ASSUME NEW T, NEW s \in Seq(T)
  PROVE  /\ Reverse(s) \in Seq(T) /\ Range(Reverse(s)) = Range(s) /\ Len(Reverse(s)) = Len(s)
         /\ \A i \in DOMAIN s : /\ Len(s) - i + 1 \in DOMAIN Reverse(s)
                                /\ Reverse(s)[Len(s) - i + 1] = s[i]
         /\ \A i \in DOMAIN Reverse(s) : /\ Len(s) - i + 1 \in DOMAIN s
                                         /\ Reverse(s)[i] = s[Len(s) - i + 1]
         /\ \A U : (\A i, j \in DOMAIN s : s[i] = s[j] /\ s[i] \in U => i = j)
              => \A i, j \in DOMAIN Reverse(s) :
                   Reverse(s)[i] = Reverse(s)[j] /\ Reverse(s)[i] \in U => i = j
<1>1. Len(s) \in Nat /\ DOMAIN s = 1 .. Len(s) /\ \A i \in 1 .. Len(s) : s[i] \in T
  BY LenProperties, ElementOfSeq
<1> DEFINE n == Len(s)
           t == [i \in 1 .. n |-> s[n - i + 1]]
<1>2. Reverse(s) = t
  BY DEF Reverse
<1> HIDE DEF n
<1>3. n \in Nat /\ DOMAIN s = 1 .. n /\ \A i \in 1 .. n : s[i] \in T
  BY <1>1 DEF n
<1>4. \A i \in 1 .. n : n - i + 1 \in 1 .. n /\ n - (n - i + 1) + 1 = i
  BY <1>3
<1>5. DOMAIN t = 1 .. n /\ (\A i \in 1 .. n : t[i] = s[n - i + 1] /\ t[i] \in T)
  BY <1>3, <1>4
<1>6. t \in Seq(T) /\ Len(t) = n
  BY <1>3, <1>5
<1> HIDE DEF t
<1>7. \A i \in 1 .. n : t[n - i + 1] = s[i]
  BY <1>4, <1>5
<1>8. Range(t) = Range(s)
  BY <1>3, <1>4, <1>5, <1>7 DEF Range
<1>9. ASSUME NEW U, \A i, j \in DOMAIN s : s[i] = s[j] /\ s[i] \in U => i = j,
             NEW i \in 1 .. n, NEW j \in 1 .. n, t[i] = t[j], t[i] \in U
      PROVE  i = j
  <2>1. n - i + 1 = n - j + 1
    BY <1>3, <1>4, <1>5, <1>9
  <2> QED BY <1>3, <2>1
<1> QED BY <1>2, <1>3, <1>4, <1>5, <1>6, <1>7, <1>8, <1>9 DEF n

(* A request gives all its blocks back. *)
LEMMA ReleasedRow ==
  ASSUME Tables, NEW r \in Req, NEW q \in RowType, RowOK(q), q.blocks = <<>>,
         req' = [req EXCEPT ![r] = q], pool' = Release(pool, req[r])
  PROVE  Tables'
<1> DEFINE ids == Reverse(req[r].blocks)
<1>1. req[r] \in RowType /\ RowOK(req[r]) /\ req[r].blocks \in Seq(Block \cup {NullBlock}) /\ PoolOK(pool)
  BY DEF Tables, RowType
<1>2. \A i, j \in DOMAIN req[r].blocks :
        req[r].blocks[i] = req[r].blocks[j] /\ req[r].blocks[i] \in Block => i = j
  BY <1>1 DEF RowOK
<1>3. /\ ids \in Seq(Block \cup {NullBlock}) /\ Range(ids) = Range(req[r].blocks)
      /\ \A i, j \in DOMAIN ids : ids[i] = ids[j] /\ ids[i] \in Block => i = j
  BY <1>1, <1>2, ReverseProperties
<1>4. Range(q.blocks) = {} /\ DOMAIN q.blocks = {}
  BY EmptySeq DEF Range
<1>5. pool' = Freed(pool, ids)
  BY DEF Release
<1> HIDE DEF ids
<1> QED BY <1>1, <1>3, <1>4, <1>5, FreedRow

(* The last running request gives its blocks back. *)
LEMMA PreemptLastOK == CacheInv /\ PreemptLast => CacheInv'
<1> SUFFICES ASSUME CacheInv, PreemptLast PROVE CacheInv'
  OBVIOUS
<1> DEFINE r == Last(running)
           q == Preempted(req[r])
<1>1. /\ phase \in {"running", "preempting"} /\ raised = NoError /\ Len(todo) < Len(running)
      /\ pool' = Release(pool, req[r]) /\ req' = [req EXCEPT ![r] = q]
      /\ running' = Front(running) /\ phase' = "preempting"
      /\ UNCHANGED <<content, todo, plans, demotions, raised>>
  BY DEF PreemptLast
<1>2. /\ Len(todo) \in Nat /\ Len(running) \in Nat /\ DOMAIN todo = 1 .. Len(todo)
      /\ DOMAIN running = 1 .. Len(running) /\ todo \in Seq(Req) /\ running \in Seq(Req)
      /\ IsInjective(running) /\ IsInjective(todo)
      /\ \A i \in 1 .. Len(todo) : todo[i] = running[i]
      /\ \A i \in DOMAIN running : running[i] \in Req
  BY <1>1, LenProperties, ElementOfSeq DEF CacheInv, Queues
<1>3. Len(running) \in DOMAIN running /\ r = running[Len(running)] /\ r \in Req /\ r \in Range(running)
  BY <1>1, <1>2 DEF Range, Last
<1>4. req \in [Req -> RowType] /\ req[r] \in RowType /\ RowOK(req[r]) /\ req[r].status = "RUNNING"
  BY <1>3 DEF CacheInv, Tables, Queues
<1>5. /\ q.status = "PREEMPTED" /\ q.computed = 0 /\ q.blocks = <<>> /\ q.cached = 0
      /\ q.tokens = req[r].tokens /\ q.hashes = req[r].hashes
  BY <1>4 DEF Preempted, RowType
<1>6. q \in RowType
  BY <1>4, EmptySeq DEF Preempted, RowType, Status
<1> HIDE DEF q, r
<1>7. RowOK(q)
  <2>1. CeilDiv(0) = 0 /\ Ends(0) = 0 /\ Len(<<>>) = 0 /\ DOMAIN <<>> = {}
    BY QuotientProperties, EndsNat, EmptySeq
  <2>2. Len(q.tokens) \in Nat
    BY <1>6, LenProperties DEF RowType
  <2>3. req[r].tokens # <<>> /\ Chained(q.hashes) /\ Len(q.hashes) = Len(q.tokens) \div BlockSize
    BY <1>4, <1>5 DEF RowOK
  <2> QED BY <1>5, <2>1, <2>2, <2>3 DEF RowOK
<1>8. Tables'
  BY <1>1, <1>3, <1>5, <1>6, <1>7, ReleasedRow DEF CacheInv
<1>9. /\ running' \in Seq(Req) /\ Len(running') = Len(running) - 1
      /\ \A i \in 1 .. Len(running) - 1 : running'[i] = running[i]
      /\ DOMAIN running' = 1 .. Len(running) - 1
  <2>1. /\ SubSeq(running, 1, Len(running) - 1) \in Seq(Req)
        /\ Len(SubSeq(running, 1, Len(running) - 1)) =
             IF 1 <= Len(running) - 1 THEN (Len(running) - 1) - 1 + 1 ELSE 0
        /\ \A i \in 1 .. (Len(running) - 1) - 1 + 1 :
             SubSeq(running, 1, Len(running) - 1)[i] = running[1 + i - 1]
    <3>1. \A i \in 1 .. Len(running) - 1 : running[i] \in Req
      BY <1>2
    <3>2. Len(running) - 1 \in Int
      BY <1>2
    <3> QED BY <1>2, <3>1, <3>2, SubSeqProperties
  <2>2. running' = SubSeq(running, 1, Len(running) - 1)
    BY <1>1 DEF Front
  <2>3. Len(running') = Len(running) - 1
    BY <1>1, <1>2, <2>1, <2>2
  <2>4. DOMAIN running' = 1 .. Len(running) - 1
    BY <2>1, <2>2, <2>3, LenProperties
  <2> QED BY <1>2, <2>1, <2>2, <2>3, <2>4
<1>10. \A s \in Req : req'[s] = IF s = r THEN q ELSE req[s]
  BY <1>1, <1>4
<1>11. /\ \A i \in DOMAIN running' : i \in DOMAIN running /\ running'[i] = running[i] /\ running[i] # r
       /\ \A i \in DOMAIN todo : running[i] # r
  <2>1. \A i \in DOMAIN running : i # Len(running) => running[i] # r
    BY <1>2, <1>3 DEF IsInjective
  <2>2. \A i \in DOMAIN running' : i \in DOMAIN running /\ i # Len(running)
    BY <1>2, <1>9
  <2>3. \A i \in DOMAIN todo : i \in DOMAIN running /\ i # Len(running)
    BY <1>1, <1>2
  <2> QED BY <1>9, <2>1, <2>2, <2>3
<1>12. Queues'
  <2>1. IsInjective(running')
    BY <1>2, <1>11 DEF IsInjective
  <2>2. \A x \in Range(running') : req'[x].status = "RUNNING"
    <3> SUFFICES ASSUME NEW i \in DOMAIN running' PROVE req'[running'[i]].status = "RUNNING"
      BY DEF Range
    <3>1. running'[i] \in Range(running) /\ running'[i] \in Req /\ running'[i] # r
      BY <1>2, <1>11 DEF Range
    <3> QED BY <1>10, <3>1 DEF CacheInv, Queues
  <2>3. \A x \in Range(todo) : req'[x].status = "RUNNING" /\ req'[x].computed = Len(req'[x].tokens)
    <3> SUFFICES ASSUME NEW i \in DOMAIN todo
                 PROVE  req'[todo[i]].status = "RUNNING" /\ req'[todo[i]].computed = Len(req'[todo[i]].tokens)
      BY DEF Range
    <3>1. todo[i] \in Range(todo) /\ todo[i] \in Req /\ todo[i] # r
      BY <1>2, <1>11, ElementOfSeq DEF Range
    <3> QED BY <1>10, <3>1 DEF CacheInv, Queues
  <2>4. Len(todo) <= Len(running') /\ \A i \in 1 .. Len(todo) : todo[i] = running'[i]
    BY <1>1, <1>2, <1>9
  <2> QED BY <1>1, <1>2, <1>9, <2>1, <2>2, <2>3, <2>4 DEF Queues
<1>13. Others'
  BY <1>1 DEF CacheInv, Others
<1> QED BY <1>8, <1>12, <1>13 DEF CacheInv

(* The worker runs the step. *)
LEMMA ExecuteOK == CacheInv /\ Execute => CacheInv'
<1> SUFFICES ASSUME CacheInv, Execute PROVE CacheInv'
  OBVIOUS
<1>1. /\ UNCHANGED <<req, pool, content, running, todo, plans, demotions, raised>>
      /\ phase' = IF todo = <<>> /\ \A r \in Req : ~ Pending(r) THEN "between" ELSE "executed"
  BY DEF Execute
<1>2. Tables' /\ Others'
  BY <1>1 DEF CacheInv, Tables, References, Holders, Others
<1>3. Queues'
  BY <1>1 DEF CacheInv, Queues
<1> QED BY <1>2, <1>3 DEF CacheInv
-----------------------------------------------------------------------------
(* The worker's answer to a demotion. *)
LEMMA MoveDoneOK == ASSUME NEW r \in Req, CacheInv, MoveDone(r) PROVE CacheInv'
<1> DEFINE q == req[r]
           plan == plans[r]
           moved == [i \in DOMAIN q.blocks |-> IF i \in DOMAIN plan THEN plan[i] ELSE NullBlock]
           left == [i \in DOMAIN q.blocks |-> IF i \in DOMAIN plan THEN NullBlock ELSE q.blocks[i]]
           away == {plan[i] : i \in DOMAIN plan}
           ids == Reverse(moved)
           p == Evicted(pool, away)
           new == [q EXCEPT !.kv = "WARM", !.blocks = left]
<1>1. /\ phase = "executed" /\ raised = NoError
      /\ phase' = IF todo = <<>> /\ \A s \in Req \ {r} : ~ Pending(s) THEN "between" ELSE phase
      /\ UNCHANGED <<content, running, todo, demotions>>
  BY DEF MoveDone
<1>2. Tables /\ Queues /\ Others
  BY DEF CacheInv
<1>3. /\ req \in [Req -> RowType] /\ q \in RowType /\ RowOK(q) /\ RowCached(q, pool) /\ PoolOK(pool)
      /\ q.blocks \in Seq(Block \cup {NullBlock}) /\ Len(q.blocks) \in Nat /\ DOMAIN q.blocks = 1 .. Len(q.blocks)
      /\ \A i \in DOMAIN q.blocks : q.blocks[i] \in Block \cup {NullBlock}
      /\ \A i, j \in DOMAIN q.blocks : q.blocks[i] = q.blocks[j] /\ q.blocks[i] \in Block => i = j
      /\ \A i \in DOMAIN plan : plan[i] \in Block
  <2>1. req \in [Req -> RowType] /\ q \in RowType /\ RowOK(q) /\ RowCached(q, pool) /\ PoolOK(pool)
    BY <1>2 DEF Tables
  <2>2. /\ q.blocks \in Seq(Block \cup {NullBlock}) /\ Len(q.blocks) \in Nat
        /\ DOMAIN q.blocks = 1 .. Len(q.blocks)
    BY <2>1, RowBounds
  <2> QED BY <1>2, <2>1, <2>2, ElementOfSeq DEF Others, RowOK
<1>4. CASE CommitOK(q, plan)
  <2>1. /\ pool' = Freed(p, ids) /\ plans' = [plans EXCEPT ![r] = NoPlan] /\ raised' = raised
        /\ req' = [req EXCEPT ![r].kv = "WARM", ![r].blocks =
                     [i \in DOMAIN @ |-> IF i \in DOMAIN plan THEN NullBlock ELSE @[i]]]
    BY <1>4 DEF MoveDone
  <2>2. req' = [req EXCEPT ![r] = new]
    BY <1>3, <2>1 DEF RowType
  <2>3. \A i \in DOMAIN plan : i \in DOMAIN q.blocks /\ q.blocks[i] = plan[i] /\ pool.ref[plan[i]] = 1
    BY <1>4 DEF CommitOK
  <2> HIDE DEF q, plan
  <2>4. NullBlock \notin Block
    BY DEF NullBlock, Block
  <2>5. /\ moved \in Seq(Block \cup {NullBlock}) /\ DOMAIN moved = DOMAIN q.blocks
        /\ \A i \in DOMAIN moved : moved[i] = IF i \in DOMAIN plan THEN plan[i] ELSE NullBlock
    <3>1. moved \in [1 .. Len(q.blocks) -> Block \cup {NullBlock}]
      BY <1>3
    <3> QED BY <1>3, <3>1
  <2>6. /\ left \in Seq(Block \cup {NullBlock}) /\ DOMAIN left = DOMAIN q.blocks /\ Len(left) = Len(q.blocks)
        /\ \A i \in DOMAIN left : left[i] = IF i \in DOMAIN plan THEN NullBlock ELSE q.blocks[i]
    <3>1. left \in [1 .. Len(q.blocks) -> Block \cup {NullBlock}]
      BY <1>3
    <3> QED BY <1>3, <3>1
  <2> HIDE DEF moved, left
  <2>7. /\ ids \in Seq(Block \cup {NullBlock}) /\ Range(ids) = Range(moved)
        /\ \A i, j \in DOMAIN ids : ids[i] = ids[j] /\ ids[i] \in Block => i = j
    <3>1. \A i, j \in DOMAIN moved : moved[i] = moved[j] /\ moved[i] \in Block => i = j
      <4> SUFFICES ASSUME NEW i \in DOMAIN moved, NEW j \in DOMAIN moved,
                          moved[i] = moved[j], moved[i] \in Block
                   PROVE  i = j
        OBVIOUS
      <4>1. i \in DOMAIN plan /\ j \in DOMAIN plan /\ plan[i] = plan[j] /\ plan[i] \in Block
        BY <2>4, <2>5
      <4> QED BY <1>3, <2>3, <4>1
    <3> QED BY <2>5, <3>1, ReverseProperties
  <2>8. \A b \in Block : b \in Range(ids) <=> b \in away
    <3> SUFFICES ASSUME NEW b \in Block PROVE b \in Range(moved) <=> b \in away
      BY <2>7
    <3>1. ASSUME NEW i \in DOMAIN moved, moved[i] = b PROVE b \in away
      BY <2>4, <2>5, <3>1
    <3>2. ASSUME NEW i \in DOMAIN plan, plan[i] = b PROVE i \in DOMAIN moved /\ moved[i] = b
      BY <2>3, <2>5, <3>2
    <3> QED BY <3>1, <3>2 DEF Range
  <2>9. away \in SUBSET Block /\ \A b \in away : pool.ref[b] = 1 /\ b \in Range(q.blocks)
    BY <1>3, <2>3 DEF Range
  <2> HIDE DEF away, ids
  <2>10. /\ PoolOK(p) /\ p.ref = pool.ref
         /\ \A b \in Block : p.hash[b] # pool.hash[b] => b \in Range(ids) /\ pool.ref[b] = 1
    <3>1. /\ PoolOK(p) /\ p.ref = pool.ref
          /\ \A b \in Block : p.hash[b] = IF b \in away THEN NoHash ELSE pool.hash[b]
      BY <1>3, <2>9, EvictedProperties
    <3> QED BY <2>8, <2>9, <3>1
  <2>11. \A b \in Block : b \in Range(left) <=> b \in Range(q.blocks) /\ b \notin Range(ids)
    <3> SUFFICES ASSUME NEW b \in Block
                 PROVE  b \in Range(left) <=> b \in Range(q.blocks) /\ b \notin away
      BY <2>8
    <3>1. ASSUME NEW i \in DOMAIN left, left[i] = b PROVE b \in Range(q.blocks) /\ b \notin away
      <4>1. i \notin DOMAIN plan /\ q.blocks[i] = b /\ i \in DOMAIN q.blocks
        BY <2>4, <2>6, <3>1
      <4>2. b \notin away
        BY <1>3, <2>3, <4>1 DEF away
      <4> QED BY <4>1, <4>2 DEF Range
    <3>2. ASSUME NEW i \in DOMAIN q.blocks, q.blocks[i] = b, b \notin away PROVE b \in Range(left)
      <4>1. i \notin DOMAIN plan
        BY <2>3, <3>2 DEF away
      <4> QED BY <2>6, <3>2, <4>1 DEF Range
    <3> QED BY <3>1, <3>2 DEF Range
  <2>12. /\ new \in RowType /\ new.blocks = left /\ new.cached = q.cached /\ new.hashes = q.hashes
         /\ new.tokens = q.tokens /\ new.computed = q.computed /\ new.status = q.status
    BY <1>3, <2>6 DEF RowType
  <2> HIDE DEF new, p
  <2>13. RowOK(new)
    <3>1. q.status = "ABSENT" => new = q
      <4>1. q.status = "ABSENT" => q = Absent /\ q.blocks = <<>>
        <5>1. q.status = "ABSENT" => q = Absent
          BY <1>3 DEF RowOK
        <5> QED BY <5>1 DEF Absent
      <4>2. q.status # "ABSENT"
        <5> SUFFICES ASSUME q.status = "ABSENT" PROVE FALSE
          OBVIOUS
        <5>1. DOMAIN q.blocks = {}
          BY <4>1, EmptySeq
        <5>2. plan # <<>>
          BY DEF MoveDone, Pending, NoPlan, plan
        <5>3. DOMAIN plan = {}
          BY <2>3, <5>1
        <5> QED BY <5>2, <5>3
      <4> QED BY <4>2
    <3>2. \A i, j \in DOMAIN left : left[i] = left[j] /\ left[i] \in Block => i = j
      BY <1>3, <2>4, <2>6
    <3> QED BY <1>3, <2>6, <2>12, <3>1, <3>2 DEF RowOK
  <2>14. Tables'
    <3>1. \A i \in DOMAIN new.blocks : new.blocks[i] \in Block =>
            /\ i \in DOMAIN req[r].blocks /\ new.blocks[i] = req[r].blocks[i]
            /\ new.cached = req[r].cached /\ new.hashes = req[r].hashes
      BY <2>4, <2>6, <2>12 DEF q
    <3>2. /\ \A b \in Block : b \in Range(ids) => b \in Range(req[r].blocks)
          /\ \A b \in Block : b \in Range(new.blocks) <=> b \in Range(req[r].blocks) /\ b \notin Range(ids)
      BY <2>8, <2>9, <2>11, <2>12 DEF q
    <3> QED BY <1>2, <2>1, <2>2, <2>7, <2>10, <2>12, <2>13, <3>1, <3>2, FreedRow
  <2>15. \A s \in Req : req'[s].status = req[s].status /\ req'[s].computed = req[s].computed
                        /\ req'[s].tokens = req[s].tokens
    BY <1>3, <2>2, <2>12 DEF q
  <2>16. Queues'
    <3>1. /\ running \in Seq(Req) /\ todo \in Seq(Req)
          /\ Range(running) \subseteq Req /\ Range(todo) \subseteq Req
      BY <1>2, RangeOfSeq DEF Queues
    <3> QED BY <1>1, <1>2, <2>15, <3>1 DEF Queues
  <2>17. Others'
    BY <1>1, <1>2, <2>1, EmptySeq DEF Others, NoPlan
  <2> QED BY <2>14, <2>16, <2>17 DEF CacheInv
<1>5. CASE ~ CommitOK(q, plan)
  <2>1. raised' = "commit" /\ UNCHANGED <<req, pool, plans>>
    BY <1>5 DEF MoveDone
  <2>2. Tables'
    BY <1>2, <2>1 DEF Tables, References, Holders
  <2>3. Queues'
    BY <1>1, <1>2, <2>1 DEF Queues
  <2>4. Others'
    BY <1>1, <1>2, <2>1 DEF Others
  <2> QED BY <2>2, <2>3, <2>4 DEF CacheInv
<1> QED BY <1>4, <1>5

(* The worker could not move the session. *)
LEMMA MoveRefusedOK == ASSUME NEW r \in Req, CacheInv, MoveRefused(r) PROVE CacheInv'
<1>1. /\ phase = "executed" /\ raised = NoError /\ plans' = [plans EXCEPT ![r] = NoPlan]
      /\ phase' = IF todo = <<>> /\ \A s \in Req \ {r} : ~ Pending(s) THEN "between" ELSE phase
      /\ UNCHANGED <<req, pool, content, running, todo, demotions, raised>>
  BY DEF MoveRefused
<1>2. Tables'
  BY <1>1 DEF CacheInv, Tables, References, Holders
<1>3. Queues'
  BY <1>1 DEF CacheInv, Queues
<1>4. Others'
  BY <1>1, EmptySeq DEF CacheInv, Others, NoPlan
<1> QED BY <1>2, <1>3, <1>4 DEF CacheInv
-----------------------------------------------------------------------------
(* A request that leaves the running list. *)
LEMMA LeavesRunning ==
  ASSUME Queues, NEW r \in Req
  PROVE  LET left == Only(running, Req \ {r}) IN
         left \in Seq(Req) /\ IsInjective(left) /\ Range(left) = Range(running) \ {r}
<1>1. running \in Seq(Req) /\ IsInjective(running) /\ Range(running) \subseteq Req
  BY RangeOfSeq DEF Queues
<1>2. Range(running) \cap (Req \ {r}) = Range(running) \ {r}
  BY <1>1
<1> QED BY <1>1, <1>2, OnlyProperties

(* The row of a request that is gone. *)
LEMMA FinishRow ==
  ASSUME Tables, NEW r \in Req, Finish(r)
  PROVE  /\ Tables' /\ req'[r].status = "GONE" /\ \A s \in Req \ {r} : req'[s] = req[s]
<1> DEFINE q == [Absent EXCEPT !.status = "GONE"]
<1>1. req' = [req EXCEPT ![r] = q] /\ pool' = Release(pool, req[r])
  BY DEF Finish
<1>2. q \in RowType /\ RowOK(q) /\ q.blocks = <<>> /\ q.status = "GONE"
  <2>1. q \in RowType /\ RowOK(q)
    BY AbsentRow DEF Status
  <2> QED BY <2>1 DEF Absent
<1> HIDE DEF q
<1>3. Tables'
  BY <1>1, <1>2, ReleasedRow
<1>4. req'[r] = q /\ \A s \in Req \ {r} : req'[s] = req[s]
  BY <1>1 DEF Tables
<1> QED BY <1>2, <1>3, <1>4

(* A session is closed. *)
LEMMA CloseOK == ASSUME NEW r \in Req, CacheInv, Close(r) PROVE CacheInv'
<1>1. /\ phase = "between" /\ raised = NoError /\ Finish(r)
      /\ UNCHANGED <<content, todo, plans, phase, demotions, raised>>
  BY DEF Close
<1>2. Tables /\ Queues /\ Others
  BY DEF CacheInv
<1>3. Tables' /\ \A s \in Req \ {r} : req'[s] = req[s]
  BY <1>1, <1>2, FinishRow
<1>4. /\ running' \in Seq(Req) /\ IsInjective(running') /\ Range(running') = Range(running) \ {r}
  BY <1>1, <1>2, LeavesRunning DEF Finish
<1>5. Queues'
  <2>1. todo = <<>> /\ Range(todo) = {} /\ todo \in Seq(Req) /\ Range(running) \subseteq Req
    BY <1>1, <1>2, EmptySeq, RangeOfSeq DEF Queues, Range
  <2>2. \A x \in Range(running') : req'[x].status = "RUNNING"
    BY <1>2, <1>3, <1>4, <2>1 DEF Queues
  <2> QED BY <1>1, <1>2, <1>4, <2>1, <2>2 DEF Queues
<1>6. Others'
  BY <1>1, <1>2 DEF Others
<1> QED BY <1>3, <1>5, <1>6 DEF CacheInv
-----------------------------------------------------------------------------
(* A row whose tokens changed gets the hashes of its new full blocks. *)
LEMMA HashedRow ==
  ASSUME NEW q \in RowType, Chained(q.hashes), Ends(Len(q.hashes)) <= Len(q.tokens),
         q.computed <= Len(q.tokens), Len(q.blocks) = CeilDiv(q.computed),
         Ends(q.cached) <= q.computed, q.tokens # <<>>, q.status \notin {"ABSENT", "IDLE"},
         \A i, j \in DOMAIN q.blocks : q.blocks[i] = q.blocks[j] /\ q.blocks[i] \in Block => i = j
  PROVE  /\ Hashed(q) \in RowType /\ RowOK(Hashed(q))
         /\ Hashed(q).blocks = q.blocks /\ Hashed(q).cached = q.cached /\ Hashed(q).status = q.status
         /\ Hashed(q).tokens = q.tokens /\ Hashed(q).computed = q.computed /\ Hashed(q).kv = q.kv
         /\ \A i \in DOMAIN q.hashes : Hashed(q).hashes[i] = q.hashes[i]
         /\ HashesOf(q.hashes, q.tokens) => HashesOf(Hashed(q).hashes, q.tokens)
<1> DEFINE f == Hashed(q)
<1>1. /\ f \in RowType /\ f = [q EXCEPT !.hashes = f.hashes]
      /\ Len(f.hashes) = Len(q.tokens) \div BlockSize /\ Chained(f.hashes)
      /\ \A i \in DOMAIN q.hashes : f.hashes[i] = q.hashes[i]
      /\ HashesOf(q.hashes, q.tokens) => HashesOf(f.hashes, q.tokens)
  BY HashedProperties
<1> HIDE DEF f
<1>2. /\ f.blocks = q.blocks /\ f.cached = q.cached /\ f.status = q.status
      /\ f.tokens = q.tokens /\ f.computed = q.computed /\ f.kv = q.kv
  BY <1>1 DEF RowType
<1>3. RowOK(f)
  BY <1>1, <1>2 DEF RowOK
<1> QED BY <1>1, <1>2, <1>3 DEF f

(* The hashes a row has cover no more than its tokens. *)
LEMMA HashedTokens ==
  ASSUME NEW q \in RowType, RowOK(q)
  PROVE  Ends(Len(q.hashes)) <= Len(q.tokens) /\ Ends(Len(q.hashes)) \in Nat
<1>1. Len(q.tokens) \in Nat /\ Len(q.hashes) \in Nat /\ Len(q.hashes) = Len(q.tokens) \div BlockSize
  BY RowBounds DEF RowOK
<1>2. Len(q.hashes) <= Len(q.tokens) \div BlockSize <=> Ends(Len(q.hashes)) <= Len(q.tokens)
  BY <1>1, QuotientProperties
<1> QED BY <1>1, <1>2, EndsNat

(* A sampled token. *)
LEMMA SampledRow ==
  ASSUME NEW q \in RowType, RowOK(q), q.status = "RUNNING", q.computed = Len(q.tokens), NEW t \in Token
  PROVE  LET f == Hashed([q EXCEPT !.tokens = Append(@, t)]) IN
         /\ f \in RowType /\ RowOK(f) /\ f.status = "RUNNING"
         /\ f.blocks = q.blocks /\ f.cached = q.cached /\ f.computed = q.computed
         /\ f.tokens = Append(q.tokens, t)
         /\ \A i \in DOMAIN q.hashes : f.hashes[i] = q.hashes[i]
         /\ HashesOf(q.hashes, f.tokens) => HashesOf(f.hashes, f.tokens)
         /\ LET g == [f EXCEPT !.status = "IDLE"] IN
            /\ g \in RowType /\ RowOK(g) /\ g.status = "IDLE"
            /\ g.blocks = q.blocks /\ g.cached = q.cached /\ g.computed = q.computed
            /\ g.tokens = Append(q.tokens, t) /\ g.hashes = f.hashes
<1> DEFINE a == [q EXCEPT !.tokens = Append(@, t)]
           f == Hashed(a)
           g == [f EXCEPT !.status = "IDLE"]
<1>1. q.tokens \in Seq(Token) /\ Len(q.tokens) \in Nat /\ q.computed \in Nat
  BY RowBounds
<1>2. Append(q.tokens, t) \in Seq(Token) /\ Len(Append(q.tokens, t)) = Len(q.tokens) + 1
      /\ Append(q.tokens, t) # <<>>
  BY <1>1, AppendProperties
<1>3. /\ a \in RowType /\ a.tokens = Append(q.tokens, t) /\ a.hashes = q.hashes
      /\ a.computed = q.computed /\ a.blocks = q.blocks /\ a.cached = q.cached /\ a.status = q.status
  BY <1>2 DEF RowType
<1>4. Ends(Len(q.hashes)) <= Len(q.tokens) /\ Ends(Len(q.hashes)) \in Nat
  BY HashedTokens
<1> HIDE DEF a
<1>5. /\ a.computed <= Len(a.tokens) /\ Ends(Len(a.hashes)) <= Len(a.tokens)
  BY <1>1, <1>2, <1>3, <1>4
<1>6. /\ Chained(a.hashes) /\ Len(a.blocks) = CeilDiv(a.computed) /\ Ends(a.cached) <= a.computed
      /\ \A i, j \in DOMAIN a.blocks : a.blocks[i] = a.blocks[j] /\ a.blocks[i] \in Block => i = j
  BY <1>3 DEF RowOK
<1>7. /\ f \in RowType /\ RowOK(f)
      /\ f.blocks = a.blocks /\ f.cached = a.cached /\ f.status = a.status
      /\ f.tokens = a.tokens /\ f.computed = a.computed
      /\ \A i \in DOMAIN a.hashes : f.hashes[i] = a.hashes[i]
      /\ HashesOf(a.hashes, a.tokens) => HashesOf(f.hashes, a.tokens)
  BY <1>2, <1>3, <1>5, <1>6, HashedRow
<1> HIDE DEF f
<1>8. /\ g \in RowType /\ g.status = "IDLE" /\ g.blocks = f.blocks /\ g.cached = f.cached
      /\ g.computed = f.computed /\ g.tokens = f.tokens /\ g.hashes = f.hashes
  BY <1>7 DEF RowType, Status
<1> HIDE DEF g
<1>9. RowOK(g)
  <2>1. Len(g.tokens) <= g.computed + 1 /\ g.tokens # <<>>
    BY <1>1, <1>2, <1>3, <1>7, <1>8
  <2> QED BY <1>7, <1>8, <2>1 DEF RowOK
<1> QED BY <1>3, <1>7, <1>8, <1>9 DEF a, f, g

(* A request's output: a token, or the end of a turn or of the request. *)
LEMMA SampleOK ==
  ASSUME NEW t \in Token, NEW stop \in BOOLEAN, CacheInv, Sample(t, stop) PROVE CacheInv'
<1> DEFINE r == Head(todo)
           q == Hashed([req[r] EXCEPT !.tokens = Append(@, t)])
           idle == [q EXCEPT !.status = "IDLE"]
<1>1. /\ phase = "executed" /\ raised = NoError /\ todo # <<>> /\ todo' = Tail(todo)
      /\ phase' = IF Len(todo) = 1 THEN "between" ELSE phase
      /\ UNCHANGED <<content, plans, demotions, raised>>
  BY DEF Sample
<1>2. \/ req' = [req EXCEPT ![r] = q] /\ UNCHANGED <<pool, running>>
      \/ Finish(r)
      \/ req' = [req EXCEPT ![r] = idle] /\ running' = Only(running, Req \ {r}) /\ UNCHANGED pool
  BY DEF Sample
<1>3. /\ Tables /\ Queues /\ Others /\ todo \in Seq(Req) /\ IsInjective(todo) /\ running \in Seq(Req)
      /\ IsInjective(running)
  BY DEF CacheInv, Queues
<1>4. /\ r \in Req /\ Tail(todo) \in Seq(Req) /\ Len(Tail(todo)) = Len(todo) - 1 /\ Len(todo) \in Nat
      /\ \A i \in 1 .. Len(Tail(todo)) : Tail(todo)[i] = todo[i + 1]
      /\ r = todo[1] /\ 1 \in DOMAIN todo /\ DOMAIN todo = 1 .. Len(todo)
  <2>1. Len(todo) \in Nat /\ DOMAIN todo = 1 .. Len(todo) /\ Len(todo) # 0
    BY <1>1, <1>3, LenProperties, EmptySeq
  <2> QED BY <1>1, <1>3, <2>1, HeadTailProperties
<1> HIDE DEF r
<1>5. req[r] \in RowType /\ RowOK(req[r]) /\ req[r].status = "RUNNING" /\ req[r].computed = Len(req[r].tokens)
  <2>1. r \in Range(todo)
    BY <1>4 DEF Range
  <2> QED BY <1>3, <1>4, <2>1 DEF Tables, Queues
<1>6. /\ q \in RowType /\ RowOK(q) /\ q.status = "RUNNING"
      /\ q.blocks = req[r].blocks /\ q.cached = req[r].cached
      /\ \A i \in DOMAIN req[r].hashes : q.hashes[i] = req[r].hashes[i]
      /\ idle \in RowType /\ RowOK(idle)
      /\ idle.blocks = req[r].blocks /\ idle.cached = req[r].cached
      /\ idle.hashes = q.hashes
  BY <1>5, SampledRow
<1> HIDE DEF q, idle
<1>7. /\ Tables' /\ \A s \in Req \ {r} : req'[s] = req[s]
      /\ \/ running' = running /\ req'[r].status = "RUNNING"
         \/ running' = Only(running, Req \ {r})
  <2>1. CASE req' = [req EXCEPT ![r] = q] /\ UNCHANGED <<pool, running>>
    <3>1. Tables'
      BY <1>3, <1>4, <1>6, <2>1, SameBlocks
    <3> QED BY <1>3, <1>4, <1>6, <2>1, <3>1 DEF Tables
  <2>2. CASE Finish(r)
    <3>1. Tables' /\ \A s \in Req \ {r} : req'[s] = req[s]
      BY <1>3, <1>4, <2>2, FinishRow
    <3> QED BY <2>2, <3>1 DEF Finish
  <2>3. CASE req' = [req EXCEPT ![r] = idle] /\ running' = Only(running, Req \ {r}) /\ UNCHANGED pool
    <3>1. \A i \in DOMAIN req[r].hashes : idle.hashes[i] = req[r].hashes[i]
      BY <1>6
    <3>2. Tables'
      BY <1>3, <1>4, <1>6, <2>3, <3>1, SameBlocks
    <3> QED BY <1>3, <1>4, <2>3, <3>2 DEF Tables
  <2> QED BY <1>2, <2>1, <2>2, <2>3
<1>8. /\ running' \in Seq(Req) /\ IsInjective(running') /\ Range(running') \subseteq Req
      /\ \A x \in Range(running') : req'[x].status = "RUNNING"
  <2>1. CASE running' = running /\ req'[r].status = "RUNNING"
    <3>1. Range(running) \subseteq Req /\ \A x \in Range(running) : req[x].status = "RUNNING"
      BY <1>3, RangeOfSeq DEF Queues
    <3> QED BY <1>3, <1>7, <2>1, <3>1
  <2>2. CASE running' = Only(running, Req \ {r})
    <3>1. running' \in Seq(Req) /\ IsInjective(running') /\ Range(running') = Range(running) \ {r}
      BY <1>3, <1>4, <2>2, LeavesRunning
    <3>2. Range(running) \subseteq Req /\ \A x \in Range(running) : req[x].status = "RUNNING"
      BY <1>3, RangeOfSeq DEF Queues
    <3> QED BY <1>7, <3>1, <3>2
  <2> QED BY <1>7, <2>1, <2>2
<1>9. /\ IsInjective(todo')
      /\ \A x \in Range(todo') : x \in Range(todo) /\ x # r
  <2>1. DOMAIN todo' = 1 .. Len(todo) - 1 /\ \A i \in DOMAIN todo' : todo'[i] = todo[i + 1] /\ i + 1 \in DOMAIN todo
    <3>1. DOMAIN todo' = 1 .. Len(todo')
      BY <1>1, <1>4, LenProperties
    <3> QED BY <1>1, <1>4, <3>1
  <2>2. \A i, j \in DOMAIN todo' : todo'[i] = todo'[j] => i = j
    <3> SUFFICES ASSUME NEW i \in DOMAIN todo', NEW j \in DOMAIN todo', todo'[i] = todo'[j] PROVE i = j
      OBVIOUS
    <3>1. i + 1 \in DOMAIN todo /\ j + 1 \in DOMAIN todo /\ todo[i + 1] = todo[j + 1]
      BY <2>1
    <3>2. i + 1 = j + 1
      BY <1>3, <3>1 DEF IsInjective
    <3> QED BY <1>4, <2>1, <3>2
  <2>3. \A i \in DOMAIN todo' : todo'[i] \in Range(todo) /\ todo'[i] # r
    <3> SUFFICES ASSUME NEW i \in DOMAIN todo' PROVE todo'[i] \in Range(todo) /\ todo'[i] # r
      OBVIOUS
    <3>1. i + 1 \in DOMAIN todo /\ i + 1 # 1
      BY <1>4, <2>1
    <3>2. todo[i + 1] # todo[1]
      BY <1>3, <1>4, <3>1 DEF IsInjective
    <3> QED BY <1>4, <2>1, <3>1, <3>2 DEF Range
  <2> QED BY <2>2, <2>3 DEF IsInjective, Range
<1>10. Queues'
  <2>1. \A x \in Range(todo') : req'[x].status = "RUNNING" /\ req'[x].computed = Len(req'[x].tokens)
    <3>1. Range(todo) \subseteq Req
      BY <1>3, RangeOfSeq
    <3> QED BY <1>3, <1>7, <1>9, <3>1 DEF Queues
  <2>2. phase' = "between" => todo' = <<>>
    <3>1. phase' = "between" => Len(todo') = 0
      BY <1>1, <1>4
    <3> QED BY <1>1, <1>4, <3>1, EmptySeq
  <2>3. phase' \notin {"running", "preempting"}
    BY <1>1
  <2> QED BY <1>1, <1>4, <1>8, <1>9, <2>1, <2>2, <2>3 DEF Queues
<1>11. Others'
  BY <1>1, <1>3 DEF Others
<1> QED BY <1>7, <1>10, <1>11 DEF CacheInv

(* A new request. *)
LEMMA ArrivedRow ==
  ASSUME NEW prompt \in FirstPrompts
  PROVE  /\ Arrived(prompt) \in RowType /\ RowOK(Arrived(prompt))
         /\ Arrived(prompt).blocks = <<>> /\ Arrived(prompt).cached = 0
         /\ Arrived(prompt).computed = 0 /\ Arrived(prompt).status = "WAITING"
         /\ Arrived(prompt).tokens = prompt /\ HashesOf(Arrived(prompt).hashes, prompt)
<1> DEFINE a == [Absent EXCEPT !.status = "WAITING", !.tokens = prompt, !.prompt = Len(prompt)]
<1>1. prompt \in Seq(Token) /\ prompt # <<>> /\ Len(prompt) \in Nat
  <2>1. prompt \in Seq(Token) \ {<<>>}
    BY PrefixAssumption
  <2> QED BY <2>1, LenProperties
<1>2. /\ a.status = "WAITING" /\ a.tokens = prompt /\ a.hashes = <<>> /\ a.blocks = <<>>
      /\ a.cached = 0 /\ a.computed = 0
  BY DEF Absent
<1>3. a \in RowType
  <2>1. Absent \in RowType
    BY AbsentRow DEF Status
  <2> QED BY <1>1, <2>1 DEF RowType, Status, Absent
<1>4. Arrived(prompt) = Hashed(a)
  BY DEF Arrived
<1> HIDE DEF a
<1>5. /\ Chained(<<>>) /\ Ends(0) = 0 /\ CeilDiv(0) = 0 /\ Len(<<>>) = 0 /\ DOMAIN <<>> = {}
  BY EndsNat, QuotientProperties, EmptySeq DEF Chained
<1>6. /\ Chained(a.hashes) /\ Ends(Len(a.hashes)) <= Len(a.tokens) /\ a.computed <= Len(a.tokens)
      /\ Len(a.blocks) = CeilDiv(a.computed) /\ Ends(a.cached) <= a.computed /\ a.tokens # <<>>
      /\ a.status \notin {"ABSENT", "IDLE"}
      /\ \A i, j \in DOMAIN a.blocks : a.blocks[i] = a.blocks[j] /\ a.blocks[i] \in Block => i = j
  BY <1>1, <1>2, <1>5
<1>7. /\ Hashed(a) \in RowType /\ RowOK(Hashed(a)) /\ Hashed(a).blocks = a.blocks
      /\ Hashed(a).cached = a.cached /\ Hashed(a).status = a.status /\ Hashed(a).tokens = a.tokens
      /\ Hashed(a).computed = a.computed
      /\ HashesOf(a.hashes, a.tokens) => HashesOf(Hashed(a).hashes, a.tokens)
  BY <1>3, <1>6, HashedRow
<1>8. HashesOf(a.hashes, a.tokens)
  BY <1>2, <1>5 DEF HashesOf
<1> QED BY <1>2, <1>4, <1>7, <1>8

(* A client's new request. *)
LEMMA ArriveOK == ASSUME NEW r \in Req, NEW prompt \in FirstPrompts, CacheInv, Arrive(r, prompt) PROVE CacheInv'
<1> DEFINE q == Arrived(prompt)
<1>1. /\ phase = "between" /\ raised = NoError /\ req[r].status = "ABSENT"
      /\ req' = [req EXCEPT ![r] = q]
      /\ UNCHANGED <<pool, content, running, todo, plans, phase, demotions, raised>>
  BY DEF Arrive
<1>2. q \in RowType /\ RowOK(q) /\ q.blocks = <<>> /\ q.cached = 0 /\ q.status = "WAITING"
  BY ArrivedRow
<1> HIDE DEF q
<1>3. Tables /\ Queues /\ Others /\ req \in [Req -> RowType]
  BY DEF CacheInv, Tables
<1>4. req[r].blocks = <<>> /\ req[r].cached = 0 /\ req[r].hashes = <<>>
  <2>1. req[r] = Absent
    BY <1>1, <1>3 DEF Tables, RowOK
  <2> QED BY <2>1 DEF Absent
<1>5. \A i \in DOMAIN req[r].hashes : q.hashes[i] = req[r].hashes[i]
  BY <1>4, EmptySeq
<1>6. Tables'
  BY <1>1, <1>2, <1>3, <1>4, <1>5, SameBlocks
<1>7. Queues'
  <2>1. /\ \A s \in Req \ {r} : req'[s] = req[s]
        /\ Range(running) \subseteq Req /\ Range(todo) \subseteq Req
        /\ r \notin Range(running) /\ r \notin Range(todo)
    BY <1>1, <1>3, RangeOfSeq DEF Queues
  <2> QED BY <1>1, <1>3, <2>1 DEF Queues
<1>8. Others'
  BY <1>1, <1>3 DEF Others
<1> QED BY <1>6, <1>7, <1>8 DEF CacheInv

(* The next turn of a session: its last, uncomputed, token is replaced by  *)
(* those of the turn, and no hash it has covers more than is there then.   *)
LEMMA ResumedRow ==
  ASSUME NEW q \in RowType, RowOK(q), q.status = "IDLE", NEW turn \in TurnPrompts
  PROVE  /\ Resumed(q, turn) \in RowType /\ RowOK(Resumed(q, turn))
         /\ Resumed(q, turn).blocks = q.blocks /\ Resumed(q, turn).cached = q.cached
         /\ Resumed(q, turn).computed = q.computed /\ Resumed(q, turn).status = "WAITING"
         /\ \A i \in DOMAIN q.hashes : Resumed(q, turn).hashes[i] = q.hashes[i]
         /\ Resumed(q, turn).tokens = Prefix(q.tokens, Larger(q.computed, q.prompt)) \o turn
         /\ HashesOf(q.hashes, Resumed(q, turn).tokens)
              => HashesOf(Resumed(q, turn).hashes, Resumed(q, turn).tokens)
<1> DEFINE n == Larger(q.computed, q.prompt)
           kept == Prefix(q.tokens, n) \o turn
           a == [q EXCEPT !.tokens = kept, !.prompt = Len(kept), !.kv = "HOT", !.status = "WAITING"]
<1>1. turn \in Seq(Token) /\ turn # <<>> /\ Len(turn) \in Nat \ {0}
  <2>1. turn \in Seq(Token) \ {<<>>}
    BY PrefixAssumption
  <2> QED BY <2>1, LenProperties, EmptySeq
<1>2. q.tokens \in Seq(Token) /\ Len(q.tokens) \in Nat /\ q.computed \in Nat /\ q.prompt \in Nat
  BY RowBounds DEF RowType
<1>3. n \in Nat /\ q.computed <= n
  BY <1>2 DEF Larger
<1>4. q.computed <= Len(q.tokens) /\ Len(q.tokens) <= q.computed + 1
  BY DEF RowOK
<1> HIDE DEF n
<1>5. /\ Prefix(q.tokens, n) \in Seq(Token) /\ Len(Prefix(q.tokens, n)) = Smaller(n, Len(q.tokens))
  BY <1>2, <1>3, PrefixProperties
<1>6. Smaller(n, Len(q.tokens)) \in Nat /\ q.computed <= Smaller(n, Len(q.tokens))
  BY <1>2, <1>3, <1>4 DEF Smaller
<1>7. kept \in Seq(Token) /\ Len(kept) = Len(Prefix(q.tokens, n)) + Len(turn)
  BY <1>1, <1>5, ConcatProperties
<1>8. Len(kept) \in Nat /\ q.computed + 1 <= Len(kept)
  BY <1>1, <1>2, <1>5, <1>6, <1>7
<1> HIDE DEF kept
<1>9. kept # <<>>
  BY <1>2, <1>8, EmptySeq
<1>10. /\ a \in RowType /\ a.tokens = kept /\ a.hashes = q.hashes /\ a.status = "WAITING"
       /\ a.computed = q.computed /\ a.blocks = q.blocks /\ a.cached = q.cached
  BY <1>7, <1>8 DEF RowType, Status
<1>11. Resumed(q, turn) = Hashed(a)
  BY DEF Resumed, kept, n
<1> HIDE DEF a
<1>12. Ends(Len(a.hashes)) <= Len(a.tokens)
  <2>1. Ends(Len(q.hashes)) <= Len(q.tokens) /\ Ends(Len(q.hashes)) \in Nat
    BY HashedTokens
  <2> QED BY <1>2, <1>4, <1>8, <1>10, <2>1
<1>13. a.computed <= Len(a.tokens)
  BY <1>2, <1>8, <1>10
<1>14. /\ Chained(a.hashes) /\ Len(a.blocks) = CeilDiv(a.computed) /\ Ends(a.cached) <= a.computed
       /\ \A i, j \in DOMAIN a.blocks : a.blocks[i] = a.blocks[j] /\ a.blocks[i] \in Block => i = j
  BY <1>10 DEF RowOK
<1>15. /\ Hashed(a) \in RowType /\ RowOK(Hashed(a)) /\ Hashed(a).blocks = a.blocks
       /\ Hashed(a).cached = a.cached /\ Hashed(a).status = a.status /\ Hashed(a).tokens = a.tokens
       /\ Hashed(a).computed = a.computed
       /\ \A i \in DOMAIN a.hashes : Hashed(a).hashes[i] = a.hashes[i]
       /\ HashesOf(a.hashes, a.tokens) => HashesOf(Hashed(a).hashes, a.tokens)
  BY <1>9, <1>10, <1>12, <1>13, <1>14, HashedRow
<1> QED BY <1>10, <1>11, <1>15 DEF kept, n

(* A client's next turn. *)
LEMMA NextTurnOK == ASSUME NEW r \in Req, NEW turn \in TurnPrompts, CacheInv, NextTurn(r, turn) PROVE CacheInv'
<1> DEFINE q == Resumed(req[r], turn)
<1>1. /\ phase = "between" /\ raised = NoError /\ req[r].status = "IDLE"
      /\ req' = [req EXCEPT ![r] = q]
      /\ UNCHANGED <<pool, content, running, todo, plans, phase, demotions, raised>>
  BY DEF NextTurn, Resumed
<1>2. Tables /\ Queues /\ Others /\ req \in [Req -> RowType] /\ req[r] \in RowType /\ RowOK(req[r])
  BY DEF CacheInv, Tables
<1>3. /\ q \in RowType /\ RowOK(q) /\ q.blocks = req[r].blocks /\ q.cached = req[r].cached
      /\ \A i \in DOMAIN req[r].hashes : q.hashes[i] = req[r].hashes[i]
  BY <1>1, <1>2, ResumedRow
<1> HIDE DEF q
<1>4. Tables'
  BY <1>1, <1>2, <1>3, SameBlocks
<1>5. Queues'
  <2>1. /\ \A s \in Req \ {r} : req'[s] = req[s]
        /\ Range(running) \subseteq Req /\ Range(todo) \subseteq Req
        /\ r \notin Range(running) /\ r \notin Range(todo)
    BY <1>1, <1>2, RangeOfSeq DEF Queues
  <2> QED BY <1>1, <1>2, <2>1 DEF Queues
<1>6. Others'
  BY <1>1, <1>2 DEF Others
<1> QED BY <1>4, <1>5, <1>6 DEF CacheInv

(* Nobody holds a block when the prefix cache is reset. *)
LEMMA AllFree ==
  ASSUME Tables, Resettable(pool)
  PROVE  \A b \in Block : pool.ref[b] = 0 /\ \A r \in Req : b \notin Range(req[r].blocks)
<1>1. pool.queue \in Seq(Block) /\ IsInjective(pool.queue) /\ PoolOK(pool)
  BY DEF Tables, PoolOK, PoolType
<1>2. Range(pool.queue) \subseteq Block /\ Cardinality(Range(pool.queue)) = Len(pool.queue)
  BY <1>1, RangeOfSeq, LengthIsCardinality
<1>3. IsFiniteSet(Block) /\ Cardinality(Block) = NumBlocks
  <2>1. NumBlocks \in Nat
    BY Sizes
  <2>2. IsFiniteSet(1 .. NumBlocks) /\ Cardinality(1 .. NumBlocks) = NumBlocks - 1 + 1
    BY <2>1, Sizes, FS_Interval
  <2> QED BY <2>1, <2>2 DEF Block
<1>4. Cardinality(Range(pool.queue)) = Cardinality(Block)
  BY <1>2, <1>3 DEF Resettable, Free
<1>5. Range(pool.queue) = Block
  BY <1>2, <1>3, <1>4, FS_Subset
<1>6. \A b \in Block : pool.ref[b] = 0
  BY <1>1, <1>5 DEF PoolOK
<1> QED BY <1>6, HeldBlocks

(* The prefix cache is reset. *)
LEMMA ResetOK == CacheInv /\ ResetPrefixCache => CacheInv'
<1> SUFFICES ASSUME CacheInv, ResetPrefixCache PROVE CacheInv'
  OBVIOUS
<1>1. /\ phase = "between" /\ raised = NoError /\ Resettable(pool) /\ pool' = Evicted(pool, Block)
      /\ UNCHANGED <<req, content, running, todo, plans, phase, demotions, raised>>
  BY DEF ResetPrefixCache
<1>2. Tables /\ PoolOK(pool)
  BY DEF CacheInv, Tables
<1>3. PoolOK(pool') /\ pool'.ref = pool.ref
  BY <1>1, <1>2, EvictedProperties
<1>4. \A r \in Req : RowCached(req[r], pool')
  <2> SUFFICES ASSUME NEW r \in Req, NEW i \in DOMAIN req[r].blocks, req[r].blocks[i] \in Block PROVE FALSE
    BY DEF RowCached
  <2>1. req[r].blocks[i] \in Range(req[r].blocks)
    BY DEF Range
  <2> QED BY <1>1, <1>2, <2>1, AllFree
<1>5. Tables'
  BY <1>1, <1>2, <1>3, <1>4 DEF Tables, References, Holders
<1>6. Queues' /\ Others'
  BY <1>1 DEF CacheInv, Queues, Others
<1> QED BY <1>5, <1>6 DEF CacheInv

(* Every step keeps the invariant. *)
LEMMA CacheNextOK == CacheInv /\ [CacheNext]_cacheVars => CacheInv'
<1> SUFFICES ASSUME CacheInv, [CacheNext]_cacheVars PROVE CacheInv'
  OBVIOUS
<1>1. CASE Plan \/ RunNext \/ PreemptLast \/ Execute \/ ResetPrefixCache
  BY <1>1, PlanOK, RunNextOK, PreemptLastOK, ExecuteOK, ResetOK
<1>2. CASE \E r \in Req : Admit(r) \/ MoveDone(r) \/ MoveRefused(r) \/ Close(r)
  BY <1>2, AdmitOK, MoveDoneOK, MoveRefusedOK, CloseOK
<1>3. CASE \E t \in Token, stop \in BOOLEAN : Sample(t, stop)
  BY <1>3, SampleOK
<1>4. CASE \E r \in Req : \E p \in FirstPrompts : Arrive(r, p)
  BY <1>4, ArriveOK
<1>5. CASE \E r \in Req : \E p \in TurnPrompts : NextTurn(r, p)
  BY <1>5, NextTurnOK
<1>6. CASE UNCHANGED cacheVars
  BY <1>6 DEF cacheVars, CacheInv, Tables, References, Holders, Queues, Others
<1> QED BY <1>1, <1>2, <1>3, <1>4, <1>5, <1>6 DEF CacheNext

(* Every reachable state of the engine with prefix caching has sound rows  *)
(* and a sound pool.                                                       *)
THEOREM CacheInvariant == CacheSpec => []CacheInv
<1> QED BY CacheInitOK, CacheNextOK, PTL DEF CacheSpec

(* What PoolConsistent says of the reference counts, the free queue and    *)
(* the rows holds whatever is hit, preempted, demoted and freed.           *)
THEOREM PoolConsistentHolds == CacheSpec => []PoolConsistent
<1>1. CacheInv => PoolConsistent
  <2> SUFFICES ASSUME CacheInv PROVE PoolConsistent
    OBVIOUS
  <2>1. PoolOK(pool) /\ References
    BY DEF CacheInv, Tables
  <2>2. ASSUME NEW b \in Block
        PROVE  {r \in Req : b \in ToSet(req[r].blocks)} = Holders(b)
    BY ToSetIsRange DEF Holders
  <2>3. \A b \in Block : /\ pool.ref[b] = Cardinality({r \in Req : b \in ToSet(req[r].blocks)})
                         /\ (pool.ref[b] = 0) <=> (b \in ToSet(pool.queue))
    BY <2>1, <2>2, ToSetIsRange DEF References, PoolOK
  <2> QED BY <2>1, <2>3 DEF PoolConsistent, PoolOK
<1> QED BY <1>1, CacheInvariant, PTL

(* A request whose blocks were counted gets them: the pool is never found  *)
(* short, and no block that is cached is cached again.                     *)
THEOREM AllocationNeverFailsHolds == CacheSpec => []AllocationNeverFails
<1>1. CacheInv => AllocationNeverFails
  BY DEF CacheInv, Others, AllocationNeverFails
<1> QED BY <1>1, CacheInvariant, PTL
-----------------------------------------------------------------------------
(* Why the chains stay whole: as long as nothing was demoted, a block that *)
(* is in the queue has the block before it, in some chain, held or behind  *)
(* it in the queue.                                                        *)
Parent(h) == Prefix(h, Len(h) - BlockSize)

(* The parent of every hashed block in the queue outlives it. *)
ParentOutlives(p) ==
  \A b \in Range(p.queue) : Len(p.hash[b]) > BlockSize =>
    \E c \in Holding(p, Parent(p.hash[b])) : Outlives(p, c, b)

(* The inductive part of EvictionInOrder. *)
InOrder ==
  /\ UnhashedAhead(pool)
  /\ demotions = 0 =>
       /\ \A r \in Req : NullBlock \notin Range(req[r].blocks) /\ plans[r] = NoPlan
       /\ ParentOutlives(pool)

(* In a row without null blocks the parent of a block is the one before it. *)
LEMMA ParentInRow ==
  ASSUME Tables, NEW r \in Req, NullBlock \notin Range(req[r].blocks),
         NEW i \in DOMAIN req[r].blocks, Len(pool.hash[req[r].blocks[i]]) > BlockSize
  PROVE  /\ i - 1 \in DOMAIN req[r].blocks
         /\ req[r].blocks[i - 1] \in Holding(pool, Parent(pool.hash[req[r].blocks[i]]))
<1> DEFINE q == req[r]
<1>1. /\ q \in RowType /\ RowOK(q) /\ RowCached(q, pool) /\ PoolOK(pool)
  BY DEF Tables
<1>2. /\ q.blocks \in Seq(Block \cup {NullBlock}) /\ Len(q.blocks) \in Nat /\ DOMAIN q.blocks = 1 .. Len(q.blocks)
      /\ q.hashes \in Seq(Seq(Token)) /\ Len(q.hashes) \in Nat /\ DOMAIN q.hashes = 1 .. Len(q.hashes)
      /\ q.cached \in Nat /\ q.cached <= Len(q.hashes)
  BY <1>1, RowBounds
<1>3. \A j \in DOMAIN q.blocks : q.blocks[j] \in Block
  <2> TAKE j \in DOMAIN q.blocks
  <2>1. q.blocks[j] \in Block \cup {NullBlock} /\ q.blocks[j] \in Range(q.blocks)
    BY <1>2, ElementOfSeq DEF Range
  <2> QED BY <2>1
<1>4. Len(NoHash) = 0 /\ BlockSize \in Nat
  BY EmptySeq, Sizes DEF NoHash
<1>5. i <= q.cached /\ pool.hash[q.blocks[i]] = q.hashes[i] /\ i \in DOMAIN q.hashes /\ i \in Nat
  BY <1>1, <1>2, <1>3, <1>4 DEF RowCached
<1>6. Len(q.hashes[i]) = Ends(i)
  BY <1>1, <1>5 DEF RowOK, Chained
<1>7. i # 1
  BY <1>4, <1>5, <1>6, EndsProperties
<1>8. i - 1 \in DOMAIN q.blocks /\ i - 1 \in DOMAIN q.hashes /\ i - 1 <= q.cached /\ i - 1 \in Nat /\ i - 1 <= i
  BY <1>2, <1>5, <1>7
<1>9. q.hashes[i - 1] = Prefix(q.hashes[i], Ends(i - 1))
  BY <1>1, <1>5, <1>8 DEF RowOK, Chained
<1>10. Ends(i - 1) = Ends(i) - BlockSize
  BY <1>5, <1>7, <1>8, EndsProperties
<1>11. pool.hash[q.blocks[i - 1]] = q.hashes[i - 1]
  BY <1>1, <1>3, <1>8 DEF RowCached
<1>12. q.hashes[i - 1] # NoHash
  BY <1>1, <1>8, HashesNotEmpty
<1>13. q.hashes[i - 1] = Parent(pool.hash[q.blocks[i]])
  BY <1>5, <1>6, <1>9, <1>10 DEF Parent
<1> QED BY <1>3, <1>8, <1>11, <1>12, <1>13 DEF Holding

(* With the sound rows, it gives what the run checks. *)
LEMMA InOrderSuffices == CacheInv /\ InOrder => EvictionInOrder
<1> SUFFICES ASSUME CacheInv, InOrder PROVE EvictionInOrder
  OBVIOUS
<1>1. Tables /\ PoolOK(pool)
  BY DEF CacheInv, Tables
<1>2. ASSUME demotions = 0, NEW b \in Block, Len(pool.hash[b]) > BlockSize
      PROVE  Holding(pool, Parent(pool.hash[b])) # {}
  <2>1. CASE b \in Range(pool.queue)
    BY <1>2, <2>1 DEF InOrder, ParentOutlives
  <2>2. CASE b \notin Range(pool.queue)
    <3>1. pool.ref[b] # 0 /\ pool.ref[b] = Cardinality(Holders(b))
      BY <1>1, <2>2 DEF PoolOK, Tables, References
    <3>2. Holders(b) # {}
      BY <3>1, FS_EmptySet
    <3>3. PICK r \in Req : b \in Range(req[r].blocks)
      BY <3>2 DEF Holders
    <3>4. PICK i \in DOMAIN req[r].blocks : req[r].blocks[i] = b
      BY <3>3 DEF Range
    <3>5. NullBlock \notin Range(req[r].blocks)
      BY <1>2 DEF InOrder
    <3>6. req[r].blocks[i - 1] \in Holding(pool, Parent(pool.hash[b]))
      BY <1>1, <1>2, <3>4, <3>5, ParentInRow
    <3> QED BY <3>6
  <2> QED BY <2>1, <2>2
<1>3. demotions = 0 => ChainsUnbroken
  BY <1>2 DEF ChainsUnbroken, Parent
<1> QED BY <1>3 DEF EvictionInOrder, InOrder, UnhashedAhead

(* What keeps the order: the pool and what was planned stay, and no row    *)
(* gets a null block.                                                      *)
LEMMA OrderKept ==
  ASSUME InOrder, pool' = pool, plans' = plans, demotions' = demotions,
         \A r \in Req : NullBlock \in Range(req'[r].blocks) => NullBlock \in Range(req[r].blocks)
  PROVE  InOrder'
BY DEF InOrder, ParentOutlives, UnhashedAhead, Outlives, Holding

(* Placing a request: hits leave the queue with their parents, and new     *)
(* blocks are taken from the head.                                         *)
LEMMA PlaceOrder ==
  ASSUME CacheInv, InOrder, NEW r \in Req, NEW hits, HitsOf(req[r], hits),
         NEW blocks \in Seq(Block \cup {NullBlock}), Placed(r, hits, blocks),
         plans' = plans, demotions' = demotions
  PROVE  InOrder'
<1> DEFINE own == Len(req[r].blocks)
           m == Len(req[r].blocks) + Len(hits)
           full == Len(req[r].tokens) \div BlockSize
<1>1. /\ \A i \in 1 .. own : blocks[i] = req[r].blocks[i]
      /\ \A i \in 1 .. Len(hits) : blocks[i] = hits[i]
      /\ hits # <<>> => req[r].blocks = <<>>
      /\ \A i \in m + 1 .. Len(blocks) : blocks[i] \in Block
      /\ PoolOK(pool')
      /\ UnhashedAhead(pool) => UnhashedAhead(pool')
      /\ \A b, c \in Block : b \in Range(pool'.queue) /\ Outlives(pool, c, b) =>
           /\ Outlives(pool', c, b)
           /\ ~ \E i \in m + 1 .. Len(blocks) : blocks[i] = c
  BY DEF Placed
<1>2. /\ \A b \in Block : b \notin Range(blocks) => pool'.hash[b] = pool.hash[b]
      /\ \A i \in DOMAIN blocks : blocks[i] \in Block /\ i <= m =>
           pool.hash[blocks[i]] = NoHash \/ pool'.hash[blocks[i]] = pool.hash[blocks[i]]
      /\ \A b \in Block : pool'.ref[b] =
           pool.ref[b] + (IF b \in Range(hits) THEN 1 ELSE 0)
                       + (IF \E i \in m + 1 .. Len(blocks) : blocks[i] = b THEN 1 ELSE 0)
  BY DEF Placed
<1>3. req' = [req EXCEPT ![r] = [req[r] EXCEPT !.status = "RUNNING", !.blocks = blocks,
                                 !.computed = Len(req[r].tokens), !.cached = full]]
  BY DEF Placed
<1>4. /\ Tables /\ PoolOK(pool) /\ req \in [Req -> RowType]
      /\ req[r] \in RowType /\ RowOK(req[r])
  BY DEF CacheInv, Tables
<1>5. /\ own \in Nat /\ DOMAIN req[r].blocks = 1 .. own /\ Len(hits) \in Nat /\ DOMAIN hits = 1 .. Len(hits)
      /\ hits \in Seq(Block) /\ Range(hits) \subseteq Block
      /\ Len(blocks) \in Nat /\ DOMAIN blocks = 1 .. Len(blocks)
  BY <1>4, RowBounds, LenProperties, RangeOfSeq DEF HitsOf
<1>6. (hits # <<>> => own = 0) /\ (hits = <<>> => Len(hits) = 0)
  BY <1>1, EmptySeq
<1> DEFINE h == Len(hits)
<1> HIDE DEF own, h
<1>7. \A i \in DOMAIN blocks : i \in 1 .. own \/ i \in m + 1 .. Len(blocks) \/ (i \in 1 .. h)
  <2>1. m = own + h
    BY DEF own, h
  <2> HIDE DEF m
  <2>2. own \in Nat /\ h \in Nat /\ (own = 0 \/ h = 0) /\ DOMAIN blocks = 1 .. Len(blocks) /\ Len(blocks) \in Nat
    BY <1>5, <1>6 DEF h
  <2> QED BY <2>1, <2>2
<1>8. m \in Nat
  BY <1>5 DEF own
<1> HIDE DEF m, full
<1>9. UnhashedAhead(pool')
  BY <1>1 DEF InOrder
<1>10. ASSUME demotions = 0
       PROVE  \A s \in Req : NullBlock \notin Range(req'[s].blocks)
  <2> SUFFICES ASSUME NEW s \in Req PROVE NullBlock \notin Range(req'[s].blocks)
    OBVIOUS
  <2>1. CASE s # r
    BY <1>3, <1>4, <1>10, <2>1 DEF InOrder
  <2>2. CASE s = r
    <3>1. req'[r].blocks = blocks
      BY <1>3, <1>4 DEF RowType
    <3>2. NullBlock \notin Block
      BY DEF NullBlock, Block
    <3>3. \A i \in 1 .. own : req[r].blocks[i] # NullBlock
      BY <1>5, <1>10 DEF InOrder, Range, own
    <3>4. \A i \in 1 .. h : hits[i] \in Block
      BY <1>5, ElementOfSeq DEF h
    <3>5. \A i \in 1 .. h : blocks[i] = hits[i]
      BY <1>1 DEF h
    <3>6. \A i \in 1 .. own : blocks[i] = req[r].blocks[i]
      BY <1>1 DEF own
    <3>7. \A i \in DOMAIN blocks : blocks[i] # NullBlock
      BY <1>1, <1>7, <3>2, <3>3, <3>4, <3>5, <3>6
    <3> QED BY <2>2, <3>1, <3>7 DEF Range
  <2> QED BY <2>1, <2>2
<1>11. ASSUME demotions = 0 PROVE ParentOutlives(pool')
  <2> SUFFICES ASSUME NEW b \in Range(pool'.queue), Len(pool'.hash[b]) > BlockSize
               PROVE  \E c \in Holding(pool', Parent(pool'.hash[b])) : Outlives(pool', c, b)
    BY DEF ParentOutlives
  <2>1. b \in Block /\ pool'.ref[b] = 0 /\ pool.ref[b] \in Nat
    BY <1>1, <1>4, RangeOfSeq DEF PoolOK, PoolType
  <2>2. /\ b \notin Range(hits) /\ (~ \E i \in m + 1 .. Len(blocks) : blocks[i] = b) /\ pool.ref[b] = 0
    BY <1>2, <2>1
  <2>3. b \in Range(pool.queue)
    BY <1>4, <2>1, <2>2 DEF PoolOK
  <2>4. b \notin Range(blocks)
    <3>1. b \notin Range(req[r].blocks)
      BY <1>4, <2>1, <2>2, HeldBlocks
    <3>2. \A i \in 1 .. own : blocks[i] # b
      BY <1>1, <1>5, <3>1 DEF Range, own
    <3>3. \A i \in 1 .. h : blocks[i] # b
      BY <1>1, <1>5, <2>2 DEF Range, h
    <3> QED BY <1>7, <2>2, <3>2, <3>3 DEF Range
  <2>5. pool'.hash[b] = pool.hash[b]
    BY <1>2, <2>1, <2>4
  <2>6. PICK c \in Holding(pool, Parent(pool.hash[b])) : Outlives(pool, c, b)
    BY <1>11, <2>3, <2>5 DEF InOrder, ParentOutlives
  <2>7. c \in Block /\ pool.hash[c] = Parent(pool.hash[b]) /\ pool.hash[c] # NoHash
    BY <2>6 DEF Holding
  <2>8. Outlives(pool', c, b) /\ ~ \E i \in m + 1 .. Len(blocks) : blocks[i] = c
    BY <1>1, <2>1, <2>6, <2>7 DEF m
  <2>9. pool'.hash[c] = pool.hash[c]
    <3>1. CASE c \notin Range(blocks)
      BY <1>2, <2>7, <3>1
    <3>2. CASE c \in Range(blocks)
      <4>1. PICK i \in DOMAIN blocks : blocks[i] = c
        BY <3>2 DEF Range
      <4>2. i <= m
        BY <1>5, <1>8, <2>8, <4>1
      <4> QED BY <1>2, <2>7, <4>1, <4>2
    <3> QED BY <3>1, <3>2
  <2> QED BY <2>5, <2>7, <2>8, <2>9 DEF Holding
<1> QED BY <1>9, <1>10, <1>11 DEF InOrder

(* A request that gives all its blocks back frees the last one first. *)
LEMMA ReleaseOrder ==
  ASSUME CacheInv, InOrder, NEW r \in Req, pool' = Release(pool, req[r]),
         plans' = plans, demotions' = demotions, req'[r].blocks = <<>>,
         \A s \in Req \ {r} : req'[s] = req[s]
  PROVE  InOrder'
<1> DEFINE q == req[r]
           ids == Reverse(q.blocks)
<1>1. /\ Tables /\ PoolOK(pool) /\ q \in RowType /\ RowOK(q) /\ q.blocks \in Seq(Block \cup {NullBlock})
      /\ Len(q.blocks) \in Nat /\ DOMAIN q.blocks = 1 .. Len(q.blocks)
  <2>1. Tables /\ PoolOK(pool) /\ q \in RowType /\ RowOK(q)
    BY DEF CacheInv, Tables
  <2> QED BY <2>1, RowBounds
<1>2. pool' = Freed(pool, ids)
  BY DEF Release
<1>3. /\ ids \in Seq(Block \cup {NullBlock}) /\ Range(ids) = Range(q.blocks)
      /\ \A i \in DOMAIN q.blocks : /\ Len(q.blocks) - i + 1 \in DOMAIN ids
                                    /\ ids[Len(q.blocks) - i + 1] = q.blocks[i]
      /\ \A i, j \in DOMAIN ids : ids[i] = ids[j] /\ ids[i] \in Block => i = j
  <2>1. \A i, j \in DOMAIN q.blocks : q.blocks[i] = q.blocks[j] /\ q.blocks[i] \in Block => i = j
    BY <1>1 DEF RowOK
  <2> HIDE DEF q
  <2> QED BY <1>1, <2>1, ReverseProperties
<1>4. \A i \in DOMAIN ids : ids[i] \in Block => pool.ref[ids[i]] > 0
  <2> TAKE i \in DOMAIN ids
  <2>1. ids[i] \in Range(q.blocks)
    BY <1>3 DEF Range
  <2> HIDE DEF ids
  <2> QED BY <1>1, <2>1, HeldBlocks
<1> HIDE DEF ids
<1>5. /\ PoolOK(pool') /\ pool'.hash = pool.hash
      /\ UnhashedAhead(pool) => UnhashedAhead(pool')
      /\ \A b, c \in Block :
           b \in Range(pool.queue) /\ Outlives(pool, c, b) /\ pool.hash[c] # NoHash => Outlives(pool', c, b)
      /\ \A i, j \in DOMAIN ids :
           /\ i < j /\ ids[i] \in Block /\ ids[j] \in Block /\ pool.ref[ids[i]] = 1
           /\ pool.hash[ids[i]] # NoHash /\ pool.hash[ids[j]] # NoHash
           => Outlives(pool', ids[j], ids[i])
      /\ \A b \in Range(pool'.queue) \ Range(pool.queue) : b \in Range(ids) /\ pool.ref[b] = 1
  BY <1>1, <1>2, <1>3, <1>4, FreedProperties
<1>6. ASSUME demotions = 0 PROVE ParentOutlives(pool')
  <2> SUFFICES ASSUME NEW b \in Range(pool'.queue), Len(pool.hash[b]) > BlockSize
               PROVE  \E c \in Holding(pool, Parent(pool.hash[b])) : Outlives(pool', c, b)
    BY <1>5 DEF ParentOutlives, Holding
  <2>1. b \in Block
    BY <1>5, RangeOfSeq DEF PoolOK, PoolType
  <2>2. CASE b \in Range(pool.queue)
    <3>1. PICK c \in Holding(pool, Parent(pool.hash[b])) : Outlives(pool, c, b)
      BY <1>6, <2>2 DEF InOrder, ParentOutlives
    <3>2. c \in Block /\ pool.hash[c] # NoHash
      BY <3>1 DEF Holding
    <3> QED BY <1>5, <2>1, <2>2, <3>1, <3>2
  <2>3. CASE b \notin Range(pool.queue)
    <3>1. b \in Range(q.blocks) /\ pool.ref[b] = 1
      BY <1>3, <1>5, <2>3
    <3>2. PICK i \in DOMAIN q.blocks : q.blocks[i] = b
      BY <3>1 DEF Range
    <3>3. NullBlock \notin Range(q.blocks)
      BY <1>6 DEF InOrder
    <3>4. i - 1 \in DOMAIN q.blocks /\ q.blocks[i - 1] \in Holding(pool, Parent(pool.hash[b]))
      BY <1>1, <3>2, <3>3, ParentInRow
    <3> DEFINE c == q.blocks[i - 1]
    <3>5. c \in Block /\ pool.hash[c] # NoHash
      BY <3>4 DEF Holding
    <3>6. pool.hash[b] # NoHash
      <4>1. Len(NoHash) = 0 /\ BlockSize \in Nat
        BY EmptySeq, Sizes DEF NoHash
      <4> QED BY <4>1
    <3>7. PICK x \in DOMAIN ids, y \in DOMAIN ids : ids[x] = b /\ ids[y] = c /\ x < y
      <4>1. /\ Len(q.blocks) - i + 1 \in DOMAIN ids /\ ids[Len(q.blocks) - i + 1] = b
            /\ Len(q.blocks) - (i - 1) + 1 \in DOMAIN ids /\ ids[Len(q.blocks) - (i - 1) + 1] = c
        BY <1>3, <3>2, <3>4
      <4>2. Len(q.blocks) - i + 1 < Len(q.blocks) - (i - 1) + 1
        BY <1>1, <3>2
      <4> QED BY <4>1, <4>2
    <3>8. Outlives(pool', c, b)
      BY <1>5, <2>1, <3>1, <3>5, <3>6, <3>7
    <3> QED BY <3>4, <3>8
  <2> QED BY <2>2, <2>3
<1>7. \A s \in Req : NullBlock \in Range(req'[s].blocks) => NullBlock \in Range(req[s].blocks)
  <2>1. Range(<<>>) = {}
    BY EmptySeq DEF Range
  <2> QED BY <2>1
<1> QED BY <1>5, <1>6, <1>7 DEF InOrder

(* Planning changes no block. *)
LEMMA PlanOrder == CacheInv /\ InOrder /\ Plan => InOrder'
<1> SUFFICES ASSUME CacheInv, InOrder, Plan PROVE InOrder'
  OBVIOUS
<1>1. PICK chosen \in SUBSET {r \in Req : Demotable(r)} :
        /\ plans' = [r \in Req |-> IF r \in chosen THEN DemotionPlan(req[r]) ELSE NoPlan]
        /\ demotions' = demotions + Cardinality(chosen)
  BY DEF Plan
<1>2. UNCHANGED <<req, pool>>
  BY DEF Plan
<1>3. ASSUME demotions' = 0 PROVE demotions = 0 /\ \A r \in Req : plans'[r] = NoPlan
  <2>1. chosen \in SUBSET Req /\ IsFiniteSet(Req) /\ demotions \in Nat
    BY PrefixAssumption DEF CacheInv, Others
  <2>2. IsFiniteSet(chosen) /\ Cardinality(chosen) \in Nat
    BY <2>1, FS_Subset, FS_CardinalityType
  <2>3. demotions = 0 /\ Cardinality(chosen) = 0
    BY <1>1, <1>3, <2>1, <2>2
  <2>4. chosen = {}
    BY <2>2, <2>3, FS_EmptySet
  <2> QED BY <1>1, <2>3, <2>4
<1> QED BY <1>2, <1>3 DEF InOrder, ParentOutlives, UnhashedAhead, Outlives, Holding

(* A running request of the step is placed. *)
LEMMA RunNextOrder == CacheInv /\ InOrder /\ RunNext => InOrder'
<1> SUFFICES ASSUME CacheInv, InOrder, RunNext PROVE InOrder'
  OBVIOUS
<1> DEFINE r == running[Len(todo) + 1]
<1>1. /\ Fits(req[r], <<>>) /\ Place(r, <<>>) /\ plans' = plans /\ demotions' = demotions
      /\ Len(todo) < Len(running)
  BY DEF RunNext
<1>2. r \in Req /\ r \in Range(running)
  <2>1. /\ Len(todo) \in Nat /\ Len(running) \in Nat /\ DOMAIN running = 1 .. Len(running)
        /\ \A i \in DOMAIN running : running[i] \in Req
    BY LenProperties, ElementOfSeq DEF CacheInv, Queues
  <2>2. Len(todo) + 1 \in DOMAIN running
    BY <1>1, <2>1
  <2> QED BY <2>1, <2>2 DEF Range
<1> HIDE DEF r
<1>3. req[r].tokens # <<>> /\ HitsOf(req[r], <<>>)
  <2>1. req[r] \in RowType /\ RowOK(req[r]) /\ req[r].status = "RUNNING"
    BY <1>2 DEF CacheInv, Tables, Queues
  <2> QED BY <2>1, NoHits DEF RowOK
<1>4. PICK blocks \in Seq(Block \cup {NullBlock}) : Placed(r, <<>>, blocks)
  BY <1>1, <1>2, <1>3, PlaceOK
<1> QED BY <1>1, <1>2, <1>3, <1>4, PlaceOrder

(* A waiting request is placed. *)
LEMMA AdmitOrder == ASSUME NEW r \in Req, CacheInv, InOrder, Admit(r) PROVE InOrder'
<1>1. PICK hits \in Hits(req[r]) : Fits(req[r], hits) /\ Place(r, hits)
  BY DEF Admit
<1>2. plans' = plans /\ demotions' = demotions /\ req[r].status \in {"WAITING", "PREEMPTED"}
  BY DEF Admit, Waiting
<1>3. req[r] \in RowType /\ RowOK(req[r]) /\ req[r].tokens # <<>> /\ Tables
  BY <1>2 DEF CacheInv, Tables, RowOK
<1>4. HitsOf(req[r], hits)
  BY <1>3, HitsProperties
<1>5. PICK blocks \in Seq(Block \cup {NullBlock}) : Placed(r, hits, blocks)
  BY <1>1, <1>3, <1>4, PlaceOK
<1> QED BY <1>2, <1>4, <1>5, PlaceOrder

(* A preempted request gives its blocks back. *)
LEMMA PreemptLastOrder == CacheInv /\ InOrder /\ PreemptLast => InOrder'
<1> SUFFICES ASSUME CacheInv, InOrder, PreemptLast PROVE InOrder'
  OBVIOUS
<1> DEFINE r == Last(running)
<1>1. /\ pool' = Release(pool, req[r]) /\ req' = [req EXCEPT ![r] = Preempted(req[r])]
      /\ plans' = plans /\ demotions' = demotions /\ Len(todo) < Len(running)
  BY DEF PreemptLast
<1>2. r \in Req
  <2>1. /\ Len(todo) \in Nat /\ Len(running) \in Nat /\ DOMAIN running = 1 .. Len(running)
        /\ \A i \in DOMAIN running : running[i] \in Req
    BY LenProperties, ElementOfSeq DEF CacheInv, Queues
  <2>2. Len(running) \in DOMAIN running
    BY <1>1, <2>1
  <2> QED BY <2>1, <2>2 DEF Last
<1> HIDE DEF r
<1>3. req'[r].blocks = <<>> /\ \A s \in Req \ {r} : req'[s] = req[s]
  BY <1>1, <1>2 DEF Preempted, CacheInv, Tables, RowType
<1> QED BY <1>1, <1>2, <1>3, ReleaseOrder

(* A finished request gives its blocks back. *)
LEMMA FinishOrder ==
  ASSUME NEW r \in Req, CacheInv, InOrder, Finish(r), plans' = plans, demotions' = demotions
  PROVE  InOrder'
<1>1. /\ pool' = Release(pool, req[r]) /\ req' = [req EXCEPT ![r] = [Absent EXCEPT !.status = "GONE"]]
  BY DEF Finish
<1>2. req'[r].blocks = <<>> /\ \A s \in Req \ {r} : req'[s] = req[s]
  BY <1>1 DEF Absent, CacheInv, Tables
<1> QED BY <1>1, <1>2, ReleaseOrder

(* A request's output. *)
LEMMA SampleOrder ==
  ASSUME NEW t \in Token, NEW stop \in BOOLEAN, CacheInv, InOrder, Sample(t, stop) PROVE InOrder'
<1> DEFINE r == Head(todo)
           q == Hashed([req[r] EXCEPT !.tokens = Append(@, t)])
           idle == [q EXCEPT !.status = "IDLE"]
<1>1. todo # <<>> /\ plans' = plans /\ demotions' = demotions
  BY DEF Sample
<1>2. \/ req' = [req EXCEPT ![r] = q] /\ UNCHANGED pool
      \/ Finish(r)
      \/ req' = [req EXCEPT ![r] = idle] /\ UNCHANGED pool
  BY DEF Sample
<1>3. r \in Req /\ r \in Range(todo)
  <2>1. todo \in Seq(Req)
    BY DEF CacheInv, Queues
  <2>2. Len(todo) \in Nat /\ DOMAIN todo = 1 .. Len(todo) /\ Len(todo) # 0
    BY <1>1, <2>1, LenProperties, EmptySeq
  <2>3. 1 \in DOMAIN todo /\ r = todo[1]
    BY <2>2
  <2> QED BY <2>1, <2>3, ElementOfSeq, LenProperties DEF Range
<1> HIDE DEF r
<1>4. req[r] \in RowType /\ RowOK(req[r]) /\ req[r].status = "RUNNING" /\ req[r].computed = Len(req[r].tokens)
  BY <1>3 DEF CacheInv, Tables, Queues
<1>5. q.blocks = req[r].blocks /\ idle.blocks = req[r].blocks
  BY <1>4, SampledRow
<1> HIDE DEF q, idle
<1>6. CASE Finish(r)
  BY <1>1, <1>3, <1>6, FinishOrder
<1>7. CASE (req' = [req EXCEPT ![r] = q] \/ req' = [req EXCEPT ![r] = idle]) /\ UNCHANGED pool
  <2>1. \A s \in Req : req'[s].blocks = req[s].blocks
    BY <1>3, <1>5, <1>7 DEF CacheInv, Tables
  <2> QED BY <1>1, <1>7, <2>1, OrderKept
<1> QED BY <1>2, <1>6, <1>7

(* A demotion of a session ends the claim about whole chains; blocks       *)
(* without a hash stay ahead.                                              *)
LEMMA MoveDoneOrder == ASSUME NEW r \in Req, CacheInv, InOrder, MoveDone(r) PROVE InOrder'
<1> DEFINE q == req[r]
           plan == plans[r]
           moved == [i \in DOMAIN q.blocks |-> IF i \in DOMAIN plan THEN plan[i] ELSE NullBlock]
           away == {plan[i] : i \in DOMAIN plan}
           ids == Reverse(moved)
           p == Evicted(pool, away)
<1>1. demotions' = demotions /\ demotions # 0
  BY DEF MoveDone, Pending, InOrder
<1>2. SUFFICES UnhashedAhead(pool')
  BY <1>1 DEF InOrder
<1>3. CASE CommitOK(q, plan)
  <2>1. pool' = Freed(p, ids)
    BY <1>3 DEF MoveDone
  <2>2. /\ Tables /\ q \in RowType /\ RowOK(q) /\ PoolOK(pool)
        /\ \A i \in DOMAIN plan : plan[i] \in Block
    BY DEF CacheInv, Tables, Others
  <2>3. /\ q.blocks \in Seq(Block \cup {NullBlock}) /\ Len(q.blocks) \in Nat /\ DOMAIN q.blocks = 1 .. Len(q.blocks)
        /\ \A i, j \in DOMAIN q.blocks : q.blocks[i] = q.blocks[j] /\ q.blocks[i] \in Block => i = j
    BY <2>2, RowBounds DEF RowOK
  <2>4. \A i \in DOMAIN plan : i \in DOMAIN q.blocks /\ q.blocks[i] = plan[i] /\ pool.ref[plan[i]] = 1
    BY <1>3 DEF CommitOK
  <2>5. NullBlock \notin Block
    BY DEF NullBlock, Block
  <2> HIDE DEF q, plan
  <2>6. /\ moved \in Seq(Block \cup {NullBlock}) /\ DOMAIN moved = DOMAIN q.blocks
        /\ \A i \in DOMAIN moved : moved[i] = IF i \in DOMAIN plan THEN plan[i] ELSE NullBlock
    <3>1. moved \in [1 .. Len(q.blocks) -> Block \cup {NullBlock}]
      BY <2>2, <2>3
    <3> QED BY <2>3, <3>1
  <2> HIDE DEF moved
  <2>7. \A i, j \in DOMAIN moved : moved[i] = moved[j] /\ moved[i] \in Block => i = j
    <3> SUFFICES ASSUME NEW i \in DOMAIN moved, NEW j \in DOMAIN moved,
                        moved[i] = moved[j], moved[i] \in Block
                 PROVE  i = j
      OBVIOUS
    <3>1. i \in DOMAIN plan /\ j \in DOMAIN plan /\ plan[i] = plan[j] /\ plan[i] \in Block
      BY <2>5, <2>6
    <3> QED BY <2>3, <2>4, <3>1
  <2>8. /\ ids \in Seq(Block \cup {NullBlock}) /\ Range(ids) = Range(moved)
        /\ \A i, j \in DOMAIN ids : ids[i] = ids[j] /\ ids[i] \in Block => i = j
    BY <2>6, <2>7, ReverseProperties
  <2>9. away \in SUBSET Block /\ \A b \in away : pool.ref[b] = 1
    BY <2>2, <2>4
  <2>10. \A i \in DOMAIN ids : ids[i] \in Block => pool.ref[ids[i]] > 0
    <3> SUFFICES ASSUME NEW x \in Range(moved), x \in Block PROVE pool.ref[x] > 0
      BY <2>8 DEF Range
    <3>1. PICK i \in DOMAIN moved : moved[i] = x
      BY DEF Range
    <3>2. i \in DOMAIN plan /\ plan[i] = x
      BY <2>5, <2>6, <3>1
    <3> QED BY <2>4, <3>2
  <2> HIDE DEF away, ids
  <2>11. /\ PoolOK(p) /\ p.ref = pool.ref /\ p.queue = pool.queue
         /\ \A b \in Block : p.hash[b] = IF b \in away THEN NoHash ELSE pool.hash[b]
    BY <2>2, <2>9, EvictedProperties
  <2> HIDE DEF p
  <2>12. UnhashedAhead(p)
    <3>1. \A i \in DOMAIN pool.queue : pool.queue[i] \in Block /\ pool.queue[i] \notin away
      <4> TAKE i \in DOMAIN pool.queue
      <4>1. pool.queue[i] \in Range(pool.queue) /\ Range(pool.queue) \subseteq Block
        BY <2>2, RangeOfSeq DEF PoolOK, PoolType, Range
      <4>2. pool.ref[pool.queue[i]] = 0
        BY <2>2, <4>1 DEF PoolOK
      <4> QED BY <2>9, <4>1, <4>2
    <3> QED BY <2>11, <3>1 DEF InOrder, UnhashedAhead
  <2> QED BY <2>1, <2>8, <2>10, <2>11, <2>12, FreedProperties
<1>4. CASE ~ CommitOK(q, plan)
  BY <1>4 DEF MoveDone, InOrder
<1> QED BY <1>3, <1>4

(* Every step keeps the order. *)
LEMMA OrderNext == CacheInv /\ InOrder /\ [CacheNext]_cacheVars => InOrder'
<1> SUFFICES ASSUME CacheInv, InOrder, [CacheNext]_cacheVars PROVE InOrder'
  OBVIOUS
<1>1. CASE Plan \/ RunNext \/ PreemptLast
  BY <1>1, PlanOrder, RunNextOrder, PreemptLastOrder
<1>2. CASE Execute
  BY <1>2, OrderKept DEF Execute
<1>3. CASE ResetPrefixCache
  <2>1. pool' = Evicted(pool, Block) /\ UNCHANGED <<req, plans, demotions>> /\ PoolOK(pool)
    BY <1>3 DEF ResetPrefixCache, CacheInv, Tables
  <2>2. PoolOK(pool') /\ \A b \in Block : pool'.hash[b] = NoHash
    BY <2>1, EvictedProperties
  <2>3. Range(pool'.queue) \subseteq Block /\ \A i \in DOMAIN pool'.queue : pool'.queue[i] \in Block
    BY <2>2, RangeOfSeq DEF PoolOK, PoolType, Range
  <2>4. Len(NoHash) = 0 /\ BlockSize \in Nat
    BY EmptySeq, Sizes DEF NoHash
  <2>5. \A b \in Block : ~ (Len(pool'.hash[b]) > BlockSize)
    BY <2>2, <2>4
  <2>6. UnhashedAhead(pool')
    BY <2>2, <2>3 DEF UnhashedAhead
  <2>7. ParentOutlives(pool')
    BY <2>3, <2>5 DEF ParentOutlives
  <2> QED BY <2>1, <2>6, <2>7 DEF InOrder
<1>4. ASSUME NEW r \in Req, Admit(r) \/ MoveDone(r) PROVE InOrder'
  BY <1>4, AdmitOrder, MoveDoneOrder
<1>5. ASSUME NEW r \in Req, MoveRefused(r) PROVE InOrder'
  <2>1. demotions' = demotions /\ demotions # 0 /\ pool' = pool
    BY <1>5 DEF MoveRefused, Pending, InOrder
  <2> QED BY <2>1 DEF InOrder, UnhashedAhead
<1>6. ASSUME NEW r \in Req, Close(r) PROVE InOrder'
  BY <1>6, FinishOrder DEF Close
<1>7. ASSUME NEW t \in Token, NEW stop \in BOOLEAN, Sample(t, stop) PROVE InOrder'
  BY <1>7, SampleOrder
<1>8. ASSUME NEW r \in Req, NEW p \in FirstPrompts, Arrive(r, p) PROVE InOrder'
  <2>1. /\ req' = [req EXCEPT ![r] = Arrived(p)] /\ UNCHANGED <<pool, plans, demotions>>
    BY <1>8 DEF Arrive
  <2>2. Arrived(p).blocks = <<>> /\ Range(<<>>) = {}
    BY ArrivedRow, EmptySeq DEF Range
  <2>3. \A s \in Req : NullBlock \in Range(req'[s].blocks) => NullBlock \in Range(req[s].blocks)
    BY <2>1, <2>2 DEF CacheInv, Tables
  <2> QED BY <2>1, <2>3, OrderKept
<1>9. ASSUME NEW r \in Req, NEW p \in TurnPrompts, NextTurn(r, p) PROVE InOrder'
  <2>1. /\ req' = [req EXCEPT ![r] = Resumed(req[r], p)] /\ UNCHANGED <<pool, plans, demotions>>
        /\ req[r].status = "IDLE"
    BY <1>9 DEF NextTurn, Resumed
  <2>2. Resumed(req[r], p).blocks = req[r].blocks
    BY <2>1, ResumedRow DEF CacheInv, Tables
  <2>3. \A s \in Req : NullBlock \in Range(req'[s].blocks) => NullBlock \in Range(req[s].blocks)
    BY <2>1, <2>2 DEF CacheInv, Tables
  <2> QED BY <2>1, <2>3, OrderKept
<1>10. CASE UNCHANGED cacheVars
  BY <1>10, OrderKept DEF cacheVars
<1> QED BY <1>1, <1>2, <1>3, <1>4, <1>5, <1>6, <1>7, <1>8, <1>9, <1>10 DEF CacheNext

(* The initial states have it. *)
LEMMA OrderInit == CacheInit => InOrder
<1> SUFFICES ASSUME CacheInit PROVE InOrder
  OBVIOUS
<1>1. /\ req = [r \in Req |-> Absent] /\ pool = NewPool /\ plans = [r \in Req |-> NoPlan]
  BY DEF CacheInit
<1>2. PoolOK(NewPool)
  BY NewPoolOK
<1>3. Range(NewPool.queue) \subseteq Block /\ \A i \in DOMAIN NewPool.queue : NewPool.queue[i] \in Block
  BY <1>2, RangeOfSeq DEF PoolOK, PoolType, Range
<1>4. \A b \in Block : NewPool.hash[b] = NoHash
  BY DEF NewPool
<1>5. Len(NoHash) = 0 /\ BlockSize \in Nat /\ Absent.blocks = <<>> /\ Range(<<>>) = {}
  BY EmptySeq, Sizes DEF NoHash, Absent, Range
<1>6. \A b \in Block : ~ (Len(NewPool.hash[b]) > BlockSize)
  BY <1>4, <1>5
<1>7. UnhashedAhead(pool) /\ ParentOutlives(pool)
  BY <1>1, <1>3, <1>4, <1>6 DEF UnhashedAhead, ParentOutlives
<1> QED BY <1>1, <1>5, <1>7 DEF InOrder

(* Blocks no hash finds are reused before any cached one, and a chain is   *)
(* only ever shortened at its end while nothing was demoted.               *)
THEOREM EvictionInOrderHolds == CacheSpec => []EvictionInOrder
<1>1. CacheSpec => []InOrder
  BY CacheInvariant, OrderInit, OrderNext, PTL DEF CacheSpec
<1> QED BY <1>1, CacheInvariant, InOrderSuffices, PTL
-----------------------------------------------------------------------------
(* Whose tokens the blocks hold, when no turn ends with a token that would *)
(* complete a block: a row's hashes stand for its own tokens, its blocks   *)
(* hold them as far as they are computed, and a block found by a hash      *)
(* holds what the hash stands for.                                         *)
OwnContent ==
  /\ \A r \in Req : HashesOf(req[r].hashes, req[r].tokens)
  /\ HistoryIsOwn /\ HashNamesContent

(* A turn that may not end with a full block: the token that the next turn *)
(* drops is in no hashed block.                                            *)
LEMMA NotAligned ==
  ASSUME NEW n \in Nat, n % BlockSize # 0 PROVE Ends(n \div BlockSize) < n
<1>1. BlockSize \in Nat \ {0}
  BY Sizes
<1>2. n \div BlockSize \in Int /\ n % BlockSize \in 0 .. BlockSize - 1
      /\ n = BlockSize * (n \div BlockSize) + (n % BlockSize)
  BY <1>1
<1> DEFINE k == n \div BlockSize
<1>3. k \in Nat
  BY QuotientProperties
<1>4. n % BlockSize >= 1 /\ n % BlockSize \in Nat /\ n = BlockSize * k + (n % BlockSize)
  BY <1>1, <1>2
<1> HIDE DEF k
<1>5. BlockSize * k = Ends(k) /\ Ends(k) \in Nat
  BY <1>1, <1>3, EndsNat DEF Ends
<1>6. Ends(k) < n
  BY <1>4, <1>5
<1> QED BY <1>6 DEF k

(* What a row's blocks hold, as HistoryIsOwn has it. *)
LEMMA HistoryOf ==
  ASSUME HistoryIsOwn, NEW r \in Req, NEW i \in DOMAIN req[r].blocks, req[r].blocks[i] \in Block
  PROVE  content[req[r].blocks[i]] = Prefix(req[r].tokens, Smaller(Ends(i), req[r].computed))
<1>1. req[r].blocks[i] # NullBlock
  BY DEF NullBlock, Block
<1> QED BY <1>1 DEF HistoryIsOwn, Ends

(* A row with other tokens, and no other blocks, that agrees with the old  *)
(* one as far as its blocks are computed.                                  *)
LEMMA ContentKept ==
  ASSUME CacheInv, OwnContent, NEW r \in Req, NEW q, req' = [req EXCEPT ![r] = q],
         HashesOf(q.hashes, q.tokens),
         \A i \in DOMAIN q.blocks : q.blocks[i] # NullBlock =>
           /\ i \in DOMAIN req[r].blocks /\ q.blocks[i] = req[r].blocks[i]
           /\ Prefix(q.tokens, Smaller(Ends(i), q.computed))
                = Prefix(req[r].tokens, Smaller(Ends(i), req[r].computed)),
         content' = content,
         \A b \in Block : pool'.hash[b] = pool.hash[b] \/ pool'.hash[b] = NoHash
  PROVE  OwnContent'
<1>1. \A s \in Req : req'[s] = IF s = r THEN q ELSE req[s]
  BY DEF CacheInv, Tables
<1>2. HashNamesContent'
  BY DEF OwnContent, HashNamesContent
<1>3. \A s \in Req : HashesOf(req'[s].hashes, req'[s].tokens)
  BY <1>1 DEF OwnContent
<1>4. HistoryIsOwn'
  <2> SUFFICES ASSUME NEW s \in Req, NEW i \in DOMAIN req'[s].blocks, req'[s].blocks[i] # NullBlock
               PROVE  content[req'[s].blocks[i]] =
                        Prefix(req'[s].tokens, Smaller(Ends(i), req'[s].computed))
    BY DEF HistoryIsOwn, Ends
  <2>1. CASE s # r
    BY <1>1, <2>1 DEF OwnContent, HistoryIsOwn, Ends
  <2>2. CASE s = r
    <3>1. req'[s] = q
      BY <1>1, <2>2
    <3>2. content[req[r].blocks[i]] = Prefix(req[r].tokens, Smaller(Ends(i), req[r].computed))
      BY <3>1 DEF OwnContent, HistoryIsOwn, Ends
    <3> QED BY <3>1, <3>2
  <2> QED BY <2>1, <2>2
<1> QED BY <1>2, <1>3, <1>4 DEF OwnContent

(* Placing a request: the hits hold its tokens because its hashes are of   *)
(* them, and the worker writes the rest.                                   *)
LEMMA PlaceContent ==
  ASSUME CacheInv, OwnContent, NEW r \in Req, NEW hits, HitsOf(req[r], hits),
         NEW blocks \in Seq(Block \cup {NullBlock}), Placed(r, hits, blocks),
         content' \in [Block -> Seq(Token)]
  PROVE  OwnContent'
<1> DEFINE q == req[r]
           own == Len(q.blocks)
           h == Len(hits)
           L == Len(q.tokens)
           m == Len(q.blocks) + Len(hits)
           full == Len(q.tokens) \div BlockSize
<1>1. /\ \A i \in 1 .. own : blocks[i] = q.blocks[i]
      /\ \A i \in 1 .. h : blocks[i] = hits[i]
      /\ hits # <<>> => q.blocks = <<>>
      /\ \A i \in m + 1 .. Len(blocks) : blocks[i] \in Block /\ pool.ref[blocks[i]] = 0
      /\ \A b \in Block : b \notin Range(blocks) => pool'.hash[b] = pool.hash[b] /\ content'[b] = content[b]
      /\ \A i \in DOMAIN blocks : blocks[i] \in Block =>
           /\ pool'.hash[blocks[i]] = IF i <= full THEN q.hashes[i] ELSE NoHash
           /\ content'[blocks[i]] = IF Ends(i) > q.computed + Ends(h)
                                    THEN Prefix(q.tokens, Ends(i)) ELSE content[blocks[i]]
  BY DEF Placed
<1>2. req' = [req EXCEPT ![r] = [q EXCEPT !.status = "RUNNING", !.blocks = blocks,
                                          !.computed = L, !.cached = full]]
  BY DEF Placed
<1>3. /\ Tables /\ PoolOK(pool) /\ req \in [Req -> RowType]
      /\ q \in RowType /\ RowOK(q) /\ RowCached(q, pool)
      /\ HistoryIsOwn /\ HashNamesContent /\ HashesOf(q.hashes, q.tokens)
  BY DEF CacheInv, Tables, OwnContent
<1>4. /\ own \in Nat /\ DOMAIN q.blocks = 1 .. own /\ h \in Nat /\ DOMAIN hits = 1 .. h
      /\ hits \in Seq(Block) /\ L \in Nat /\ q.tokens \in Seq(Token) /\ q.computed \in Nat
      /\ q.cached \in Nat /\ q.cached <= own /\ q.computed <= Ends(own) /\ Ends(q.cached) <= q.computed
      /\ Len(blocks) \in Nat /\ DOMAIN blocks = 1 .. Len(blocks)
      /\ \A i \in 1 .. h : hits[i] \in Block
      /\ h <= Len(q.hashes) /\ DOMAIN q.hashes = 1 .. Len(q.hashes) /\ Len(q.hashes) = full /\ full \in Nat
      /\ \A i \in 1 .. h : pool.hash[hits[i]] = q.hashes[i]
      /\ hits # <<>> => q.computed = 0
  <2>1. h \in Nat /\ DOMAIN hits = 1 .. h /\ hits \in Seq(Block) /\ Len(blocks) \in Nat
        /\ DOMAIN blocks = 1 .. Len(blocks) /\ \A i \in 1 .. h : hits[i] \in Block
    BY LenProperties, ElementOfSeq DEF HitsOf
  <2>2. /\ own \in Nat /\ DOMAIN q.blocks = 1 .. own /\ L \in Nat /\ q.tokens \in Seq(Token)
        /\ q.computed \in Nat /\ q.cached \in Nat /\ q.cached <= own /\ q.computed <= Ends(own)
        /\ DOMAIN q.hashes = 1 .. Len(q.hashes) /\ Len(q.hashes) \in Nat
    BY <1>3, RowBounds
  <2>3. Len(q.hashes) = full /\ Ends(q.cached) <= q.computed
    BY <1>3 DEF RowOK
  <2> QED BY <2>1, <2>2, <2>3 DEF HitsOf
<1>5. (hits # <<>> => own = 0) /\ (hits = <<>> => h = 0) /\ m = own + h
  BY <1>1, EmptySeq
<1> HIDE DEF own, h, L, m, full
<1>6. \A i \in DOMAIN blocks : i \in 1 .. own \/ i \in m + 1 .. Len(blocks) \/ (i \in 1 .. h)
  BY <1>4, <1>5
<1>7. \A i \in DOMAIN q.hashes : q.hashes[i] = Prefix(q.tokens, Ends(i))
  BY <1>3 DEF HashesOf
<1>8. \A i \in DOMAIN q.blocks : q.blocks[i] \in Block =>
        content[q.blocks[i]] = Prefix(q.tokens, Smaller(Ends(i), q.computed))
  BY <1>3, HistoryOf
\* Every block of the row holds the row's tokens now.
<1>9. ASSUME NEW i \in DOMAIN blocks, blocks[i] \in Block
      PROVE  content'[blocks[i]] = Prefix(q.tokens, Ends(i))
  <2>1. i \in Nat /\ Ends(i) \in Nat /\ Ends(h) \in Nat /\ Ends(own) \in Nat
    <3>1. i \in Nat /\ h \in Nat /\ own \in Nat
      BY <1>4
    <3> QED BY <3>1, EndsNat
  <2>2. CASE Ends(i) > q.computed + Ends(h)
    BY <1>1, <1>9, <2>2
  <2>3. CASE Ends(i) <= q.computed + Ends(h)
    <3>1. content'[blocks[i]] = content[blocks[i]]
      <4>1. ~ (Ends(i) > q.computed + Ends(h))
        BY <1>4, <2>1, <2>3
      <4> QED BY <1>1, <1>9, <4>1
    <3>2. CASE i \in 1 .. own
      <4>1. h = 0
        BY <1>4, <1>5, <3>2
      <4>2. Ends(h) = 0
        BY <4>1, EndsNat
      <4>3. Smaller(Ends(i), q.computed) = Ends(i)
        BY <1>4, <2>1, <2>3, <4>2 DEF Smaller
      <4>4. i \in DOMAIN q.blocks /\ blocks[i] = q.blocks[i]
        BY <1>1, <1>4, <3>2
      <4> HIDE DEF q
      <4> QED BY <1>8, <1>9, <3>1, <4>3, <4>4
    <3>3. CASE i \in 1 .. h
      <4>1. i \in DOMAIN q.hashes
        BY <1>4, <3>3
      <4>2. q.hashes[i] # NoHash
        BY <1>3, <4>1, HashesNotEmpty
      <4>3. pool.hash[blocks[i]] = q.hashes[i] /\ blocks[i] = hits[i]
        BY <1>1, <1>4, <3>3
      <4>4. content[blocks[i]] = pool.hash[blocks[i]]
        BY <1>3, <1>9, <4>2, <4>3 DEF HashNamesContent
      <4> QED BY <1>7, <3>1, <4>1, <4>3, <4>4
    <3>4. CASE i \in m + 1 .. Len(blocks)
      <4>1. CASE hits = <<>>
        <5>1. own < i /\ Ends(h) = 0
          BY <1>4, <1>5, <2>1, <3>4, <4>1, EndsNat
        <5>2. Ends(own) < Ends(i)
          BY <1>4, <2>1, <5>1, EndsOrder
        <5> QED BY <1>4, <2>1, <2>3, <5>1, <5>2
      <4>2. CASE hits # <<>>
        <5>1. h < i /\ q.computed = 0
          BY <1>4, <1>5, <2>1, <3>4, <4>2
        <5>2. Ends(h) < Ends(i)
          BY <1>4, <2>1, <5>1, EndsOrder
        <5> QED BY <1>4, <2>1, <2>3, <5>1, <5>2
      <4> QED BY <4>1, <4>2
    <3> QED BY <1>6, <3>2, <3>3, <3>4
  <2> QED BY <1>4, <2>1, <2>2, <2>3
<1>10. HashNamesContent'
  <2> SUFFICES ASSUME NEW b \in Block, pool'.hash[b] # NoHash PROVE content'[b] = pool'.hash[b]
    BY DEF HashNamesContent
  <2>1. CASE b \notin Range(blocks)
    BY <1>1, <1>3, <2>1 DEF HashNamesContent
  <2>2. CASE b \in Range(blocks)
    <3>1. PICK i \in DOMAIN blocks : blocks[i] = b
      BY <2>2 DEF Range
    <3>2. i <= full /\ pool'.hash[b] = q.hashes[i]
      BY <1>1, <3>1
    <3>3. i \in DOMAIN q.hashes
      BY <1>4, <3>2
    <3> QED BY <1>7, <1>9, <3>1, <3>2, <3>3
  <2> QED BY <2>1, <2>2
\* A block of another row that the row lists too is not written.
<1>11. ASSUME NEW s \in Req, s # r, NEW b \in Range(req[s].blocks), b \in Block
       PROVE  content'[b] = content[b]
  <2>1. CASE b \notin Range(blocks)
    BY <1>1, <1>11, <2>1
  <2>2. CASE b \in Range(blocks)
    <3>1. PICK i \in DOMAIN blocks : blocks[i] = b
      BY <2>2 DEF Range
    <3>2. pool.ref[b] > 0
      BY <1>3, <1>11, HeldBlocks
    <3>3. i \in Nat /\ Ends(i) \in Nat /\ Ends(h) \in Nat /\ Ends(q.cached) \in Nat
      <4>1. i \in Nat /\ h \in Nat /\ q.cached \in Nat
        BY <1>4
      <4> HIDE DEF q
      <4> QED BY <4>1, EndsNat
    <3>4. Ends(i) <= q.computed + Ends(h)
      <4>1. CASE i \in 1 .. own
        <5>1. i \in DOMAIN q.blocks /\ q.blocks[i] = b
          BY <1>1, <1>4, <3>1, <4>1
        <5>2. b \in Range(q.blocks)
          BY <5>1 DEF Range
        <5>3. pool.ref[b] # 1
          <6> HIDE DEF q
          <6> QED BY <1>3, <1>11, <5>2, HeldBlocks DEF q
        <5>4. i <= q.cached
          <6> HIDE DEF q
          <6> QED BY <1>3, <1>11, <5>1, <5>3 DEF RowCached
        <5>5. Ends(i) <= Ends(q.cached)
          BY <1>4, <3>3, <5>4, EndsOrder
        <5> QED BY <1>4, <3>3, <5>5
      <4>2. CASE i \in 1 .. h
        <5>1. Ends(i) <= Ends(h)
          BY <1>4, <3>3, <4>2, EndsOrder
        <5> QED BY <1>4, <3>3, <5>1
      <4>3. CASE i \in m + 1 .. Len(blocks)
        BY <1>1, <3>1, <3>2, <4>3
      <4> QED BY <1>6, <4>1, <4>2, <4>3
    <3>5. ~ (Ends(i) > q.computed + Ends(h))
      BY <1>4, <3>3, <3>4
    <3> QED BY <1>1, <1>11, <3>1, <3>5
  <2> QED BY <2>1, <2>2
<1>12. HistoryIsOwn'
  <2> SUFFICES ASSUME NEW s \in Req, NEW i \in DOMAIN req'[s].blocks, req'[s].blocks[i] # NullBlock
               PROVE  content'[req'[s].blocks[i]] =
                        Prefix(req'[s].tokens, Smaller(Ends(i), req'[s].computed))
    BY DEF HistoryIsOwn, Ends
  <2>1. CASE s # r
    <3>1. req'[s] = req[s]
      BY <1>2, <1>3, <2>1
    <3>2. req[s].blocks[i] \in Range(req[s].blocks) /\ req[s].blocks[i] \in Block
      <4>1. req[s].blocks \in Seq(Block \cup {NullBlock}) /\ i \in DOMAIN req[s].blocks
        BY <1>3, <3>1 DEF RowType
      <4>2. req[s].blocks[i] \in Block \cup {NullBlock}
        BY <4>1, ElementOfSeq, LenProperties
      <4> QED BY <3>1, <4>1, <4>2 DEF Range
    <3>3. content'[req[s].blocks[i]] = content[req[s].blocks[i]]
      BY <1>11, <2>1, <3>2
    <3>4. content[req[s].blocks[i]] = Prefix(req[s].tokens, Smaller(Ends(i), req[s].computed))
      BY <1>3, <3>1, <3>2, HistoryOf
    <3> QED BY <3>1, <3>3, <3>4
  <2>2. CASE s = r
    <3>1. req'[s].blocks = blocks /\ req'[s].tokens = q.tokens /\ req'[s].computed = L
      BY <1>2, <1>3, <2>2 DEF RowType
    <3>2. blocks[i] \in Block /\ i \in DOMAIN blocks
      <4>1. blocks[i] \in Block \cup {NullBlock}
        BY <3>1, ElementOfSeq, LenProperties
      <4> QED BY <3>1, <4>1
    <3>3. content'[blocks[i]] = Prefix(q.tokens, Ends(i))
      BY <1>9, <3>2
    <3>4. Prefix(q.tokens, Smaller(Ends(i), L)) = Prefix(q.tokens, Ends(i))
      <4>1. i \in Nat /\ Ends(i) \in Nat
        BY <1>4, <3>2, EndsNat
      <4>2. Smaller(Smaller(Ends(i), L), L) = Smaller(Ends(i), L)
        BY <1>4, <4>1 DEF Smaller
      <4> QED BY <4>2 DEF Prefix, L
    <3> QED BY <3>1, <3>3, <3>4
  <2> QED BY <2>1, <2>2
<1>13. \A s \in Req : HashesOf(req'[s].hashes, req'[s].tokens)
  <2>1. \A s \in Req : req'[s].hashes = req[s].hashes /\ req'[s].tokens = req[s].tokens
    BY <1>2, <1>3 DEF RowType
  <2> QED BY <2>1 DEF OwnContent
<1> QED BY <1>10, <1>12, <1>13 DEF OwnContent

(* A running request of the step is placed. *)
LEMMA RunNextContent == CacheInv /\ OwnContent /\ RunNext => OwnContent'
<1> SUFFICES ASSUME CacheInv, OwnContent, RunNext PROVE OwnContent'
  OBVIOUS
<1> DEFINE r == running[Len(todo) + 1]
<1>1. Fits(req[r], <<>>) /\ Place(r, <<>>) /\ Len(todo) < Len(running)
  BY DEF RunNext
<1>2. r \in Req /\ r \in Range(running)
  <2>1. /\ Len(todo) \in Nat /\ Len(running) \in Nat /\ DOMAIN running = 1 .. Len(running)
        /\ \A i \in DOMAIN running : running[i] \in Req
    BY LenProperties, ElementOfSeq DEF CacheInv, Queues
  <2>2. Len(todo) + 1 \in DOMAIN running
    BY <1>1, <2>1
  <2> QED BY <2>1, <2>2 DEF Range
<1> HIDE DEF r
<1>3. req[r].tokens # <<>> /\ HitsOf(req[r], <<>>)
  <2>1. req[r] \in RowType /\ RowOK(req[r]) /\ req[r].status = "RUNNING"
    BY <1>2 DEF CacheInv, Tables, Queues
  <2> QED BY <2>1, NoHits DEF RowOK
<1>4. /\ content' \in [Block -> Seq(Token)]
      /\ \E blocks \in Seq(Block \cup {NullBlock}) : Placed(r, <<>>, blocks)
  BY <1>1, <1>2, <1>3, PlaceOK
<1> QED BY <1>2, <1>3, <1>4, PlaceContent

(* A waiting request is placed. *)
LEMMA AdmitContent == ASSUME NEW r \in Req, CacheInv, OwnContent, Admit(r) PROVE OwnContent'
<1>1. PICK hits \in Hits(req[r]) : Fits(req[r], hits) /\ Place(r, hits)
  BY DEF Admit
<1>2. req[r].status \in {"WAITING", "PREEMPTED"}
  BY DEF Admit, Waiting
<1>3. req[r] \in RowType /\ RowOK(req[r]) /\ req[r].tokens # <<>> /\ Tables
  BY <1>2 DEF CacheInv, Tables, RowOK
<1>4. HitsOf(req[r], hits)
  BY <1>3, HitsProperties
<1>5. /\ content' \in [Block -> Seq(Token)]
      /\ \E blocks \in Seq(Block \cup {NullBlock}) : Placed(r, hits, blocks)
  BY <1>1, <1>3, <1>4, PlaceOK
<1> QED BY <1>4, <1>5, PlaceContent

(* A preempted request keeps its tokens and hashes, and no block. *)
LEMMA PreemptLastContent == CacheInv /\ OwnContent /\ PreemptLast => OwnContent'
<1> SUFFICES ASSUME CacheInv, OwnContent, PreemptLast PROVE OwnContent'
  OBVIOUS
<1> DEFINE r == Last(running)
           q == Preempted(req[r])
<1>1. /\ pool' = Release(pool, req[r]) /\ req' = [req EXCEPT ![r] = q]
      /\ content' = content /\ Len(todo) < Len(running)
  BY DEF PreemptLast
<1>2. r \in Req
  <2>1. /\ Len(todo) \in Nat /\ Len(running) \in Nat /\ DOMAIN running = 1 .. Len(running)
        /\ \A i \in DOMAIN running : running[i] \in Req
    BY LenProperties, ElementOfSeq DEF CacheInv, Queues
  <2>2. Len(running) \in DOMAIN running
    BY <1>1, <2>1
  <2> QED BY <2>1, <2>2 DEF Last
<1> HIDE DEF r
<1>3. q.blocks = <<>> /\ q.hashes = req[r].hashes /\ q.tokens = req[r].tokens
  BY <1>2 DEF Preempted, CacheInv, Tables, RowType
<1> HIDE DEF q
<1>4. pool'.hash = pool.hash
  BY <1>1 DEF Release, Freed
<1>5. HashesOf(q.hashes, q.tokens)
  BY <1>2, <1>3 DEF OwnContent
<1>6. DOMAIN q.blocks = {}
  BY <1>3, EmptySeq
<1> QED BY <1>1, <1>2, <1>4, <1>5, <1>6, ContentKept

(* So does one that ends. *)
LEMMA FinishContent ==
  ASSUME NEW r \in Req, CacheInv, OwnContent, Finish(r), content' = content PROVE OwnContent'
<1> DEFINE q == [Absent EXCEPT !.status = "GONE"]
<1>1. pool' = Release(pool, req[r]) /\ req' = [req EXCEPT ![r] = q]
  BY DEF Finish
<1>2. q.blocks = <<>> /\ q.hashes = <<>> /\ DOMAIN <<>> = {}
  BY EmptySeq DEF Absent
<1> HIDE DEF q
<1>3. pool'.hash = pool.hash
  BY <1>1 DEF Release, Freed
<1>4. HashesOf(q.hashes, q.tokens)
  BY <1>2 DEF HashesOf
<1> QED BY <1>1, <1>2, <1>3, <1>4, ContentKept

(* A demoted session loses blocks, never the tokens of those it keeps. *)
LEMMA MoveDoneContent == ASSUME NEW r \in Req, CacheInv, OwnContent, MoveDone(r) PROVE OwnContent'
<1> DEFINE q == req[r]
           plan == plans[r]
           left == [i \in DOMAIN q.blocks |-> IF i \in DOMAIN plan THEN NullBlock ELSE q.blocks[i]]
           away == {plan[i] : i \in DOMAIN plan}
           new == [q EXCEPT !.kv = "WARM", !.blocks = left]
<1>1. content' = content
  BY DEF MoveDone
<1>2. q \in RowType /\ PoolOK(pool) /\ HashesOf(q.hashes, q.tokens) /\ req \in [Req -> RowType]
      /\ \A i \in DOMAIN plan : plan[i] \in Block
  BY DEF CacheInv, Tables, Others, OwnContent
<1>3. CASE CommitOK(q, plan)
  <2>1. /\ \E ids : pool' = Freed(Evicted(pool, away), ids)
        /\ req' = [req EXCEPT ![r].kv = "WARM", ![r].blocks =
                     [i \in DOMAIN @ |-> IF i \in DOMAIN plan THEN NullBlock ELSE @[i]]]
    BY <1>3 DEF MoveDone
  <2>2. req' = [req EXCEPT ![r] = new]
    BY <1>2, <2>1 DEF RowType
  <2>3. new.blocks = left /\ new.hashes = q.hashes /\ new.tokens = q.tokens /\ new.computed = q.computed
    BY <1>2 DEF RowType
  <2>4. pool'.hash = Evicted(pool, away).hash
    <3>1. \A p, ids : Freed(p, ids).hash = p.hash
      BY DEF Freed
    <3>2. PICK ids : pool' = Freed(Evicted(pool, away), ids)
      BY <2>1
    <3> QED BY <3>1, <3>2
  <2>5. away \in SUBSET Block
    BY <1>2
  <2>6. \A i \in DOMAIN left : left[i] # NullBlock => i \in DOMAIN q.blocks /\ left[i] = q.blocks[i]
    OBVIOUS
  <2> HIDE DEF new, left, away, plan
  <2>7. \A b \in Block : pool'.hash[b] = pool.hash[b] \/ pool'.hash[b] = NoHash
    BY <1>2, <2>4, <2>5, EvictedProperties
  <2>8. HashesOf(new.hashes, new.tokens)
    BY <1>2, <2>3
  <2>9. \A i \in DOMAIN new.blocks : new.blocks[i] # NullBlock =>
          /\ i \in DOMAIN q.blocks /\ new.blocks[i] = q.blocks[i]
          /\ Prefix(new.tokens, Smaller(Ends(i), new.computed)) = Prefix(q.tokens, Smaller(Ends(i), q.computed))
    BY <2>3, <2>6
  <2> QED BY <1>1, <2>2, <2>7, <2>8, <2>9, ContentKept
<1>4. CASE ~ CommitOK(q, plan)
  BY <1>1, <1>4 DEF MoveDone, OwnContent, HistoryIsOwn, HashNamesContent
<1> QED BY <1>3, <1>4

(* A sampled token changes no prefix that is computed or hashed. *)
LEMMA SampleContent ==
  ASSUME NEW t \in Token, NEW stop \in BOOLEAN, CacheInv, OwnContent, Sample(t, stop) PROVE OwnContent'
<1> DEFINE r == Head(todo)
           q == Hashed([req[r] EXCEPT !.tokens = Append(@, t)])
           idle == [q EXCEPT !.status = "IDLE"]
<1>1. todo # <<>> /\ content' = content
  BY DEF Sample
<1>2. \/ req' = [req EXCEPT ![r] = q] /\ UNCHANGED pool
      \/ Finish(r)
      \/ req' = [req EXCEPT ![r] = idle] /\ UNCHANGED pool
  BY DEF Sample
<1>3. r \in Req /\ r \in Range(todo)
  <2>1. todo \in Seq(Req)
    BY DEF CacheInv, Queues
  <2>2. Len(todo) \in Nat /\ DOMAIN todo = 1 .. Len(todo) /\ Len(todo) # 0
    BY <1>1, <2>1, LenProperties, EmptySeq
  <2>3. 1 \in DOMAIN todo /\ r = todo[1]
    BY <2>2
  <2> QED BY <2>1, <2>3, ElementOfSeq, LenProperties DEF Range
<1> HIDE DEF r
<1>4. /\ req[r] \in RowType /\ RowOK(req[r]) /\ req[r].status = "RUNNING"
      /\ req[r].computed = Len(req[r].tokens) /\ HashesOf(req[r].hashes, req[r].tokens)
  BY <1>3 DEF CacheInv, Tables, Queues, OwnContent
<1>5. /\ q.blocks = req[r].blocks /\ q.computed = req[r].computed /\ q.tokens = Append(req[r].tokens, t)
      /\ HashesOf(req[r].hashes, q.tokens) => HashesOf(q.hashes, q.tokens)
      /\ idle.blocks = q.blocks /\ idle.computed = q.computed /\ idle.tokens = q.tokens /\ idle.hashes = q.hashes
  <2> DEFINE o == req[r]
  <2>1. o \in RowType /\ RowOK(o) /\ o.status = "RUNNING" /\ o.computed = Len(o.tokens)
    BY <1>4
  <2> HIDE DEF o
  <2> DEFINE f == Hashed([o EXCEPT !.tokens = Append(@, t)])
  <2>2. /\ f \in RowType /\ f.blocks = o.blocks /\ f.computed = o.computed /\ f.tokens = Append(o.tokens, t)
        /\ HashesOf(o.hashes, f.tokens) => HashesOf(f.hashes, f.tokens)
    BY <2>1, SampledRow
  <2>3. q = f
    BY DEF o
  <2> HIDE DEF q
  <2>4. /\ idle.blocks = q.blocks /\ idle.computed = q.computed /\ idle.tokens = q.tokens
        /\ idle.hashes = q.hashes
    BY <2>2, <2>3 DEF RowType, Status
  <2> QED BY <2>2, <2>3, <2>4 DEF o
<1> HIDE DEF q, idle
<1>6. /\ req[r].tokens \in Seq(Token) /\ Len(req[r].tokens) \in Nat
      /\ Len(req[r].hashes) \in Nat /\ DOMAIN req[r].hashes = 1 .. Len(req[r].hashes)
      /\ Len(req[r].blocks) \in Nat /\ DOMAIN req[r].blocks = 1 .. Len(req[r].blocks)
  BY <1>4, RowBounds
<1>7. ASSUME NEW n \in Nat, n <= Len(req[r].tokens) PROVE Prefix(q.tokens, n) = Prefix(req[r].tokens, n)
  <2> DEFINE one == <<t>>
  <2>1. q.tokens = req[r].tokens \o one /\ one \in Seq(Token)
    BY <1>5, <1>6, AppendIsConcat
  <2> HIDE DEF one
  <2>2. Prefix(req[r].tokens \o one, n) = Prefix(req[r].tokens, n)
    BY <1>6, <1>7, <2>1, PrefixOfConcat
  <2> QED BY <2>1, <2>2
<1>8. HashesOf(q.hashes, q.tokens)
  <2>1. Ends(Len(req[r].hashes)) <= Len(req[r].tokens) /\ Ends(Len(req[r].hashes)) \in Nat
    BY <1>4, HashedTokens
  <2>2. ASSUME NEW i \in DOMAIN req[r].hashes
        PROVE  Prefix(q.tokens, Ends(i)) = Prefix(req[r].tokens, Ends(i))
    <3>1. i \in Nat /\ i <= Len(req[r].hashes) /\ Ends(i) \in Nat
      BY <1>6, EndsNat
    <3>2. Ends(i) <= Ends(Len(req[r].hashes))
      BY <1>6, <3>1, EndsOrder
    <3>3. Ends(i) <= Len(req[r].tokens)
      BY <1>6, <2>1, <3>1, <3>2
    <3> QED BY <1>7, <3>1, <3>3
  <2> QED BY <1>4, <1>5, <2>2 DEF HashesOf
<1>9. \A i \in DOMAIN q.blocks :
        Prefix(q.tokens, Smaller(Ends(i), q.computed)) = Prefix(req[r].tokens, Smaller(Ends(i), req[r].computed))
  <2> TAKE i \in DOMAIN q.blocks
  <2>1. i \in Nat
    BY <1>5, <1>6
  <2>2. Ends(i) \in Nat
    BY <2>1, EndsNat
  <2>3. Smaller(Ends(i), q.computed) \in Nat /\ Smaller(Ends(i), q.computed) <= Len(req[r].tokens)
    BY <1>4, <1>5, <1>6, <2>2 DEF Smaller
  <2> QED BY <1>5, <1>7, <2>3
<1>10. CASE Finish(r)
  BY <1>1, <1>3, <1>10, FinishContent
<1>11. CASE req' = [req EXCEPT ![r] = q] /\ UNCHANGED pool
  BY <1>1, <1>3, <1>5, <1>8, <1>9, <1>11, ContentKept
<1>12. CASE req' = [req EXCEPT ![r] = idle] /\ UNCHANGED pool
  BY <1>1, <1>3, <1>5, <1>8, <1>9, <1>12, ContentKept
<1> QED BY <1>2, <1>10, <1>11, <1>12

(* A new request has the hashes of its own prompt. *)
LEMMA ArriveContent ==
  ASSUME NEW r \in Req, NEW p \in FirstPrompts, CacheInv, OwnContent, Arrive(r, p) PROVE OwnContent'
<1>1. /\ req' = [req EXCEPT ![r] = Arrived(p)] /\ UNCHANGED <<pool, content>>
  BY DEF Arrive
<1>2. /\ Arrived(p).tokens = p /\ HashesOf(Arrived(p).hashes, p) /\ Arrived(p).blocks = <<>> /\ DOMAIN <<>> = {}
  BY ArrivedRow, EmptySeq
<1> QED BY <1>1, <1>2, ContentKept

(* This is where a turn that ends with a full block would break the claim: *)
(* the token that is dropped was hashed.                                   *)
LEMMA NextTurnContent ==
  ASSUME ~ AlignedTurns, NEW r \in Req, NEW turn \in TurnPrompts, CacheInv, OwnContent, NextTurn(r, turn)
  PROVE  OwnContent'
<1> DEFINE q == req[r]
           n == Larger(q.computed, q.prompt)
           f == Resumed(q, turn)
<1>1. /\ req' = [req EXCEPT ![r] = f] /\ UNCHANGED <<pool, content>>
      /\ q.status = "IDLE" /\ Len(q.tokens) % BlockSize # 0
  BY DEF NextTurn, Resumed
<1>2. q \in RowType /\ RowOK(q) /\ HashesOf(q.hashes, q.tokens)
  BY DEF CacheInv, Tables, OwnContent
<1>3. /\ f.blocks = q.blocks /\ f.computed = q.computed /\ f.tokens = Prefix(q.tokens, n) \o turn
      /\ HashesOf(q.hashes, f.tokens) => HashesOf(f.hashes, f.tokens)
  BY <1>1, <1>2, ResumedRow
<1>4. turn \in Seq(Token)
  <2>1. turn \in Seq(Token) \ {<<>>}
    BY PrefixAssumption
  <2> QED BY <2>1
<1>5. /\ q.tokens \in Seq(Token) /\ Len(q.tokens) \in Nat /\ q.computed \in Nat /\ q.prompt \in Nat
      /\ Len(q.hashes) \in Nat /\ DOMAIN q.hashes = 1 .. Len(q.hashes)
      /\ Len(q.blocks) \in Nat /\ DOMAIN q.blocks = 1 .. Len(q.blocks)
  BY <1>2, RowBounds DEF RowType
<1>6. /\ q.computed <= Len(q.tokens) /\ Len(q.tokens) <= q.computed + 1
      /\ Len(q.hashes) = Len(q.tokens) \div BlockSize
  BY <1>1, <1>2 DEF RowOK
<1>7. n \in Nat /\ q.computed <= n
  BY <1>5 DEF Larger
<1> HIDE DEF n, f
<1>8. ASSUME NEW k \in Nat, k <= q.computed PROVE Prefix(f.tokens, k) = Prefix(q.tokens, k)
  <2> DEFINE kept == Prefix(q.tokens, n)
  <2>1. kept \in Seq(Token) /\ Len(kept) = Smaller(n, Len(q.tokens))
    BY <1>5, <1>7, PrefixProperties
  <2>2. k <= Len(kept)
    BY <1>5, <1>6, <1>7, <1>8, <2>1 DEF Smaller
  <2>3. k <= n
    BY <1>5, <1>7, <1>8
  <2>4. Prefix(kept, k) = Prefix(q.tokens, k)
    BY <1>5, <1>7, <2>3, PrefixOfPrefix
  <2> HIDE DEF kept
  <2>5. Prefix(kept \o turn, k) = Prefix(kept, k)
    BY <1>4, <2>1, <2>2, PrefixOfConcat
  <2> QED BY <1>3, <2>4, <2>5 DEF kept
<1>9. HashesOf(f.hashes, f.tokens)
  <2>1. Ends(Len(q.hashes)) < Len(q.tokens)
    BY <1>1, <1>5, <1>6, NotAligned
  <2>2. ASSUME NEW i \in DOMAIN q.hashes PROVE Prefix(f.tokens, Ends(i)) = Prefix(q.tokens, Ends(i))
    <3>1. i \in Nat /\ i <= Len(q.hashes)
      BY <1>5
    <3>2. Ends(i) \in Nat /\ Ends(Len(q.hashes)) \in Nat
      BY <1>5, <3>1, EndsNat
    <3>3. Ends(i) <= Ends(Len(q.hashes))
      BY <1>5, <3>1, EndsOrder
    <3>4. Ends(i) <= q.computed
      BY <1>5, <1>6, <2>1, <3>2, <3>3
    <3> QED BY <1>8, <3>2, <3>4
  <2> QED BY <1>2, <1>3, <2>2 DEF HashesOf
<1>10. \A i \in DOMAIN f.blocks :
         Prefix(f.tokens, Smaller(Ends(i), f.computed)) = Prefix(q.tokens, Smaller(Ends(i), q.computed))
  <2> TAKE i \in DOMAIN f.blocks
  <2>1. i \in Nat
    BY <1>3, <1>5
  <2>2. Ends(i) \in Nat
    BY <2>1, EndsNat
  <2>3. Smaller(Ends(i), q.computed) \in Nat /\ Smaller(Ends(i), q.computed) <= q.computed
    BY <1>5, <2>2 DEF Smaller
  <2> QED BY <1>3, <1>8, <2>3
<1> QED BY <1>1, <1>3, <1>9, <1>10, ContentKept

(* Every step keeps the contents a request's own. *)
LEMMA ContentNext == ~ AlignedTurns /\ CacheInv /\ OwnContent /\ [CacheNext]_cacheVars => OwnContent'
<1> SUFFICES ASSUME ~ AlignedTurns, CacheInv, OwnContent, [CacheNext]_cacheVars PROVE OwnContent'
  OBVIOUS
<1>1. ASSUME UNCHANGED <<req, content>>,
             \A b \in Block : pool'.hash[b] = pool.hash[b] \/ pool'.hash[b] = NoHash
      PROVE  OwnContent'
  BY <1>1 DEF OwnContent, HistoryIsOwn, HashNamesContent
<1>2. CASE Plan \/ Execute \/ UNCHANGED cacheVars
  BY <1>1, <1>2 DEF Plan, Execute, cacheVars
<1>3. CASE RunNext \/ PreemptLast
  BY <1>3, RunNextContent, PreemptLastContent
<1>4. CASE ResetPrefixCache
  <2>1. PoolOK(pool) /\ pool' = Evicted(pool, Block) /\ UNCHANGED <<req, content>>
    BY <1>4 DEF ResetPrefixCache, CacheInv, Tables
  <2>2. \A b \in Block : pool'.hash[b] = NoHash
    BY <2>1, EvictedProperties
  <2> QED BY <1>1, <2>1, <2>2
<1>5. ASSUME NEW r \in Req, Admit(r) \/ MoveDone(r) PROVE OwnContent'
  BY <1>5, AdmitContent, MoveDoneContent
<1>6. ASSUME NEW r \in Req, MoveRefused(r) PROVE OwnContent'
  BY <1>1, <1>6 DEF MoveRefused
<1>7. ASSUME NEW r \in Req, Close(r) PROVE OwnContent'
  BY <1>7, FinishContent DEF Close
<1>8. ASSUME NEW t \in Token, NEW stop \in BOOLEAN, Sample(t, stop) PROVE OwnContent'
  BY <1>8, SampleContent
<1>9. ASSUME NEW r \in Req, NEW p \in FirstPrompts, Arrive(r, p) PROVE OwnContent'
  BY <1>9, ArriveContent
<1>10. ASSUME NEW r \in Req, NEW p \in TurnPrompts, NextTurn(r, p) PROVE OwnContent'
  BY <1>10, NextTurnContent
<1> QED BY <1>2, <1>3, <1>4, <1>5, <1>6, <1>7, <1>8, <1>9, <1>10 DEF CacheNext

(* The initial states hold nothing. *)
LEMMA ContentInit == CacheInit => OwnContent
<1> SUFFICES ASSUME CacheInit PROVE OwnContent
  OBVIOUS
<1>1. req = [r \in Req |-> Absent] /\ pool = NewPool
  BY DEF CacheInit
<1>2. Absent.blocks = <<>> /\ Absent.hashes = <<>> /\ DOMAIN <<>> = {}
  BY EmptySeq DEF Absent
<1>3. \A b \in Block : pool.hash[b] = NoHash
  BY <1>1 DEF NewPool
<1> QED BY <1>1, <1>2, <1>3 DEF OwnContent, HistoryIsOwn, HashNamesContent, HashesOf

(* Whose tokens the blocks hold when no turn's last token completes a      *)
(* block.                                                                  *)
LEMMA ContentInvariant == ~ AlignedTurns => (CacheSpec => []OwnContent)
<1> SUFFICES ASSUME ~ AlignedTurns PROVE CacheSpec => []OwnContent
  OBVIOUS
<1>1. CacheInv /\ OwnContent /\ [CacheNext]_cacheVars => OwnContent'
  BY ContentNext
<1> QED BY <1>1, CacheInvariant, ContentInit, PTL DEF CacheSpec

(* When no turn's last token completes a block, a request reads the KV of  *)
(* its own tokens only, whichever request computed it: lookups,            *)
(* preemption, demotion and the next turn never mix two histories.         *)
THEOREM HistoryIsOwnHolds == ~ AlignedTurns => (CacheSpec => []HistoryIsOwn)
<1>1. OwnContent => HistoryIsOwn
  BY DEF OwnContent
<1> QED BY <1>1, ContentInvariant, PTL

(* Then a block that a lookup can find holds the tokens its hash stands    *)
(* for: the finding about stale hashes has no other cause than such a turn.*)
THEOREM HashNamesContentHolds == ~ AlignedTurns => (CacheSpec => []HashNamesContent)
<1>1. OwnContent => HashNamesContent
  BY DEF OwnContent
<1> QED BY <1>1, ContentInvariant, PTL
=============================================================================
