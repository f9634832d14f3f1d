--------------------------- MODULE MCHierarchicalKV ---------------------------
(* Two sessions of two turns, or a session and a plain request, or all.    *)
(* The sizes of blocks and turns make turns end inside a block and on its  *)
(* boundary, and the few HOT blocks make one request evict or block        *)
(* another.                                                                *)
EXTENDS HierarchicalKV, TLC

CONSTANTS s1, s2, p1, b1, b2, b3, b4
TwoSessions == {s1, s2}
AndPlain == {s1, s2, p1}
SessionAndPlain == {s1, p1}
PlainOne == {p1}

TwoBlocks == {b1, b2}
ThreeBlocks == {b1, b2, b3}
FourBlocks == {b1, b2, b3, b4}

LongAndShort == [r \in TwoSessions |-> IF r = s1 THEN 3 ELSE 1]
LongAndShortPlain == [r \in AndPlain |-> IF r = s1 THEN 3 ELSE 1]
FourAndTwo == [r \in TwoSessions |-> IF r = s1 THEN 4 ELSE 2]
ShortPlain == [r \in SessionAndPlain |-> IF r = s1 THEN 2 ELSE 1]
ThreeEach == [r \in TwoSessions |-> 3]

SymmetryThree == Permutations(ThreeBlocks)
SymmetryFour == Permutations(FourBlocks)
=============================================================================
