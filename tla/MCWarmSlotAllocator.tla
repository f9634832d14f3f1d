------------------------- MODULE MCWarmSlotAllocator -------------------------
(* Four keys compete for three slots: a reservation can fit, fit exactly,  *)
(* mix existing and new keys, or exceed what is free.                      *)
EXTENDS WarmSlotAllocator, TLC

CONSTANTS k1, k2, k3, k4
MCKey == {k1, k2, k3, k4}
KeySymmetry == Permutations(MCKey)
=============================================================================
