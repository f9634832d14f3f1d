---------------------------- MODULE Subsequences ----------------------------
(***************************************************************************)
(* Part of a queue, in its order.  SelectSeq of the standard modules is    *)
(* the same for a test that is membership; it is recursive, and nothing    *)
(* could be proved of what uses it.                                        *)
(***************************************************************************)
EXTENDS Integers, Sequences, FiniteSets

(* The elements of s that are in S, in the order of s: the n-th of them is *)
(* the one at the n-th smallest position.                                  *)
Only(s, S) ==
  LET kept   == {i \in DOMAIN s : s[i] \in S}
      Nth(n) == CHOOSE i \in kept : Cardinality({j \in kept : j <= i}) = n
  IN [n \in 1 .. Cardinality(kept) |-> s[Nth(n)]]
=============================================================================
