---------------------------- MODULE MCPrefixCache ----------------------------
(* Three requests whose prompts share their first block, in blocks of two  *)
(* tokens; one of them is a session, whose turns MaxModelLen bounds.       *)
EXTENDS PrefixCache, TLC

CONSTANTS s1, p1, p2
SessionAndTwo == {s1, p1, p2}
TwoPlain == {p1, p2}

Bits == {0, 1}
SharedPrefix == {<<0, 0, 0>>, <<0, 0, 1>>}
OneToken == {<<0>>}

PlainSymmetry == Permutations(TwoPlain)
=============================================================================
