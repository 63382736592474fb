---------------------------- MODULE MC_SideEffect ----------------------------
(* One side effect; two accounts; an empty action and a 4-byte one.        *)
EXTENDS SideEffect

CONSTANTS s1, a1, a2, t1, args1, out1

MCActionEncodings == {<<>>, <<116, 114, 97, 110>>}
=============================================================================
