----------------------------- MODULE MCLuaQueue -----------------------------
(* Small instances of LuaQueue: three calls fit into the queue at once, and *)
(* those who wait are told apart by nothing but their identity.             *)
EXTENDS LuaQueue, TLC

Symmetry == Permutations(Extra)
=============================================================================
