------------------------------ MODULE MCSession -----------------------------
(* Small instances of Session.  Handles are told apart by nothing but their *)
(* identity, and so are the slots for queries.                              *)
EXTENDS Session, TLC

Symmetry == Permutations(Handle) \cup Permutations(Query)
=============================================================================
