------------------------------ MODULE MCConsole -----------------------------
(* A small instance of Console: two askers, for one value and for three.    *)
EXTENDS Console

MCValues == [a \in Asker |-> IF a = 1 THEN 1 ELSE 3]
=============================================================================
