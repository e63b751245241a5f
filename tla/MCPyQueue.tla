----------------------------- MODULE MCPyQueue ------------------------------
(* Small instances of PyQueue: a function of each kind, the method whose    *)
(* callback is lost, and two calls in the queue at once.  A list of two     *)
(* peers is too short for a group chat, one of three is not.                *)
EXTENDS PyQueue

CONSTANTS o1, c1, c2

MCKind == [o \in Peer |-> "chat"]
MCLists == {<<o1, o1>>, <<o1, o1, o1>>}
=============================================================================
