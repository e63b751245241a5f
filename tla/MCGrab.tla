------------------------------- MODULE MCGrab -------------------------------
(* A small instance of Grab: a user, a chat with the number of the user and *)
(* a channel, and five messages, one of which is deleted.                   *)
EXTENDS Grab

MCNumber == [p \in Peer |-> IF p = 3 THEN 2 ELSE 100]
MCChatOf == <<3, 1, 1, 2, 3>>
MCSender == <<{3}, {}, {}, {1}, {}>>
=============================================================================
