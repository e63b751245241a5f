----------------------------- MODULE CallQueue ------------------------------
(***************************************************************************)
(* What a script is promised about the functions it calls (README-LUA:20): *)
(* a call that is accepted is done, in the order of the calls, once, and   *)
(* its cb_function is called once, with the cb_extra of this call.         *)
(***************************************************************************)
EXTENDS Sequences

CONSTANTS Function,    \* the functions a script can call
          Extra        \* who is called back: struct lua_query_extra

Request == [fun : Function, extra : Extra]

VARIABLES todo,        \* the calls accepted and not begun yet
          asked        \* the calls begun and not called back yet

vars == <<todo, asked>>

TypeOK == todo \in Seq(Request) /\ asked \subseteq Request

Init == todo = <<>> /\ asked = {}

(* The calls of which someone waits for the callback. *)
Pending == {todo[i] : i \in DOMAIN todo} \cup asked

Accept(f, e) == /\ \A r \in Pending : r.extra # e
                /\ todo' = Append(todo, [fun |-> f, extra |-> e])
                /\ UNCHANGED asked

Begin == /\ todo # <<>>
         /\ asked' = asked \cup {Head(todo)}
         /\ todo' = Tail(todo)

CallBack(r) == /\ r \in asked
               /\ asked' = asked \ {r}
               /\ UNCHANGED todo

Next == \/ \E f \in Function, e \in Extra : Accept(f, e)
        \/ Begin
        \/ \E r \in Request : CallBack(r)

Spec == Init /\ [][Next]_vars
=============================================================================
