------------------------------ MODULE LuaQueue ------------------------------
(***************************************************************************)
(* The functions of telegram that a Lua script can call (lua-tg.c).  A     *)
(* call only enqueues: parse_lua_function writes the function, who is to   *)
(* be called back and the arguments into the slots of lua_ptr, and         *)
(* lua_do_all, which net_loop runs after each event, works the queue off.  *)
(* tgl calls back later, from the loop, or from within the call when it    *)
(* refuses it at once; either way Lua code runs, and can call functions.   *)
(*                                                                         *)
(* Every slot has `flags': bit 0 says that the slot holds a string, a copy *)
(* that lua_do_all has to free.  The flags of a slot outlive its contents. *)
(* What a slot holds when no command owns it is left out: only a fault     *)
(* would read it.  Slot i of the code is slot i + 1 here.                  *)
(***************************************************************************)
EXTENDS Integers, Sequences

CONSTANTS Slots,       \* MAX_LUA_COMMANDS, 1000
          Function,    \* the functions the script uses
          Extra        \* addresses of struct lua_query_extra

(* The table of functions: one for each way lua_do_all treats a command.   *)
Params == [status_online     |-> <<>>,
           user_info         |-> <<"peer">>,
           send_msg          |-> <<"peer", "string">>,
           set_profile_photo |-> <<"string">>,
           set_profile_name  |-> <<"string">>,
           restore_msg       |-> <<"number">>]

Arity(f) == Len(Params[f])

ASSUME LuaQueueAssumption == Slots \in Nat /\ Function \subseteq DOMAIN Params

VARIABLES
  lua_ptr,       \* what the slots below pos hold
  flags,         \* flags[i]: lua_ptr[i].flags & 1
  p,             \* the local variable of lua_do_all: how many slots are done
  pc,            \* "idle": not in lua_do_all; "do": in its loop;
                 \* "cb": tgl refuses the command, and calls back at once
  alive,         \* the structs lua_query_extra that are allocated
  asked,         \* the commands that tgl was given and did not answer yet
  strs,          \* the slots whose string is a copy that was not freed yet
  heads,         \* history: how many slots are before each command that is in
                 \* the queue and not done
  fault          \* how the process came to grief, or "no"

vars == <<lua_ptr, flags, p, pc, alive, asked, strs, heads, fault>>

Slot == 1 .. Slots
pos == Len(lua_ptr)

(* What a slot can hold. *)
Length(n) == [is |-> "length", num |-> n]
Type(f)   == [is |-> "type", fun |-> f]
Waiter(e) == [is |-> "extra", ptr |-> e]
Arg       == [is |-> "arg"]
Str       == [is |-> "str"]

Content == {Length(n) : n \in 0 .. Slots} \cup {Type(f) : f \in Function}
             \cup {Waiter(e) : e \in Extra} \cup {Arg, Str}

Request == [fun : Function, extra : Extra]

TypeOK ==
  /\ lua_ptr \in Seq(Content) /\ pos <= Slots
  /\ flags \in [Slot -> BOOLEAN]
  /\ p \in 0 .. pos
  /\ pc \in {"idle", "do", "cb"}
  /\ alive \subseteq Extra
  /\ asked \subseteq Request
  /\ strs \subseteq Slot
  /\ heads \in Seq(0 .. Slots)
  /\ fault \in {"no", "full", "unknown", "overread", "freed"}

Init ==
  /\ lua_ptr = <<>> /\ flags = [i \in Slot |-> FALSE]
  /\ p = 0 /\ pc = "idle"
  /\ alive = {} /\ asked = {} /\ strs = {} /\ heads = <<>> /\ fault = "no"

-----------------------------------------------------------------------------
(* Calls from Lua. *)

(* The slots after the next command's header hold its arguments. *)
IsArg(f, i) == i - pos - 3 \in DOMAIN Params[f]
IsString(f, i) == IsArg(f, i) /\ Params[f][i - pos - 3] = "string"

(* A mutant: the flags are only ever set. *)
flag_arguments_stale(f, bad) ==
  flags' = [i \in Slot |-> flags[i] \/ (IsString(f, i) /\ i - pos - 3 \notin bad)]

(* Every argument clears the flags of its slot; a string that can be       *)
(* parsed sets bit 0, even when another argument is bad.                   *)
flag_arguments(f, bad) ==
  flags' = [i \in Slot |-> IF IsArg(f, i) THEN IsString(f, i) /\ i - pos - 3 \notin bad
                           ELSE flags[i]]

(* The command stays in the queue, and its strings are copied. *)
keep_command(f, e) ==
  /\ lua_ptr' = lua_ptr \o <<Length(Arity(f) + 1), Type(f), Waiter(e)>>
                 \o [k \in DOMAIN Params[f] |->
                       IF Params[f][k] = "string" THEN Str ELSE Arg]
  /\ alive' = alive \cup {e}
  /\ strs' = strs \cup {i \in Slot : IsString(f, i)}
  /\ heads' = Append(heads, pos)

(* A mutant: no check for room. *)
parse_lua_function_unchecked(f, e, bad) ==
  /\ fault = "no" /\ pc # "do" /\ e \notin alive /\ bad = {}
  /\ flag_arguments(f, bad)
  /\ keep_command(f, e)
  /\ UNCHANGED <<p, pc, asked, fault>>

(* Lua code calls f.  Without room the process is aborted by an assertion. *)
(* When an argument is bad the command is taken back, and the call returns *)
(* false; else the strings are copied, and the call returns true.          *)
parse_lua_function(f, e, bad) ==
  /\ fault = "no" /\ pc # "do" /\ e \notin alive
  /\ IF pos + 3 + Arity(f) >= Slots
       THEN fault' = "full" /\ UNCHANGED <<lua_ptr, flags, alive, strs, heads>>
       ELSE /\ flag_arguments(f, bad)
            /\ IF bad = {} THEN keep_command(f, e)
               ELSE UNCHANGED <<lua_ptr, alive, strs, heads>>
            /\ UNCHANGED fault
  /\ UNCHANGED <<p, pc, asked>>

-----------------------------------------------------------------------------
(* The queue is worked off. *)

(* The command behind the first i slots, as lua_do_all reads it. *)
At(i) == [fun |-> lua_ptr[i + 2].fun, extra |-> lua_ptr[i + 3].ptr]

lua_do_all ==
  /\ fault = "no" /\ pc = "idle" /\ pos > 0
  /\ pc' = "do" /\ p' = 0
  /\ UNCHANGED <<lua_ptr, flags, alive, asked, strs, heads, fault>>

(* Behind the command at p; its slots from the waiter on that are flagged. *)
After == p + 3 + Arity(At(p).fun)
Flagged == {i \in p + 3 .. After : flags[i]}

Rest == SubSeq(heads, 2, Len(heads))

(* The command was done: its strings are freed, and so is anything else    *)
(* whose slot is flagged.                                                  *)
free_strings ==
  /\ p' = After
  /\ heads' = Rest
  /\ strs' = strs \ Flagged
  /\ fault' = IF Flagged \subseteq strs THEN fault ELSE "freed"

Doing == fault = "no" /\ pc = "do" /\ p < pos

(* A function that tgl has, with the arguments it has in the table. *)
Proper == At(p).fun \notin {"set_profile_name", "restore_msg"}

do_command ==
  /\ Doing /\ Proper
  /\ asked' = asked \cup {At(p)}
  /\ free_strings
  /\ UNCHANGED <<lua_ptr, flags, pc, alive>>

(* tgl, or lua_do_all for a message without media, refuses the command:    *)
(* the callback runs now.                                                  *)
do_refused ==
  /\ Doing /\ Proper
  /\ asked' = asked \cup {At(p)}
  /\ pc' = "cb"
  /\ UNCHANGED <<lua_ptr, flags, p, alive, strs, heads, fault>>

(* Mutants: the way back skips the strings, or does not go on. *)
refused_leaks ==
  /\ fault = "no" /\ pc = "cb"
  /\ pc' = "do" /\ p' = After
  /\ alive' = alive \ {At(p).extra} /\ asked' = asked \ {At(p)}
  /\ heads' = Rest
  /\ UNCHANGED <<lua_ptr, flags, strs, fault>>

refused_again ==
  /\ fault = "no" /\ pc = "cb"
  /\ pc' = "do"
  /\ alive' = alive \ {At(p).extra} /\ asked' = asked \ {At(p)}
  /\ UNCHANGED <<lua_ptr, flags, p, strs, heads, fault>>

(* The callback returns to lua_do_all. *)
refused ==
  /\ fault = "no" /\ pc = "cb"
  /\ pc' = "do"
  /\ free_strings
  /\ alive' = alive \ {At(p).extra} /\ asked' = asked \ {At(p)}
  /\ UNCHANGED <<lua_ptr, flags>>

(* No case of the switch has this function: an assertion fails. *)
do_restore_msg ==
  /\ Doing /\ At(p).fun = "restore_msg"
  /\ fault' = "unknown"
  /\ UNCHANGED <<lua_ptr, flags, p, pc, alive, asked, strs, heads>>

(* Two strings are taken where the table has one: the second is read from  *)
(* a slot that belongs to no command, or is the length of the next one.    *)
do_set_profile_name ==
  /\ Doing /\ At(p).fun = "set_profile_name"
  /\ fault' = "overread"
  /\ UNCHANGED <<lua_ptr, flags, p, pc, alive, asked, strs, heads>>

(* A mutant: the queue is done, and not emptied. *)
lua_do_all_keeps ==
  /\ fault = "no" /\ pc = "do" /\ p >= pos
  /\ pc' = "idle" /\ p' = 0
  /\ UNCHANGED <<lua_ptr, flags, alive, asked, strs, heads, fault>>

lua_do_all_end ==
  /\ fault = "no" /\ pc = "do" /\ p >= pos
  /\ pc' = "idle" /\ lua_ptr' = <<>> /\ p' = 0
  /\ UNCHANGED <<flags, alive, asked, strs, heads, fault>>

(* tgl answers: the callback of the command is called, and its struct is   *)
(* freed.  What the Lua code does then are calls of parse_lua_function.    *)
lua_cb(r) ==
  /\ fault = "no" /\ pc = "idle" /\ r \in asked
  /\ asked' = asked \ {r} /\ alive' = alive \ {r.extra}
  /\ UNCHANGED <<lua_ptr, flags, p, pc, strs, heads, fault>>

Stopped == fault # "no" /\ UNCHANGED vars

Working == lua_do_all \/ do_command \/ do_refused \/ refused
             \/ do_restore_msg \/ do_set_profile_name \/ lua_do_all_end

Next ==
  \/ \E f \in Function, e \in Extra, bad \in SUBSET (1 .. 2) :
       bad \subseteq DOMAIN Params[f] /\ parse_lua_function(f, e, bad)
  \/ Working
  \/ \E r \in Request : lua_cb(r)
  \/ Stopped

Spec == Init /\ [][Next]_vars

(* lua_do_all runs after every event and goes on to its end, and tgl calls *)
(* back for each command.                                                  *)
FairSpec == /\ Spec /\ WF_vars(Working)
            /\ \A e \in Extra : SF_vars(\E r \in asked : r.extra = e /\ lua_cb(r))

-----------------------------------------------------------------------------
(* Properties. *)

(* The calls that are in the queue and not begun, read as lua_do_all will  *)
(* read them.                                                              *)
Waiting == IF pc = "cb" THEN Rest ELSE heads
Queued == [i \in DOMAIN Waiting |-> At(Waiting[i])]

(* The slots and positions implement the sequence of calls of CallQueue:   *)
(* none is lost, done twice or out of order, and none gets the function or *)
(* the waiter of another, even when callbacks enqueue while the queue is   *)
(* worked off (lua-tg.c:1145 and 1487).                                    *)
Calls == INSTANCE CallQueue WITH todo <- Queued

CallsSpec == Calls!Spec

(* A copied string lives exactly as long as its command is in the queue:   *)
(* none is leaked, or freed while it is still to be used (lua-tg.c:1384    *)
(* and 1608).                                                              *)
StringsKept == strs = {i \in p + 1 .. pos : lua_ptr[i] = Str}

(* The slot of the waiter keeps the flags of what it held before, and a    *)
(* waiter in a slot of an earlier string is freed as a string, with the    *)
(* callback still to come.  The first command of a turn of the loop is     *)
(* safe from that, so a script that calls one function per turn never      *)
(* meets it.                                                               *)
FirstIsSafe == fault = "freed" => p > lua_ptr[1].num + 2

(* "or return true and call cb_function in future" (README-LUA:20): every  *)
(* call that was accepted is called back, or the process has come to grief *)
(* (as it does when the script calls restore_msg: "unknown").              *)
CalledBackUnlessFault ==
  \A e \in Extra : e \in alive ~> (e \notin alive \/ fault # "no")

(* "or return true and call cb_function in future" (README-LUA:20): who is *)
(* to be called back is not freed before that.                             *)
NotFreedBefore == fault # "freed"
=============================================================================
