------------------------------ MODULE PyQueue -------------------------------
(***************************************************************************)
(* The functions of the module tgl that a Python script can call           *)
(* (python-tg.c, and the methods of its types in python-types.c).  A call  *)
(* pushes the function and the tuple of its arguments; py_do_all, which    *)
(* net_loop runs after each event, calls on_loop and then parses the       *)
(* tuples and works the queue off.  tgl calls back later, or at once when  *)
(* it refuses the call.                                                    *)
(*                                                                         *)
(* The objects of the script live by reference counting, and C code must   *)
(* give back what it takes.  count is the counter in the object, kept by   *)
(* the INCREFs and DECREFs of the code; Held says who really has the       *)
(* object.  A tuple that was worked off is never released, so what it held *)
(* is counted for ever, except the peers and lists, which py_do_all        *)
(* releases in its place.  The lists that are passed are literals: nobody  *)
(* but the tuple holds them.  Every command takes two slots of py_ptr.     *)
(***************************************************************************)
EXTENDS Integers, FiniteSets, Sequences

CONSTANTS Slots,       \* MAX_PY_COMMANDS, 1000
          Function,    \* the functions and
          Method,      \* the methods the script uses
          Peer,        \* objects of type tgl.Peer
          Kind,        \* the type of the peer of each
          Callable,    \* functions of the script
          Named,       \* those with a name, which stay; the others are literals
          Lists,       \* the lists of peers the script passes
          MaxRefs,     \* bound: an object with so many references is left alone
          None         \* NULL

Obj == Peer \cup Callable

ASSUME PyQueueAssumption ==
  /\ Slots \in Nat
  /\ Peer \cap Callable = {} /\ None \notin Obj
  /\ Named \subseteq Callable
  /\ Lists \subseteq Seq(Peer)

-----------------------------------------------------------------------------
(* The table of functions: what each expects before the callback.          *)

Chats == {<<"contact_list", <<>>>>, <<"dialog_list", <<>>>>}

Sending ==
  {<<f, <<"peer", "string">>>> : f \in {"msg", "rename_chat", "send_photo",
     "send_video", "send_audio", "send_document", "send_file", "send_text",
     "chat_set_photo"}} \cup
  {<<f, <<"peer">>>> : f \in {"send_typing", "send_typing_abort"}}

Loading ==
  {<<f, <<"message">>>> : f \in {"load_photo", "load_video", "load_audio",
     "load_document", "load_video_thumb", "load_document_thumb"}}

Asking ==
  {<<f, <<"peer", "number">>>> : f \in {"fwd", "fwd_media"}} \cup
  {<<f, <<"peer">>>> : f \in {"chat_info", "user_info"}} \cup
  {<<"history", <<"peer", "number", "number">>>>} \cup
  {<<f, <<"peer", "peer">>>> : f \in {"chat_add_user", "chat_del_user"}}

Contacts ==
  {<<f, <<"string", "string", "string">>>> : f \in {"add_contact", "rename_contact"}} \cup
  {<<f, <<"peer">>>> : f \in {"del_contact", "mark_read", "create_secret_chat"}} \cup
  {<<"search", <<"peer", "string">>>>} \cup
  {<<f, <<"string">>>> : f \in {"global_search", "set_profile_photo"}} \cup
  {<<"set_profile_name", <<"string", "string">>>>}

Others ==
  {<<"create_group_chat", <<"list", "string">>>>} \cup
  {<<f, <<"number">>>> : f \in {"delete_msg", "restore_msg"}} \cup
  {<<"send_contact", <<"peer", "string", "string", "string">>>>} \cup
  {<<f, <<>>>> : f \in {"status_online", "status_offline"}} \cup
  {<<f, <<"string">>>> : f \in {"extf", "import_chat_link"}} \cup
  {<<"send_location", <<"peer", "float", "float">>>>} \cup
  {<<"accept_secret_chat", <<>>>>}      \* its case is commented out

Rows == Chats \cup Sending \cup Loading \cup Asking \cup Contacts \cup Others

Functions == {r[1] : r \in Rows}

ASSUME FunctionAssumption == Function \subseteq Functions

Params == [f \in Functions |-> (CHOOSE r \in Rows : r[1] = f)[2]]

(* What is pushed: user_info asks for the information on a chat.           *)
Pushed(f) == IF f = "user_info" THEN "chat_info" ELSE f

(* The table of methods: what each pushes, the peers that have it, and     *)
(* what becomes of its callback.                                           *)
AnyKind == {"user", "chat", "encr_chat"}

Talk ==
  {<<"peer.send_msg", "msg", AnyKind, "passed">>,
   <<"peer.fwd_msg", "fwd", {}, "passed">>,      \* the names of its arguments are too few
   <<"peer.send_typing", "send_typing", AnyKind, "passed">>,
   <<"peer.send_typing_abort", "send_typing_abort", AnyKind, "passed">>}

Files ==
  {<<"peer." \o f, f, AnyKind, "passed">> : f \in {"send_photo", "send_video",
     "send_audio", "send_document", "send_file", "send_text"}}

Group ==
  {<<"peer." \o f, f, {"chat"}, "passed">> : f \in {"rename_chat",
     "chat_set_photo", "chat_add_user", "chat_del_user"}}

Query ==
  {<<"peer.history", "history", AnyKind, "passed">>,
   <<"peer.info", "user_info", {"user"}, "needed">>,
   <<"peer.info", "chat_info", {"chat"}, "needed">>,
   <<"peer.send_contact", "send_contact", AnyKind, "lost">>,
   <<"peer.send_location", "send_location", AnyKind, "passed">>,
   <<"peer.mark_read", "mark_read", AnyKind, "passed">>}

Methods == Talk \cup Files \cup Group \cup Query

-----------------------------------------------------------------------------
VARIABLES
  py_ptr,      \* the commands, two slots each
  p,           \* the local variable of py_do_all, in commands
  pc,          \* "idle"; "script": the script runs, called for an event;
               \* "on_loop": called by py_on_loop; "do": in py_do_all;
               \* "cb": the script runs, called back for a refused command
  running,     \* the callable whose callback this is
  on_loop,     \* _py_on_loop
  script,      \* the peers that variables of the script refer to
  count,       \* the reference counts
  overdrawn,   \* history: peers that were released without a reference
  asked,       \* the commands that tgl was given and did not answer yet
  due,         \* history: the places in py_ptr of the commands not done of
               \* which somebody will be called back
  fault        \* how the process came to grief, or "no"

vars == <<py_ptr, p, pc, running, on_loop, script, count, overdrawn, asked, due, fault>>

Command == [fun : Functions, peers : Seq(Peer), list : Seq(Peer),
            cb : Callable \cup {None}, bad : Nat]
Request == [fun : Functions, extra : Callable]

TypeOK ==
  /\ py_ptr \in Seq(Command) /\ 2 * Len(py_ptr) <= Slots
  /\ p \in 0 .. Len(py_ptr)
  /\ pc \in {"idle", "script", "on_loop", "do", "cb"}
  /\ running \in Callable \cup {None} /\ on_loop \in Callable \cup {None}
  /\ script \subseteq Peer
  /\ count \in [Obj -> Int]
  /\ overdrawn \subseteq Peer
  /\ asked \subseteq Request
  /\ due \in Seq(1 .. Len(py_ptr))
  /\ fault \in {"no", "full", "unknown", "peer", "callable"}

Init ==   \* py_init imports the script, and so runs it
  /\ py_ptr = <<>> /\ p = 0 /\ pc = "script" /\ running = None /\ on_loop = None
  /\ script = {} /\ overdrawn = {}
  /\ count = [o \in Obj |-> IF o \in Named THEN 1 ELSE 0]
  /\ asked = {} /\ due = <<>> /\ fault = "no"

(* A group chat is created with three members at least.                    *)
TooFew(c) == c.fun = "create_group_chat" /\ Len(c.list) <= 2
Founded(c) == c.fun = "create_group_chat" /\ c.bad = 0 /\ Len(c.list) > 2

(* The commands for which somebody will be called back.                    *)
Sound(c) == c.cb # None /\ c.bad = 0 /\ ~TooFew(c)

Times(o, s) == Cardinality({i \in DOMAIN s : s[i] = o})
One(o, c) == IF o = c THEN 1 ELSE 0

(* Those who have the object and may use it.                               *)
Held(o) ==
  \/ o \in script \cup Named \cup {running, on_loop}
  \/ \E r \in asked : r.extra = o
  \/ \E i \in p + 1 .. Len(py_ptr) :
       \/ o = py_ptr[i].cb
       \/ Times(o, py_ptr[i].peers \o py_ptr[i].list) > 0

Dead(n, held) == n < IF held THEN 1 ELSE 0

(* The counters after a release.  An object that somebody has was freed,   *)
(* or one is released twice: from there on everything can happen.  An      *)
(* object that nobody has is freed, or lost, and its counter forgotten.    *)
Release(counts) ==
  /\ count' = [o \in Obj |-> IF Held(o)' \/ counts[o] < 0 THEN counts[o] ELSE 0]
  /\ fault' = IF \E o \in Peer : Dead(counts[o], Held(o)') THEN "peer"
              ELSE IF \E c \in Callable : Dead(counts[c], Held(c)') THEN "callable" ELSE fault

Waiting(c) == \/ \E r \in asked : r.extra = c
              \/ \E i \in p + 1 .. Len(py_ptr) : py_ptr[i].cb = c

-----------------------------------------------------------------------------
(* What the script does, while it runs. *)

Runs == fault = "no" /\ pc \in {"script", "on_loop", "cb"}

(* The script gets a peer: one of its own making, or from tgl.  get_peer   *)
(* keeps a reference, which nobody gives back.                             *)
GetPeer(o, kept) ==
  /\ Runs /\ o \in Peer /\ ~Held(o)
  /\ script' = script \cup {o}
  /\ count' = [count EXCEPT ![o] = 1 + kept]
  /\ overdrawn' = overdrawn \ {o}
  /\ UNCHANGED <<py_ptr, p, pc, running, on_loop, asked, due, fault>>

Forget(o) ==
  /\ Runs /\ o \in script
  /\ script' = script \ {o}
  /\ UNCHANGED <<py_ptr, p, pc, running, on_loop, overdrawn, asked, due>>
  /\ Release([count EXCEPT ![o] = @ - 1])

(* The references to a callable: none yet if it is a new literal.          *)
Usable(c) == c \in Named \/ ~Held(c)
References(c) == IF Held(c) THEN count[c] ELSE 0

set_py_on_loop(c) ==
  /\ Runs /\ c \in Callable /\ Usable(c) /\ References(c) < MaxRefs /\ c # on_loop
  /\ on_loop' = c
  /\ UNCHANGED <<py_ptr, p, pc, running, script, overdrawn, asked, due>>
  /\ Release([o \in Obj |-> IF o = c THEN References(c) + 1
                            ELSE count[o] - One(o, on_loop)])

(* A mutant: one slot more is asked for than is needed ... *)
Room_off == 2 * Len(py_ptr) + 2 <= Slots + 2

Room == 2 * Len(py_ptr) + 2 < Slots

(* The arguments of a call are not looked at: every call returns True.     *)
(* Without room an assertion ends the process.                             *)
push_py_func(f, peers, list, cb, bad) ==
  /\ IF Room
       THEN /\ LET c == [fun |-> f, peers |-> peers, list |-> list, cb |-> cb, bad |-> bad]
               IN  /\ py_ptr' = Append(py_ptr, c)
                   /\ due' = IF Sound(c) THEN Append(due, Len(py_ptr) + 1) ELSE due
            /\ count' = [o \in Obj |-> IF o = cb THEN References(o) + 1
                                       ELSE count[o] + Times(o, peers \o list)]
            /\ UNCHANGED fault
       ELSE fault' = "full" /\ UNCHANGED <<py_ptr, due, count>>
  /\ UNCHANGED <<p, pc, running, on_loop, script, overdrawn, asked>>

Expects(f, kind) == {i \in DOMAIN Params[f] : Params[f][i] = kind}

(* What the script can pass: peers it has, and a callback of which nobody  *)
(* waits for the call already.                                             *)
Passes(f, peers, list, cb) ==
  /\ peers \in [1 .. Cardinality(Expects(f, "peer")) -> script]
  /\ list \in IF Expects(f, "list") = {} THEN {<<>>} ELSE Lists
  /\ \A i \in DOMAIN list : list[i] \in script
  /\ cb = None \/ (Usable(cb) /\ ~Waiting(cb) /\ References(cb) < MaxRefs)
  /\ \A i \in DOMAIN (peers \o list) : count[(peers \o list)[i]] < MaxRefs

(* bad is the place of the first argument that will not parse, or 0; if    *)
(* the number of arguments is wrong none will.  The functions on messages  *)
(* need their callback.                                                    *)
call(f, peers, list, cb, bad) ==
  /\ Runs /\ Passes(f, peers, list, cb)
  /\ bad \in 0 .. Len(Params[f]) \cup {1}
  /\ Expects(f, "message") # {} /\ cb = None => bad = 1
  /\ push_py_func(Pushed(f), peers, list, cb, bad)

(* A method parses its arguments itself, and pushes only what is good.     *)
(* That of send_contact builds a tuple without the callback, and without   *)
(* the names when there is no callback.                                    *)
method(m, peers, cb) ==
  /\ Runs
  /\ \E r \in Methods :
       /\ r[1] = m
       /\ Passes(r[2], peers, <<>>, cb)
       /\ Kind[peers[1]] \in r[3]
       /\ r[4] = "needed" => cb # None
       /\ push_py_func(Pushed(r[2]), peers, <<>>, IF r[4] = "lost" THEN None ELSE cb,
                       IF r[4] = "lost" /\ cb = None THEN 3 ELSE 0)

(* tgl calls the handler of an event.                                      *)
Update ==
  /\ fault = "no" /\ pc = "idle"
  /\ pc' = "script"
  /\ UNCHANGED <<py_ptr, p, running, on_loop, script, count, overdrawn, asked, due, fault>>

(* The script returns; the callback gives its callable back.               *)
ScriptReturns ==
  /\ fault = "no" /\ pc = "script"
  /\ pc' = "idle" /\ running' = None
  /\ UNCHANGED <<py_ptr, p, on_loop, script, overdrawn, asked, due>>
  /\ Release([o \in Obj |-> count[o] - One(o, running)])

-----------------------------------------------------------------------------
(* The queue is worked off. *)

py_do_all ==
  /\ fault = "no" /\ pc = "idle" /\ (py_ptr # <<>> \/ on_loop # None)
  /\ pc' = (IF on_loop # None THEN "on_loop" ELSE "do") /\ p' = 0
  /\ UNCHANGED <<py_ptr, running, on_loop, script, count, overdrawn, asked, due, fault>>

py_on_loop_returns ==
  /\ fault = "no" /\ pc = "on_loop"
  /\ pc' = "do"
  /\ UNCHANGED <<py_ptr, p, running, on_loop, script, count, overdrawn, asked, due, fault>>

Doing == fault = "no" /\ pc = "do" /\ p < Len(py_ptr)
Cmd == py_ptr[p + 1]

Parses == Cmd.bad = 0
Unknown == Cmd.fun = "accept_secret_chat"

(* Was the parameter read before the first bad argument?                   *)
Read(c, i) == c.bad = 0 \/ i < c.bad

(* The peers of the tuple that were read.                                  *)
ReadPeers(c) ==
  {k \in DOMAIN c.peers :
     \E i \in Expects(c.fun, "peer") :
       Read(c, i) /\ k = Cardinality({j \in Expects(c.fun, "peer") : j <= i})}

(* A mutant: the tuple is released as well, and what it holds with it. *)
Released_twice(c, o) ==
  2 * (Cardinality({k \in ReadPeers(c) : c.peers[k] = o})
  + (IF \E i \in Expects(c.fun, "list") : Read(c, i) THEN Times(o, c.list) ELSE 0))

(* How often the object is released behind the command: as a peer that was *)
(* read, when the list is freed, and as the peer that was read last from   *)
(* the list.                                                               *)
Released(c, o) ==
  Cardinality({k \in ReadPeers(c) : c.peers[k] = o})
  + (IF \E i \in Expects(c.fun, "list") : Read(c, i) THEN Times(o, c.list) ELSE 0)
  + (IF Founded(c) THEN One(o, c.list[Len(c.list)]) ELSE 0)

Overdraw == overdrawn' = overdrawn \cup {o \in Peer : Founded(Cmd) /\ o = Cmd.list[Len(Cmd.list)]}

(* Behind each command the callable is counted for the callback, and the   *)
(* arguments are released.                                                 *)
CleanedUp ==
  [o \in Obj |-> count[o] - Released(Cmd, o) + IF Parses THEN One(o, Cmd.cb) ELSE 0]

Rest == SubSeq(due, 2, Len(due))

clean_up(released) ==
  /\ p' = p + 1 /\ due' = IF Sound(Cmd) THEN Rest ELSE due
  /\ Overdraw /\ Release(released)

Call(c) == [fun |-> c.fun, extra |-> c.cb]

Ask == asked' = asked \cup (IF Cmd.cb = None THEN {} ELSE {Call(Cmd)})

(* A mutant: tgl is asked before the arguments are parsed. *)
do_command_unparsed ==
  /\ Doing /\ ~Unknown /\ ~TooFew(Cmd)
  /\ Ask
  /\ UNCHANGED <<py_ptr, pc, running, on_loop, script>>
  /\ clean_up(CleanedUp)

do_command ==
  /\ Doing /\ ~Unknown /\ Parses /\ ~TooFew(Cmd)
  /\ Ask
  /\ UNCHANGED <<py_ptr, pc, running, on_loop, script>>
  /\ clean_up(CleanedUp)

(* The arguments are wrong, or the members too few: an error is printed,   *)
(* and nobody is called back.                                              *)
do_nothing ==
  /\ Doing /\ ~Unknown /\ (~Parses \/ TooFew(Cmd))
  /\ UNCHANGED <<py_ptr, pc, running, on_loop, script, asked>>
  /\ clean_up(CleanedUp)

do_unknown ==
  /\ Doing /\ Unknown
  /\ fault' = "unknown"
  /\ UNCHANGED <<py_ptr, p, pc, running, on_loop, script, count, overdrawn, asked, due>>

(* tgl, or py_do_all for a message without media, refuses the command: the *)
(* callback runs now.                                                      *)
do_refused ==
  /\ Doing /\ ~Unknown /\ Parses /\ ~TooFew(Cmd) /\ Cmd.cb # None
  /\ Ask
  /\ pc' = "cb"
  /\ UNCHANGED <<py_ptr, p, running, on_loop, script, count, overdrawn, due, fault>>

(* The callback gives back the reference that is taken for it only behind  *)
(* the command: if that of the tuple is the only one the callable is freed.*)
refused ==
  /\ fault = "no" /\ pc = "cb"
  /\ asked' = {r \in asked : r.extra # Cmd.cb}
  /\ UNCHANGED <<py_ptr, running, on_loop, script>>
  /\ IF count[Cmd.cb] = 1
       THEN fault' = "callable" /\ UNCHANGED <<p, pc, count, overdrawn, due>>
       ELSE /\ pc' = "do"
            /\ clean_up([o \in Obj |-> CleanedUp[o] - One(o, Cmd.cb)])

py_do_all_end ==
  /\ fault = "no" /\ pc = "do" /\ p = Len(py_ptr)
  /\ pc' = "idle" /\ py_ptr' = <<>> /\ p' = 0
  /\ UNCHANGED <<running, on_loop, script, count, overdrawn, asked, due, fault>>

(* tgl answers, and the callback runs.                                     *)
py_cb(c) ==
  /\ fault = "no" /\ pc = "idle" /\ \E r \in asked : r.extra = c
  /\ pc' = "script" /\ running' = c
  /\ asked' = {r \in asked : r.extra # c}
  /\ UNCHANGED <<py_ptr, p, on_loop, script, count, overdrawn, due, fault>>

Stopped == fault # "no" /\ UNCHANGED vars

Script ==
  \/ \E o \in Peer, kept \in {0, 1} : GetPeer(o, kept)
  \/ \E c \in Callable : set_py_on_loop(c)
  \/ \E o \in Peer : Forget(o)
  \/ \E f \in Function, cb \in Callable \cup {None}, bad \in 0 .. 4, list \in Lists \cup {<<>>} :
       \E peers \in [1 .. Cardinality(Expects(f, "peer")) -> Peer] :
         call(f, peers, list, cb, bad)
  \/ \E m \in Method, cb \in Callable \cup {None} :
       \E peers \in UNION {[1 .. n -> Peer] : n \in 1 .. 2} : method(m, peers, cb)

Working == py_do_all \/ py_on_loop_returns \/ do_command \/ do_nothing
             \/ do_unknown \/ do_refused \/ refused \/ py_do_all_end

Next == \/ Script \/ ScriptReturns
        \/ Working
        \/ Update \/ \E c \in Callable : py_cb(c)
        \/ Stopped

Spec == Init /\ [][Next]_vars

-----------------------------------------------------------------------------
(* Properties. *)

(* The calls of which somebody will be called back, and that are not begun *)
(* yet.                                                                    *)
Open == IF pc = "cb" THEN Rest ELSE due
Queued == [i \in DOMAIN Open |-> Call(py_ptr[Open[i]])]

(* The calls whose arguments are right are done once, in their order, and  *)
(* called back once, whatever bad calls are between them and whatever the  *)
(* callbacks and on_loop push meanwhile (README-PY.md:3).                  *)
Calls == INSTANCE CallQueue
           WITH todo <- Queued, Extra <- Callable, Function <- Functions

CallsSpec == Calls!Spec

(* No peer is freed while the script or a command has it, although what    *)
(* py_do_all releases is borrowed from the tuple (python-tg.c:1094); only  *)
(* the last of the list of a group chat is released without a reference.   *)
PeersKept == \A o \in Peer : Dead(count[o], Held(o)) => o \in overdrawn

(* No callable is freed before its callback, or while it is a handler,     *)
(* unless it is a literal that is called back at once.                     *)
CallablesKept ==
  fault = "callable" => pc = "cb" /\ Cmd.cb \notin Named \cup {on_loop}

(* Neither the releases of what is only borrowed nor the reference that is *)
(* taken behind the command, although the comment at python-tg.c:1089 says *)
(* that it is taken as the callable is passed on, frees anything that is   *)
(* in use, but in these two cases.                                         *)
ReferencesKept == PeersKept /\ CallablesKept
=============================================================================
