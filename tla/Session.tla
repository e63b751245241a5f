------------------------------ MODULE Session -------------------------------
(***************************************************************************)
(* The control sessions of telegram-cli: connections of the control        *)
(* socket and the console share one single-threaded event loop, and each   *)
(* connection is a reference-counted struct in_ev (interface.h:65).        *)
(*                                                                         *)
(* A reference is held by the open connection (loop.c:751), by notify_ev   *)
(* (interface.c:803) and by each query in flight, whose callback gets the  *)
(* handle back as `extra' (the do_* and *_gw functions of interface.c).    *)
(* NoEv is the NULL handle: the console.                                   *)
(*                                                                         *)
(* The commands are told apart only by what they do to the shared state:   *)
(*   query           takes a reference and issues a query of tgl           *)
(*   plain           answers at once, or not at all, and keeps nothing     *)
(*   load            load_photo and the like, and msg_with_keyboard, which *)
(*                   may take a reference and never use it                 *)
(*   main_session, chat_with_peer, quit, safe_quit                         *)
(***************************************************************************)
EXTENDS Integers, FiniteSets

CONSTANTS Handle,     \* addresses of struct in_ev; malloc may reuse one
          Query,      \* slots for queries in flight; bounds how many there are
          NoEv,       \* ev == NULL: the console
          Idle,       \* a query slot that is not in use
          MaxCount,   \* bound on N of the [xN] modifier
          MaxLines,   \* bound on the lines one read event finds
          MaxLost     \* bound on the references of a handle that get lost

ASSUME SessionAssumption ==
  /\ IsFiniteSet(Query)
  /\ "conn" \notin Query /\ "notify" \notin Query
  /\ NoEv \notin Handle /\ Idle \notin Handle /\ NoEv # Idle
  /\ MaxCount \in Nat /\ MaxLines \in Nat /\ MaxLost \in Nat

Command == {"query", "plain", "load", "main_session", "chat_with_peer",
            "quit", "safe_quit"}

Signal == {"SIGTERM", "SIGINT"}

VARIABLES
  daemonize,     \* the -d option, given when the program starts
  live,          \* the handles that malloc gave and free has not taken back
  bev,           \* bev[e]: the connection of e is open (ev->bev != NULL)
  refcnt,        \* refcnt[e]: ev->refcnt
  notify_ev,     \* the session that gets the updates
  extra,         \* extra[q]: the handle the callback of query q will get
  lost,          \* lost[e]: references to e that no one will release
  in_chat_mode,  \* every line is a message to one peer
  pc,            \* "loop": between callbacks; "read": in a read callback;
                 \* "call": in interpreter_ex, running a command `count' times
  cur,           \* the session whose lines are read
  lines,         \* how many complete lines this read event still has
  fun, count,    \* the command being run, and how often it is still to run
  safe_quit,     \* the flag of net_loop
  sigterm,       \* the signals that arrived once (sigterm_cnt > 0 if any)
  ran,           \* a callback ran since the body of net_loop last did
  exited,        \* how the process ended, or "no"
  fault          \* memory was used after free, or through NULL

handles  == <<live, bev, refcnt, notify_ev, extra, lost>>
reader   == <<pc, cur, lines, fun, count>>
process  == <<safe_quit, sigterm, ran, exited>>
vars     == <<daemonize, handles, in_chat_mode, reader, process, fault>>

TypeOK ==
  /\ daemonize \in BOOLEAN
  /\ live \subseteq Handle
  /\ bev \in [Handle -> BOOLEAN]
  /\ refcnt \in [Handle -> Int]
  /\ notify_ev \in Handle \cup {NoEv}
  /\ extra \in [Query -> Handle \cup {NoEv, Idle}]
  /\ lost \in [Handle -> 0 .. MaxLost]
  /\ in_chat_mode \in BOOLEAN
  /\ pc \in {"loop", "read", "call"}
  /\ cur \in Handle \cup {NoEv}
  /\ lines \in 0 .. MaxLines
  /\ fun \in Command
  /\ count \in 0 .. MaxCount
  /\ safe_quit \in BOOLEAN
  /\ sigterm \subseteq Signal
  /\ ran \in BOOLEAN
  /\ exited \in {"no", "quit", "safe_quit", "sigterm", "killed"}
  /\ fault \in BOOLEAN

Init ==
  /\ daemonize \in BOOLEAN
  /\ live = {}
  /\ bev = [e \in Handle |-> FALSE]
  /\ refcnt = [e \in Handle |-> 0]
  /\ notify_ev = NoEv
  /\ extra = [q \in Query |-> Idle]
  /\ lost = [e \in Handle |-> 0]
  /\ in_chat_mode = FALSE
  /\ pc = "loop" /\ cur = NoEv /\ lines = 0 /\ fun = "plain" /\ count = 0
  /\ safe_quit = FALSE /\ sigterm = {} /\ ran = FALSE /\ exited = "no"
  /\ fault = FALSE

Running == exited = "no" /\ ~fault

(* net_loop waits in event_base_loop, and no callback is running. *)
AtLoop == Running /\ pc = "loop"

-----------------------------------------------------------------------------
(* References. *)

(* A mutant: the handle goes while one reference is left. *)
release_early(e) ==
  /\ refcnt' = [refcnt EXCEPT ![e] = @ - 1]
  /\ live' = IF refcnt[e] <= 2 THEN live \ {e} ELSE live

(* if (!--ev->refcnt) { free (ev); } *)
release(e) ==
  /\ refcnt' = [refcnt EXCEPT ![e] = @ - 1]
  /\ live' = IF refcnt[e] = 1 THEN live \ {e} ELSE live

(* The queries in flight that hold e. *)
Asked(e) == {q \in Query : extra[q] = e}

(* A slot is idle: TLS->active_queries counts the others. *)
IdleQuery == {q \in Query : extra[q] = Idle}

(* A mutant: the query does not take its reference. *)
issue_unreferenced(q, e) ==
  /\ extra[q] = Idle
  /\ extra' = [extra EXCEPT ![q] = e]
  /\ UNCHANGED <<live, bev, refcnt, notify_ev, lost>>

(* if (ev) { ev->refcnt ++; } tgl_do_X (TLS, ..., callback, ev); *)
issue(q, e) ==
  /\ extra[q] = Idle
  /\ extra' = [extra EXCEPT ![q] = e]
  /\ refcnt' = IF e = NoEv THEN refcnt ELSE [refcnt EXCEPT ![e] = @ + 1]
  /\ UNCHANGED <<live, bev, notify_ev, lost>>

-----------------------------------------------------------------------------
(* The callbacks of libevent. *)

accept_incoming(e) ==
  /\ AtLoop
  /\ e \notin live
  /\ live' = live \cup {e}
  /\ bev' = [bev EXCEPT ![e] = TRUE]
  /\ refcnt' = [refcnt EXCEPT ![e] = 1]
  /\ ran' = TRUE
  /\ UNCHANGED <<daemonize, notify_ev, extra, lost, in_chat_mode, reader,
                 safe_quit, sigterm, exited, fault>>

(* A mutant: the end of the connection keeps its reference. *)
close_incoming_unreleased(e) ==
  /\ bev' = [bev EXCEPT ![e] = FALSE]
  /\ UNCHANGED <<live, refcnt, notify_ev, extra, lost>>

(* The connection ended (BEV_EVENT_EOF or BEV_EVENT_ERROR). *)
close_incoming(e) ==
  /\ bev' = [bev EXCEPT ![e] = FALSE]
  /\ release(e)
  /\ UNCHANGED <<notify_ev, extra, lost>>

event_incoming(e) ==
  /\ AtLoop
  /\ bev[e]
  /\ close_incoming(e)
  /\ ran' = TRUE
  /\ UNCHANGED <<daemonize, in_chat_mode, reader, safe_quit, sigterm, exited,
                 fault>>

(* Data of connection e, or of the console, with n complete lines in it. *)
start_reading(e, n) ==
  /\ AtLoop
  /\ pc' = "read" /\ cur' = e /\ lines' = n
  /\ UNCHANGED <<daemonize, handles, in_chat_mode, fun, count, process, fault>>

read_incoming(e, n) == bev[e] /\ start_reading(e, n)

stdin_read_callback(n) == start_reading(NoEv, n)

(* No complete line is left: the callback returns to the loop. *)
read_end ==
  /\ Running /\ pc = "read" /\ lines = 0
  /\ pc' = "loop" /\ cur' = NoEv /\ ran' = TRUE
  /\ UNCHANGED <<daemonize, handles, in_chat_mode, lines, fun, count,
                 safe_quit, sigterm, exited, fault>>

(* A timer or a packet of tgl that changes nothing here wakes the loop. *)
tick ==
  /\ AtLoop
  /\ ran' = TRUE
  /\ UNCHANGED <<daemonize, handles, in_chat_mode, reader, safe_quit, sigterm,
                 exited, fault>>

-----------------------------------------------------------------------------
(* The interpreter.  A line it cannot parse is a plain command: it answers *)
(* FAIL at once, or nothing.                                               *)

(* Mutants: one line too many is taken, and chat mode is not looked at. *)
interpreter_ex_overrun(f, n) ==
  /\ Running /\ pc = "read" /\ ~in_chat_mode
  /\ f \in {"query", "load"} => n <= Cardinality(IdleQuery)
  /\ pc' = "call" /\ fun' = f /\ count' = n /\ lines' = lines - 1
  /\ UNCHANGED <<daemonize, handles, in_chat_mode, cur, process, fault>>

interpreter_ex_in_chat(f, n) ==
  /\ Running /\ pc = "read" /\ lines > 0
  /\ f \in {"query", "load"} => n <= Cardinality(IdleQuery)
  /\ pc' = "call" /\ fun' = f /\ count' = n /\ lines' = lines - 1
  /\ UNCHANGED <<daemonize, handles, in_chat_mode, cur, process, fault>>

(* One line names command f, to be run n times. *)
interpreter_ex(f, n) ==
  /\ Running /\ pc = "read" /\ lines > 0 /\ ~in_chat_mode
  /\ f \in {"query", "load"} => n <= Cardinality(IdleQuery)
  /\ pc' = "call" /\ fun' = f /\ count' = n /\ lines' = lines - 1
  /\ UNCHANGED <<daemonize, handles, in_chat_mode, cur, process, fault>>

(* In chat mode a line of ANY session is a message to the peer, or /exit. *)
interpreter_chat_mode ==
  /\ Running /\ pc = "read" /\ lines > 0 /\ in_chat_mode
  /\ lines' = lines - 1
  /\ \/ in_chat_mode' = FALSE /\ UNCHANGED handles
     \/ \E q \in Query : issue(q, NoEv) /\ UNCHANGED in_chat_mode
     \/ UNCHANGED <<in_chat_mode, handles>>
  /\ UNCHANGED <<daemonize, pc, cur, fun, count, process, fault>>

(* One of the `count' calls of the command: fun (command, args, ev). *)
Calling(f) ==
  /\ Running /\ pc = "call" /\ fun = f /\ count > 0
  /\ cur \in live \cup {NoEv}
  /\ count' = count - 1
  /\ UNCHANGED <<pc, cur, lines, fun, daemonize>>

do_plain ==
  /\ Calling("plain")
  /\ UNCHANGED <<handles, in_chat_mode, process, fault>>

(* tgl takes the query up, or refuses it at once: then the reference that  *)
(* was taken for it is given back within the call.                         *)
do_query ==
  /\ Calling("query")
  /\ \/ \E q \in Query : issue(q, cur)
     \/ UNCHANGED handles
  /\ UNCHANGED <<in_chat_mode, process, fault>>

(* load_*: the media of the message decides.  A file is loaded by a query; *)
(* an url or a place is answered at once (reference taken and given back); *)
(* for other media the reference is taken and nothing gives it back;       *)
(* without the message, or for a service message, nothing happens.         *)
(* do_msg_kbd (interface.c:858) issues a query, or keeps the reference     *)
(* when the keyboard cannot be parsed.                                     *)
do_load_photo ==
  /\ Calling("load")
  /\ \/ \E q \in Query : issue(q, cur)
     \/ UNCHANGED handles
     \/ /\ cur # NoEv /\ lost[cur] < MaxLost
        /\ refcnt' = [refcnt EXCEPT ![cur] = @ + 1]
        /\ lost' = [lost EXCEPT ![cur] = @ + 1]
        /\ UNCHANGED <<live, bev, notify_ev, extra>>
  /\ UNCHANGED <<in_chat_mode, process, fault>>

do_chat_with_peer ==
  /\ Calling("chat_with_peer")
  /\ in_chat_mode' = IF cur = NoEv THEN TRUE ELSE in_chat_mode
  /\ UNCHANGED <<handles, process, fault>>

(* The handle that gave the updates up loses a reference.  When that was   *)
(* its last one and ev is the same handle, ev->refcnt is touched freed: a  *)
(* fault, and nothing is said of the state after one.                      *)
do_main_session ==
  /\ Calling("main_session")
  /\ LET without == IF notify_ev = NoEv THEN refcnt
                    ELSE [refcnt EXCEPT ![notify_ev] = @ - 1]
         freed == {e \in {notify_ev} \ {NoEv} : refcnt[e] = 1}
     IN IF cur \in freed
          THEN fault' = TRUE /\ UNCHANGED handles
          ELSE /\ live' = live \ freed
               /\ refcnt' = IF cur = NoEv THEN without
                            ELSE [without EXCEPT ![cur] = @ + 1]
               /\ notify_ev' = cur
               /\ UNCHANGED <<bev, extra, lost, fault>>
  /\ UNCHANGED <<in_chat_mode, process>>

(* What both quit commands begin with.  A daemon ends the connection that  *)
(* asked, from within its read callback; the console has no connection     *)
(* (ev->bev is read through NULL), nor has a session that quit before.     *)
quit_connection ==
  \/ ~daemonize /\ UNCHANGED <<handles, fault>>
  \/ /\ daemonize /\ cur # NoEv /\ bev[cur]
     /\ close_incoming(cur)
     /\ UNCHANGED fault
  \/ /\ daemonize /\ (cur # NoEv => ~bev[cur])
     /\ fault' = TRUE
     /\ UNCHANGED handles

(* exit, unless in a daemon. *)
do_halt(how) == exited' = IF daemonize THEN exited ELSE how

do_quit ==
  /\ Calling("quit")
  /\ quit_connection
  /\ do_halt("quit")
  /\ UNCHANGED <<in_chat_mode, safe_quit, sigterm, ran>>

do_safe_quit ==
  /\ Calling("safe_quit")
  /\ quit_connection
  /\ safe_quit' = TRUE
  /\ UNCHANGED <<in_chat_mode, sigterm, ran, exited>>

(* The command has run, and read_incoming goes on with ev->in_buf. *)
return_to_reader ==
  /\ Running /\ pc = "call" /\ count = 0 /\ cur \in live \cup {NoEv}
  /\ pc' = "read" /\ fun' = "plain"
  /\ UNCHANGED <<daemonize, handles, in_chat_mode, cur, lines, count, process,
                 fault>>

(* The command, or read_incoming after it, uses ev after its free. *)
use_after_free ==
  /\ Running /\ pc = "call" /\ cur \in Handle \ live
  /\ fault' = TRUE
  /\ UNCHANGED <<daemonize, handles, in_chat_mode, reader, process>>

-----------------------------------------------------------------------------
(* The library, the signals and the body of net_loop. *)

(* tgl calls back with the answer of q, once; `extra' is the handle. *)
print_gw(q) ==
  /\ AtLoop
  /\ extra[q] # Idle
  /\ extra' = [extra EXCEPT ![q] = Idle]
  /\ IF extra[q] = NoEv THEN UNCHANGED <<live, refcnt>> ELSE release(extra[q])
  /\ ran' = TRUE
  /\ UNCHANGED <<daemonize, bev, notify_ev, lost, in_chat_mode, reader,
                 safe_quit, sigterm, exited, fault>>

(* A query that no session waits for: the periodic tgl_do_lookup_state of  *)
(* net_loop, and marking a history as read.  The latter is issued by the   *)
(* callback that answers (interface.c:2384); to take it for a callback of  *)
(* its own only adds orders of the two.                                    *)
own_query(q) ==
  /\ AtLoop
  /\ issue(q, NoEv)
  /\ ran' = TRUE
  /\ UNCHANGED <<daemonize, in_chat_mode, reader, safe_quit, sigterm, exited,
                 fault>>

(* The first signal of a kind is noted, and the second one kills. *)
sig_term_handler(s) ==
  /\ Running
  /\ IF s \in sigterm
       THEN exited' = "killed" /\ UNCHANGED sigterm
       ELSE sigterm' = sigterm \cup {s} /\ UNCHANGED exited
  /\ UNCHANGED <<daemonize, handles, in_chat_mode, reader, safe_quit, ran,
                 fault>>

(* Mutants: the flag is cleared too early, and it hides the signals. *)
net_loop_forgets ==
  /\ AtLoop /\ ran
  /\ ran' = FALSE
  /\ safe_quit' = FALSE
  /\ IF safe_quit /\ IdleQuery = Query THEN do_halt("safe_quit")
     ELSE IF sigterm # {} THEN do_halt("sigterm") ELSE UNCHANGED exited
  /\ UNCHANGED <<daemonize, handles, in_chat_mode, reader, sigterm, fault>>

net_loop_either ==
  /\ AtLoop /\ ran
  /\ ran' = FALSE
  /\ IF safe_quit
       THEN IF IdleQuery = Query
              THEN safe_quit' = FALSE /\ do_halt("safe_quit")
              ELSE UNCHANGED <<safe_quit, exited>>
       ELSE /\ UNCHANGED safe_quit
            /\ IF sigterm # {} THEN do_halt("sigterm") ELSE UNCHANGED exited
  /\ UNCHANGED <<daemonize, handles, in_chat_mode, reader, sigterm, fault>>

(* event_base_loop returned: the two reasons to halt are looked at. *)
net_loop ==
  /\ AtLoop /\ ran
  /\ ran' = FALSE
  /\ IF safe_quit /\ IdleQuery = Query
       THEN safe_quit' = FALSE /\ do_halt("safe_quit")
       ELSE /\ UNCHANGED safe_quit
            /\ IF sigterm # {} THEN do_halt("sigterm") ELSE UNCHANGED exited
  /\ UNCHANGED <<daemonize, handles, in_chat_mode, reader, sigterm, fault>>

Stopped == ~Running /\ UNCHANGED vars

Call == \/ do_plain \/ do_query \/ do_load_photo \/ do_chat_with_peer
        \/ do_main_session \/ do_quit \/ do_safe_quit

Next ==
  \/ \E e \in Handle : accept_incoming(e) \/ event_incoming(e)
  \/ \E e \in Handle, n \in 0 .. MaxLines : read_incoming(e, n)
  \/ \E n \in 0 .. MaxLines : stdin_read_callback(n)
  \/ \E f \in Command, n \in 0 .. MaxCount : interpreter_ex(f, n)
  \/ interpreter_chat_mode
  \/ Call
  \/ return_to_reader \/ use_after_free \/ read_end
  \/ \E q \in Query : print_gw(q) \/ own_query(q)
  \/ \E s \in Signal : sig_term_handler(s)
  \/ tick \/ net_loop \/ Stopped

Spec == Init /\ [][Next]_vars

(* A read callback runs to its end; tgl sooner or later answers each query *)
(* (an error of the network or of the server is an answer too); the timers *)
(* of tgl keep the loop turning; and EVLOOP_ONCE returns after the events  *)
(* it found, however many others arrive, so the body of net_loop runs.     *)
Reading == \/ \E f \in Command, n \in 0 .. MaxCount : interpreter_ex(f, n)
           \/ interpreter_chat_mode \/ Call \/ return_to_reader
           \/ use_after_free \/ read_end

Fairness == /\ WF_vars(Reading)
            /\ \A q \in Query : SF_vars(print_gw(q))
            /\ SF_vars(tick)
            /\ SF_vars(net_loop)

FairSpec == Spec /\ Fairness

-----------------------------------------------------------------------------
(* Properties. *)

One(b) == IF b THEN 1 ELSE 0

(* The count of a handle is the number of its holders: its connection,     *)
(* notify_ev, the queries in flight, and the references that got lost.  A  *)
(* handle is allocated exactly while that number is positive, whatever     *)
(* order the holders leave in (loop.c:727, interface.c:803 and 2329).      *)
HandleCounted ==
  \A e \in Handle :
    /\ refcnt[e] = One(bev[e]) + One(notify_ev = e) + Cardinality(Asked(e))
                     + lost[e]
    /\ e \in live <=> refcnt[e] > 0

(* A handle is used after its free, or through NULL, only in a daemon, and *)
(* only by the session that itself asked to quit (interface.c:769-781): no *)
(* order of disconnects, answers and hand-overs makes it happen otherwise. *)
FaultOnlyByDaemonQuit ==
  fault => daemonize /\ (cur \in Handle => ~bev[cur])

(* While the console chats, the sockets' lines are chat lines as well: no  *)
(* session can take the updates over, or ask the program to quit           *)
(* (interface.c:3393).                                                     *)
ChatModeShields ==
  [][in_chat_mode => /\ notify_ev' = notify_ev
                     /\ safe_quit' => safe_quit
                     /\ exited' # "quit" \/ exited = "quit"]_vars

(* "Quits immediately" (interface.c:1722): a quit command ends the process. *)
QuitExits ==
  [][Calling("quit") /\ ~fault' => exited' # "no"]_vars

(* "Waits for all queries to end, then quits" (interface.c:1737): when no  *)
(* query is issued any more, a safe_quit ends a process that is no daemon, *)
(* since every query is answered and the loop looks at the flag again      *)
(* after that.                                                             *)
SafeQuitEnds ==
  <>[][\A q \in Query : extra[q] = Idle => extra'[q] = Idle]_vars
    => ((safe_quit /\ ~daemonize) ~> ~Running)

(* The handle of a connection that ended is given back to malloc, unless   *)
(* it is still the one that gets the updates or has lost a reference       *)
(* (loop.c:734 and the callbacks of interface.c).                          *)
ClosedIsFreed ==
  \A e \in Handle :
    (e \in live /\ ~bev[e])
      ~> (e \notin live \/ notify_ev = e \/ lost[e] > 0 \/ ~Running)

(* The first SIGTERM ends a process that is no daemon once the loop runs   *)
(* again: it is noted in a flag only, and wakes nobody (main.c:826).       *)
SignalEnds == (sigterm # {} /\ ~daemonize) ~> ~Running

(* The handles and their counters implement the handles with named holders *)
(* of SharedHandle: every change of a count is a holder coming or going.   *)
Holders(e) == (IF bev[e] THEN {"conn"} ELSE {})
                \cup (IF notify_ev = e THEN {"notify"} ELSE {})
                \cup Asked(e)

Shared == INSTANCE SharedHandle
            WITH Conn <- "conn", Notify <- "notify",
                 holders <- [e \in Handle |-> Holders(e)],
                 pinned <- {e \in Handle : lost[e] > 0}

SharedSpec == Shared!Spec

=============================================================================
