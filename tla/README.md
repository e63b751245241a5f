# Verification of telegram-cli / telegrab

`src/` is `telegram-cli` (an interactive and scriptable Telegram client built on the `tgl`
library) together with `telegrab`, an add-on that dumps the fetched messages to disk. The
library itself is an empty git submodule, so it is modelled only as far as the code in
`src/` uses it (marked external).

## 1. Inventory

Everything runs in one thread on one libevent loop (`net_loop`, loop.c:311). There is no
preemption, yet there is plenty of interleaving: socket reads, stdin reads, connection ends,
answers of the network, timers, pushed updates and signals come in any order, and each
handler shares globals with the others.

| component | source | state | operations |
|---|---|---|---|
| control sessions | loop.c 690-755, interface.c `do_*`, `*_gw` | `struct in_ev` (bev, in_buf, refcnt, error, fd), `notify_ev` | accept, read, close, issue a query, answer, `main_session`, quit |
| line framing | loop.c 274-308, 690-725 | `in_buf`, `in_buf_pos`, `error`; `line_buffer` | fill, scan, hand a line over, skip |
| command interpreter | interface.c 3424-3710, 221-460 | `line_ptr`, `cur_token*`, `args[1000]`, `count`, modifiers, `in_readline` | tokenize, modifiers, match arguments, dispatch |
| answer buffer | interface.c 172-201 | `socket_answer_pos` | start, add, end |
| secret prompts, readline | loop.c 108-250, interface.c 3727-3790 | `one_string_*`, `read_one_string`, `prompt_was`, `saved_line` | ask, read, finish, (de)activate readline |
| process life cycle | loop.c 311-354, 757-875, main.c 800-890 | `safe_quit`, `sigterm_cnt`, `wait_dialog_list`, `start_command`, `daemonize` | login, started, `-e` commands, quit, signals |
| persistent files | loop.c 389-690 | auth, state and secret-chat files | write, read at start |
| update notification | interface.c 2875-3300, 3366 | `unread_message_list`, its timer, the index of user names | batch, flush, index, print to `notify_ev` |
| Lua bridge | lua-tg.c | `lua_ptr`/`pos` queue, registry references | enqueue, `lua_do_all`, answer, postpone |
| Python bridge | python-tg.c, python-types.c | `py_ptr` queue, object references | enqueue, `py_do_all`, answer |
| JSON output | json-tg.c | none | packing of objects |
| completion | interface.c 1786-2235 | `autocomplete_*`, `index` | `command_generator` |
| telegrab dump | telegrab*.c | files under `grab/` | append a message, chat list, downloads, resume position |
| daemon scripts | telegram-daemon, start-telegram-daemon | lock and pid files | start, stop, status, signal |
| options, configuration | main.c 130-720 | globals | parse, create directories |
| printing, packaging | interface.c 3842-4460, build files | none of interest | |

How they interact. libevent calls `accept_incoming`, `read_incoming` and `event_incoming`
for the sockets and `stdin_read_callback` for the console; both readers call
`interpreter_ex`, which calls one `do_*` function per command, up to `[xN]` times. A `do_*`
function hands its session to tgl as the `extra` of a query; tgl calls the matching `*_gw`
function later, from the loop. tgl also calls the update functions (new message, read marks,
typing, user changed) whenever the network says so; they print to `notify_ev`. Lua and
Python functions only enqueue; the queues are worked off in the body of `net_loop`, after
each `event_base_loop (EVLOOP_ONCE)`.

What is hard: answers come in any order and after their connection has ended; three kinds of
owners share one reference count; the quit commands behave differently in a daemon; several
commands of one read callback run before the loop looks at its flags; global modes
(`in_chat_mode`, `in_readline`, `reply_id`) are shared by all sessions; files are rewritten
in place. `PROJECT.json` lists each such hazard at its line, with the property that covers
it or a note that none does yet.

What makes each component correct: *sessions*: count = holders, no use after free, the quit
commands end the process as documented; *framing*: exactly the client's lines are
interpreted; *interpreter*: a command gets arguments of its pattern's types, and a socket
command is answered once; *prompts*: each question is answered once, to its asker, and
console output never eats the line being edited; *life cycle*: `-e` commands run after the
dialogs are loaded and before the process leaves; *files*: what is read after a crash is
something that was written; *read marks*: every mark is reported once, in order; *user
names*: the index names the peer that has the name; *Lua queue*: a callback is called once
and its strings are freed once; *telegrab*: a file the dump refers to is there, the list
names each chat once.

## 2. Modules

| module | what it is |
|---|---|
| `SharedHandle` | abstract: handles that live exactly as long as a named holder has them |
| `Session` | all control sessions, the console, the queries in flight, signals and `net_loop` |
| `MCSession`, `MCSession*.cfg` | its instances for TLC |
| `SessionProofs` | its theorems, and that `Session` implements `SharedHandle` |
| `LineBuffer`, `MCLineBuffer` | the framing of one connection, byte by byte |
| `LineBufferProofs` | its theorems |
| `CallQueue` | abstract: calls that are begun in order and called back once |
| `LuaQueue`, `MCLuaQueue` | the queue of the functions that a Lua script calls |
| `LuaQueueProofs` | its theorems, and that it implements `CallQueue` |
| `PyQueue`, `MCPyQueue` | the same for Python, with the reference counts of its objects |
| `PyQueueProofs` | its theorems, and that it implements `CallQueue` |
| `Interpreter`, `MCInterpreter` | how a line becomes a call of a handler |
| `InterpreterProofs` | theorems about the loop and the whole table of commands |
| `StateFiles`, `MCStateFiles` | the auth, state and secret-chat files, over crashes and restarts |
| `StateFilesProofs` | its theorems: what is read of what was written |
| `Grab`, `MCGrab` | the files of telegrab, over crashes and restarts |
| `GrabProofs` | its theorems |
| `Console`, `MCConsole` | the line being typed, the questions of tgl, the read marks |
| `ConsoleProofs` | its theorems |

`Session` and `LuaQueue`/`PyQueue` are composed with their abstract specifications
`SharedHandle` and `CallQueue` through `INSTANCE`. `Grab` has the number of the state file,
and `StateFiles` the rest of it. The other parts share no state that a property relates.

### Session

State: the fields and globals of the same names. `live` is malloc's view of the handles; an
address that was freed may be given out again by a later `accept_incoming`, so the model can
confuse an old session with a new one exactly where the program can. `extra[q]` is the
handle a query in flight will get back, `lost` counts references that no code path gives
back. `daemonize` is chosen at the start and never changes.

A read callback is split into steps because it runs several commands: `read_incoming` or
`stdin_read_callback` (the event), `interpreter_ex` (one line; `pc = "call"`), one `do_*`
step per repetition, `return_to_reader`, `read_end`. No other callback runs in between, as
in the code; signals may. Commands are grouped by their effect on the shared state: about a
hundred query commands differ only in what they print, and are `do_query`. The answer
callbacks `*_gw` are `print_gw`, with what they print left out. `fault` marks a use of freed
or NULL memory and ends the behaviour: nothing is claimed after it.

Facts of libraries used: tgl calls back once per query, later or from within the call that
refuses it; libevent keeps a bufferevent until its callback has returned, so
`bufferevent_free` inside `read_incoming` harms only `ev`. Left out: what is printed, which
includes the pushes to `notify_ev` (they change no state here); answers that are still in
libevent's output when `safe_quit` ends the process; the `clear` command, which frees the
whole library state.

### LineBuffer

`sent` is everything the client has sent, `taken` what `bufferevent_read` has returned, and
`lines` the intervals of `sent` that were interpreted, so the properties compare what was
interpreted with what was meant. `read_incoming` is one event; `bufferevent_read`,
`scan_byte`, `scan_newline` and `scan_end` are the steps of its two loops.

### LuaQueue

`lua_ptr` is the array up to `pos`: what a slot below `pos` was written as (a length, a
function, a waiter, an argument, a string). `flags` is kept for the whole array, because a
slot keeps its flags when the queue is emptied; `strs` and `alive` are malloc's view of the
copied strings and of the `struct lua_query_extra`. `parse_lua_function` is one call from
Lua code, which runs while the loop waits or within a callback (`pc = "cb"`); `lua_do_all`
is split where a callback can run. The fifty functions are grouped by their parameters:
`Params` has one of each kind, the two that `lua_do_all` treats wrongly among them
(`set_profile_name`, whose case takes two strings, and `restore_msg`, which has no case). A
`fault` names what ends the process or its defined behaviour, and nothing is claimed after
it: `full` (the assertion for room), `unknown` (the assertion of the default case),
`overread`, `freed`. `heads` is history: where the commands begin that are in the queue and
not done. `Queued` reads the slots behind them as `lua_do_all` will read them; with it for
`todo`, `LuaQueue` implements `CallQueue`.

Left out: calls with a wrong number of arguments (they return before they change anything),
the Lua registry, `postpone_function`, `register_interface_function` and the update
callbacks.

### PyQueue

The same loop for Python, and what Lua has no counterpart of: the script's objects live by
reference counting. `count` is kept by the INCREFs and DECREFs of the code, `Held` says who
has the object, so a disagreement is a leak or a use after free. The code gives back
something else than it took: tuples that were worked off are never released and the peers in
them are released in their place; a callable is counted twice and given back once.
`ReferencesKept` says that all this frees nothing that is in use, with two exceptions, each
a path of its own: the last peer of the list of `create_group_chat` is released once more
than it is held (python-tg.c:1020), and a literal callable that is called back within its
command (`load_*` of a message without media) is freed before py_do_all counts it
(python-tg.c:1090, whose comment says otherwise).

A tuple is parsed only by `py_do_all`, after the call returned True. `bad` is the first
argument that does not fit: nothing is called back then. `due` is history: the places of the
commands not done whose arguments fit. With the calls at these places for `todo` (`Queued`),
`PyQueue` implements `CallQueue`. Calls that differ in nothing but the command are grouped; strings and numbers
are left out. `MaxRefs` bounds the counters, which leaks let grow. Left out: the attributes
of `tgl.Peer` and `tgl.Msg`, which only convert, and scripts that keep the tuple or the list
they pass.

### Interpreter

`commands` is the table of the same name: a row for commands with one pattern whose handlers
do the same with it, with what the handler reads of each slot, the least number of arguments
it asserts, and how it may answer. The five ways to name a peer are one kind. A token is its
quoting and what it can be parsed as, and is chosen when the loop reads it, so no line is
written out. Each step is one way through the body of the loop (interface.c:3521-3698).
`args` has the members of the union that were written, `flags` and `owned` the flags and
malloc's view of the strings, which outlive the line.

`LineFits` compares the loop, which is greedy and gives back at most one token, with a
definition that does not mention it: a line fits if it can be cut so that each element of
the pattern takes the tokens between two cuts (`Ends`). The code accepts an empty list where
the help says `<user>+`; a quote that never ends counts as an absent optional string; and
the greedy loop misses lines of `broadcast` and of `search` whose text begins with a name.
What is true is stated with these exceptions. `HandlerReadsWhatIsStored` has two:
`reply_audio`, whose handler is that of another command, and a broadcast without text.

### StateFiles

A file is a sequence of words. Writing goes over what is there without truncating it
(loop.c:480, 524), so a longer rest stays behind a shorter content; a name or an address
takes as many words as its length, so records shift. The process may be killed between any
two writes; a write is not reordered or lost once it returned (a power failure is not
modelled). What the next start would read is evaluated in every state, and `start` does it.
`saved`, `attempt` and `torn` are history. The lengths of names and addresses are those that
reading accepts (the assertions of loop.c:548 and 630); writing does not test them
(`StateFilesAssumption`). Reading a secret chat drops its name (loop.c:665 passes NULL), and
tgl makes another, so `names` are chosen anew at each start (`Named`) and the same chats may
be written with records of other lengths; a `Record` is a content with its lengths. `write_dc`
asserts that the center is logged in to (loop.c:468); tgl calls `on_login` only then, and
otherwise the process ends within the write, like a kill.

What it shows. A login that is killed within its first `write_auth_file` leaves a file that
every later start dies on, until somebody deletes it; a rewrite with the same centers is
harmless if their addresses have the lengths they had. The secret-chat file says 2 chats while
it is written (loop.c:531): killed then, a file with fewer makes the next start die, and one
with more loses all but two. `TornIsReadable` states the cases that are safe: for the same
chats their names must have the lengths they had, which nothing in the code sees to over a
restart. Reading a word of another field is garbage, which is not followed (`dead`).

### Grab

The files under `grab/`: `pages` (messages in the order they were dumped), `list` (the lines
of list.html), `files` (what was downloaded), `exists` (the two files whose order of
creation matters). `dump_message_html` runs in one callback, and is split where it writes,
because the process may be killed there. list.html is truncated and written through stdio,
whose blocks end within a line (telegrab-html.c:287): a kill leaves it empty or `Damaged`. A
damaged list has its first line, which is shorter than a block; behind it lines are missing,
torn, or joined by the next rewriting, and whether a chat is found in it is left open
(`Found`). Nothing in the code repairs it. A list of less than a block (4096 bytes) is only
ever empty after a kill; the model does not tell short lists from long ones. A message comes
again after a restart unless the state file counted it, so it may be in its page twice,
never not at all (`NeverLost`).

`Listed` says that every other kill, between any two writes, leaves the list whole; of a list
that was cut off (`cut`) it says nothing. Peers of different kinds with one number share a
line and an avatar (telegrab-html.c:228); `Listed` admits that. Names of media are made of
`rand ()`, which is never seeded: unique within a run if its results do not repeat, and the
same in the next run, whose downloads replace the older ones. An empty list.html leaves the
number of lines undefined, which is not followed (`lost`). Killed behind index.html but
before list.html, the process ends at every later message (`no_list`). Service messages, and
those that are deleted, empty or not created, are counted and not dumped (`NotDumped`,
interface.c:4296), so `NeverLost` excepts them. Left out: running with `--json`
(interface.c:3070) or with output disabled, where nothing is dumped and all is counted; the
text mode; the page's markup; and which user names the index knows already, so that
`print_user_update_gw` may always take a result of `rand` (the code does not for a known
name), which only adds behaviours.

### Console

The mode with readline. `line` and `saved` are lengths, `typed` what the user typed:
`TypedKept` says that prints and questions in any order give the line back. A callback
prints between `print_start` and `print_end`; a command prints within `interpreter_ex`,
where both do nothing. `do_get_values` may be called again by its callback (tgl repeats a
question), or by another query while a question is open: the first asker is then never
called (loop.c:246), which `waiting` records. A bot's hash given
as an option is answered without a question (`do_get_bot_hash`).

`unread` is the batch of read marks; `told` counts what was printed of each peer, and `read`
what was marked while `log_level` was at 1 or more: below that, which `set log_level` chooses
at any time, `mark_read_upd` returns at once (interface.c:2957). Its other guard,
`binlog_read`, is set before `net_loop` (loop.c:843), where all this happens. A channel has no
line to print (`assert (0)`, interface.c:2938): `print_read_list` with a mark of a `Channel`
ends the process, in a state of its own (`aborted`), which `MarksCounted` admits and the other
assertions may not reach. Whether tgl ever reports marks of channels is not in `src/`.

Left out: the characters of an answer, the mode without readline, JSON (which prints one
message of each peer instead of a count), and that the messages of a batch are kept by
pointer.

## 3. Runs

| run | instance | shows |
|---|---|---|
| `session` | 2 handles, 2 queries, 2 lines per read, `[x2]`, 1 lost reference; symmetric | safety and refinement, 1.4 million states |
| `session_live` | 1 handle, 2 queries, 1 line, `[x1]` | liveness, 119 thousand states |
| `session_quit` | 1 handle, 1 query | a violation, see below |
| `line_buffer` | buffer of 4, all data of up to 9 bytes in all divisions | framing, 57 thousand states |
| `lua_queue` | 11 slots, 3 waiters, 5 kinds of functions | safety, refinement and liveness, 196 thousand states |
| `lua_freed` | 13 slots, 2 waiters | a violation, see below |
| `py_queue` | 5 slots, a peer, a named and a literal callable | references and refinement, 336 thousand states |
| `interpreter` | all rows of the table, 6 tokens, `[x0]` and `[x2]`, 8 slots | matching and liveness, 62 thousand states |
| `interpreter_aborts` | the same, `[x1]` | a violation, see below |
| `files` | 2 data centers, one with an address of two lengths, 3 chats, one with a name of two lengths, 2 starts, one torn write | crashes, 803 thousand states |
| `grab` | 3 peers with 2 numbers, 5 messages, one not dumped, 2 starts | crashes, 2.8 million states |
| `console` | 2 askers, lines of 3, batches of 2, a channel | 1.6 million states |

The bounds. Two handles let one session take the updates over from another and let a freed
address be reused while the other handle lives; two queries let answers overtake each other;
two lines and two repetitions let a command follow another within one callback (after a
quit, for instance). More of either only adds holders to a count, and the proofs hold for
any number. `MaxLost` bounds the one leak, whose second occurrence does what the first did.
In the line buffer nine bytes are more than twice the buffer: enough for a line that exactly
fits, one that is a byte too long, and lines behind it. The client may stop sending, so this
run does not check for deadlock.

The Lua queue has room for two commands with arguments, or for three without: enough for a
command to be enqueued behind the one that is being done, for an argument to lie where a
string was, and for the queue to be full. The Python queue has room for two, and its next
call is the one too many.

Six tokens fill every pattern of the table (that of `search` is the longest), and give a
list none to five elements. Eight slots instead of 1000 are more than six tokens need; a
list that does not consume its token (a quoted name) fills any number. A count of 0 leaves a
command without any answer. The process stops when an assertion fails, so this run does not
check for deadlock.

For the files: three chats are one more than the placeholder of 2, a name or an address
whose length changes shifts records, and one of two centers is known by default. The
constraint `MCConstraint` keeps the third chat apart from the second center (the two files
meet only in the death of the process) and from the long name: what a change of lengths does
shows with two chats, and the proofs have no such bound. In `grab` two of three peers share
a number, and the four messages that are dumped let each chat come again after another; two
starts are a crash and what follows it (or nothing does: these runs do not check for
deadlock, as the last start may be the end). In `console` a batch of two, updates of up to
three marks and four marks of each peer let an update fit, just fit, overflow and be larger
than the limit; it stops where the assertion for a channel fails, so it does not check for
deadlock either.

`session_quit` is a disagreement of code and documentation. The help text says `quit` "Quits
immediately" (interface.c:1722); in a daemon, `do_quit` ends the connection that asked,
`do_halt` returns at once, and the process goes on.

`lua_freed` is against README-LUA:20, functions "return true and call cb_function in
future". The slot of a command's waiter keeps the flags of an earlier command: if a string
lay there, the waiter is freed as if it were that string, before its callback
(lua-tg.c:1385). `FirstIsSafe` says why a script seldom meets it: the first command of each
turn of the loop is never hit.

`interpreter_aborts`: the line `broadcast` alone, also from a socket, calls its handler with
no argument, and the assertion of interface.c:1027 ends the process. `fwd <peer>`
(interface.c:975) and a quoted name in `create_channel` (interface.c:3522) do the same.

What the models say beyond that: a `quit` or `safe_quit` in a daemon frees the handle within
its own read callback, which then uses it (or NULL, when the console or the end of the input
asks), and `FaultOnlyByDaemonQuit` says that nothing else does; after a line that is too
long a connection never gets a line through again, because the full buffer leaves no room to
read the newline that would clear `error` (`ErrorIsForever`); `load_photo` and the like on a
message without such media, and `msg_with_keyboard` with a keyboard that cannot be parsed
(interface.c:863), lose a reference (`lost`).

Each property has a mutant in its module, a plausible bug of the mapped definition, that TLC
finds to violate it.

### Fairness

`Fairness` of `Session`: a read callback runs on to its end (weak, it is plain code); each
query is answered (strong on `print_gw`, because a signal or a read can come between: tgl
retries and reports errors as answers); `tick` and `net_loop` (strong): tgl's own timers
keep events coming, and `EVLOOP_ONCE` returns after the events it found, so a busy client
cannot keep the body of the loop from running. No fairness is assumed of clients, of the
console or of signals. `SafeQuitEnds` assumes besides that no query is issued for ever.

`FairSpec` of `LuaQueue`: `net_loop` calls `lua_do_all` after every event, and it is plain
code (weak); every query is answered (strong for each waiter, since calls from Lua can come
between).

`FairSpec` of `Interpreter`: the loop of `interpreter_ex` is plain code (weak on `Parse`).
That a line ends is no matter of fairness alone: `LineEnds` needs that giving tokens back
and going back in the pattern consumes something each time.

No liveness is stated of the other modules: what they wait for is a user, the network or a
kill.

## 4. Proofs

`SessionProofs`. `InvCorrect` proves the inductive invariant `Inv`: `TypeOK`,
`HandleCounted`, `ReaderOpen` (a process that is no daemon keeps the connection it reads
from open) and `FaultOnlyByDaemonQuit`. `HandleCounted` needs what happens to `Cardinality
(Asked (e))` when a query comes or goes (`AskedIssue`, `AskedAnswer`); then each way to
change a count has its lemma (`IssueCounts`, `CloseCounts`, `AnswerCounts`,
`HandOverCounts`). A fault in `use_after_free` means that the handle being read is dead, so
nobody holds it, so its connection is closed: by `ReaderOpen` that is a daemon, and that
nobody but the reader can have closed it follows because no other callback runs.
`ChatModeCorrect` needs that a command that is running while the console chats is the one
that began the chat (`ChatCommand`).

`Refines` maps the holders: the connection while `bev`, `notify_ev`, and each query with
this `extra`; every step is one of `SharedHandle`'s or leaves its variables alone. The count
is 1 exactly when the set of holders is a singleton, which is where `HandleCounted` is
needed. `HeldLive` is what that is for: what is allocated is what somebody holds by name, or
what has lost a reference.

`LineBufferProofs`. The inductive invariant: `in_buf` holds exactly the bytes of `sent` that
were taken and have not left (`Window`), it starts at the beginning of a line
(`AtLineStart`), what was scanned has no newline and a callback returns only with nothing
left to take or a full buffer (`Scanned`), an error means a full buffer without a newline
(`ErrorMeansFull`), and the lines interpreted are those that ended before `base`
(`Interpreted`). All properties of the run are proved from it, for every `Size` and all
data.

`ConsoleProofs`. The inductive invariant has one part for each group of variables:
`TerminalInv` (types and `TypedKept`), `PromptInv` (types, `QuestionsAnswered`, and
`Asking`: while a question is open an answer is missing, and those before it are there) and
`MarksInv` (types and `MarksCounted`). `Asking` is what a second asker could break: the
answers of the first stay where the new ones will be stored, and are never handed over.
`MarksCounted` rests on how the number of marks of one peer in a sequence changes when the
batch is cut (`unread_message_list`, the batch at its limit).

`LuaQueueProofs`. The parts of the invariant: whole commands lie one behind the other from
`p` to `pos`, at the places of `heads` (`Tiled`); nobody waits for two calls, in the queue
or in flight (`WaitersApart`); a string lives exactly as long as its command
(`StringsKept`); the third slot is only ever a waiter's (`FirstDone`), which is why
`FirstIsSafe` holds. `Refines` shows that `Queued` is, command for command, what lies at the
heads: a call of Lua appends one, `lua_do_all` begins the first, and an answer ends one of
those in flight, with its own waiter.

`PyQueueProofs`. What is counted of an object covers everybody who has it (`Counted`): for a
peer the variables of the script and every place in the commands behind `p`, each place by
itself, since one command may name a peer twice; for a callable its name, the handler that
it is, the callback that runs and the one to come. The code gives back other references than
it took, so this is an inequality, and it excepts the objects in `overdrawn`. `WaitersApart`
is as for Lua; `CallablesKept` says that a callable is freed early only when it is a literal
whose callback runs already; `InOrder` says that `due` has the commands whose
arguments fit, and no others. `ReferencesCorrect` states `ReferencesKept` for every script,
queue and number of objects. `Refines` is along `due` (`QueuedAtDue`): a command that does
not parse is skipped and is no step of `CallQueue`.

`InterpreterProofs`. First the table: for each of its rows, what can be stored for an element
of the pattern is what the handler reads in that slot (`ReadsFit`), by the number of elements
and the place of a list; `Table` collects them for `commands`. The invariant of the loop:
where the pointer stands relative to the number of arguments (`Place`), and for each argument
the element of the pattern it was stored for (`Stored`). A list shifts what is behind it, but
a list is the last element of every pattern except that of `broadcast`, which is treated by
itself (`OnlyPeers`); the list of `create_channel`, whose element is optional, stores
NOT_FOUND as long as there is room and never gets out (`Stuck`), so it never gets to a
handler. From this follow `TypeOK`, `StringsFreedOnce` and `HandlerReadsWhatIsStored` for
lines, arrays and counts of any size.

That the loop agrees with `Fits` is a second invariant (`Fitting`). Between two elements
(`Reading`) the tokens that were taken, `Read` of them, can be cut among the elements passed:
`Read` is one of the places where they can end, `Ends[at - 1]`. Each token taken is an argument
found, in its order (`CountedOf`). This gives what a call needs: the last element ends at the
end of the line, so the line fits. A refusal needs the converse, that no other cut would have
served. It holds because of how the patterns are made (`Shape`, proved of every row but
`broadcast` and `search` in `TableShaped`): elements that must come, then one of three tails,
namely optional numbers, a text, or a list. Elements that must come can be cut in one way
(`MustEnds`), a token that one of them does not take refuses the line (`Refused`), and in the
tail the token given back is one that no later element takes (`PassedAt` in `ForcedAt`), so the
loop is where every cut has to be. An optional peer and a text behind it (`search`), or a list
followed by a text (`broadcast`), can be cut in two ways, which is why `LineFits` excepts them
from the second half. `Ends` is a function defined by recursion along the pattern; that it has
the values its equation says is `EndsRecursion`, from the existence of such functions
(`Recursion`), proved from the order of the naturals since the library's theorem takes an
operator.

`GrabProofs`. What is counted was dumped (`Saved`), in the order of writes that `Phases`
follows; the names taken in one run are made of results of `rand` that were used up
(`Home`), which is why a link leads home whatever order downloads end in; and the list:
while no write of it was cut off its first line counts its links, no two have one number, each
chat dumped to has one (`Complete`), and that of the message being written is at the top
(`Tops`); after a cut it is empty or damaged for ever (`CutOff`).

`StateFilesProofs`. The properties speak of what the next start would read, so the invariant
says what lies in the files (`Kept`). With nothing torn, a file begins with the words of
`saved` (`AuthKept`, `SecretKept`), whatever lies behind them. After one torn write with the
same centers the auth file still does. After one torn write of the same chats the
secret-chat file is the old content with each number in_seq_no old or new, and the count
either 2 or right (`Mixed`). It has to say this of the words and not of the result of reading,
since the next write goes over the words. Two facts carry it. First, a record lies at a place
that depends only on the lengths of those before it, so that a content of the same shape falls
on the old one word by word, wherever it is cut off (`OverWords`, `Written`). Second,
`read_dc` and `read_secret_chat`, called at the place of a record, return its values and the
place of the next. Both are inductions along the records, taken from the well-founded order
of the naturals (`Induction`, `Along`), since the theorems of the library that take an
operator cannot be used; what the recursive functions of the model and `FlattenSeq` return is
first brought to equations (`Recursion`, `Flattened`), and that `InOrder` lists a set once, in
order, is `Ordered`. `ReceivedCorrect` adds that a running process has in memory what the next
start would read from the secret-chat file (`InMemory`), since every write either completes
before tgl counts the message or ends the process.

The assumptions are those on the constants, which TLC evaluates in the runs: a finite set of
query slots and distinct names (`SessionAssumption`), sizes that are numbers
(`LineBufferAssumption`, `BoundsAssumption`), ten answers at most (`ConsoleAssumption`),
functions of the table (`LuaQueueAssumption`, `FunctionAssumption`), peers apart from
callables and from NULL (`PyQueueAssumption`), and the types of the chats, their numbers and
messages (`GrabAssumption`), and finite sets of centers and chats with names and addresses of
the lengths that are accepted (`StateFilesAssumption`). No bound is assumed to be large or
small.

Only model-checked:

- liveness, whose fairness is out of the prover's reach (`SafeQuitEnds`, `ClosedIsFreed`,
  `SignalEnds`, `CalledBackUnlessFault`, `LineEnds`), and `QuitExits`, which is violated.

## 5. Plan

Every invariant and action property that a passing run checks is stated by a theorem; what is
left to prove is liveness, which the provers do not reach.

Not modelled yet: the answer buffer (interface.c:172), whose limit and frame
concern each answer of a socket; `Startup` (login, dialog lists, `-e` commands); `Daemon`
(the lock and timeouts of the shell scripts).

### Not modelled

JSON and the printing of messages (formatting only), completion (generators of readline,
without an effect on the program), option parsing (runs once), build files. The index of
user names: what the tree of tgl does with two equal names, the one case where it may go
wrong, is not in `src/`. `clear`, which frees the whole library state and then goes on in a
daemon: what the library does then is not in `src/` either.
