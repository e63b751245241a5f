------------------------------- MODULE Console ------------------------------
(***************************************************************************)
(* The terminal, with readline: the line that is being typed, the prints   *)
(* that come between (print_start, print_end), the questions of tgl        *)
(* (do_get_values: phone number, code, passwords) and the messages that    *)
(* were marked read, which are collected for a second.                     *)
(*                                                                         *)
(* Each action is a callback of the event loop, or the part of one up to   *)
(* the next point where something else may be printed.  A line is the      *)
(* number of its characters.  The characters of an answer are left out.    *)
(* notify_ev is NULL, so what is read is told to the terminal; enable_json *)
(* is off: with it each peer has an object, and nothing is counted.  All   *)
(* of this happens in net_loop, where binlog_read is set (loop.c:843).     *)
(***************************************************************************)
EXTENDS Integers, FiniteSets, Sequences

CONSTANTS Asker,       \* callbacks that tgl asks for values with
          Values,      \* how many values each asks for
          Peer,        \* the peers of messages
          Channel,     \* those that are no user, chat or secret chat
          MaxLine,     \* bound: the characters of a line
          MaxUnread,   \* MAX_UNREAD_MESSAGE_COUNT
          MaxAtOnce,   \* bound: the messages of one update
          MaxRead,     \* bound: the messages marked read in all
          NoLine,      \* saved_line is not allocated
          Nobody       \* one_string_cb was never set

(* There is room for ten answers. *)
ASSUME ConsoleAssumption ==
  /\ Values \in [Asker -> 1 .. 10] /\ Channel \subseteq Peer
  /\ MaxLine \in Nat /\ MaxUnread \in Nat /\ MaxAtOnce \in Nat /\ MaxRead \in Nat
  /\ NoLine \notin 0 .. MaxLine

VARIABLES
  pc,            \* "idle"; "print": in a callback, behind print_start;
                 \* "command": in interpreter_ex; "dead": an assertion failed,
                 \* "aborted": the one for the peers whose marks are told
  line,          \* rl_line_buffer
  saved,         \* saved_line
  prompt_was,
  in_readline,
  open,          \* is stdin read?
  reading,       \* read_one_string
  cb,            \* one_string_cb
  num, total,    \* one_string_num, one_string_total_args
  results,       \* one_string_results: "null", "held", "freed" or
                 \* "bot": bot_hash
  twice,         \* history: was an answer freed twice?
  waiting,       \* history: the askers not called yet, without those whose
                 \* callback another asker's overwrote
  typed,         \* history: the characters of the line the user types
  log_level,     \* 0: below 1
  unread,        \* unread_message_list: the peer of each message
  timer,         \* unread_message_event
  told,          \* history: the messages counted in what was printed
  read           \* history: the messages marked read with log_level at 1

prompt == <<reading, cb, num, total, results, twice, waiting>>
marks == <<log_level, unread, timer, told, read>>
vars == <<pc, line, saved, prompt_was, in_readline, open, prompt, typed, marks>>

Slot == 0 .. 9

TerminalType ==
  /\ pc \in {"idle", "print", "command", "aborted"}
  /\ line \in 0 .. MaxLine /\ typed \in 0 .. MaxLine
  /\ saved \in 0 .. MaxLine \cup {NoLine}
  /\ prompt_was \in BOOLEAN /\ in_readline \in BOOLEAN /\ open \in BOOLEAN
  /\ (prompt_was <=> pc = "print") /\ (in_readline <=> pc = "command")

PromptType ==
  /\ reading \in BOOLEAN /\ twice \in BOOLEAN
  /\ cb \in Asker \cup {Nobody} /\ waiting \subseteq Asker
  /\ total \in {0} \cup {Values[a] : a \in Asker} /\ num \in 0 .. total
  /\ results \in [Slot -> {"null", "held", "freed", "bot"}]

MarksType ==
  /\ log_level \in 0 .. 1
  /\ unread \in Seq(Peer) /\ Len(unread) <= MaxUnread /\ timer \in BOOLEAN
  /\ told \in [Peer -> 0 .. MaxRead] /\ read \in [Peer -> 0 .. MaxRead]

TypeOK == TerminalType /\ PromptType /\ MarksType

Init ==
  /\ pc = "idle" /\ line = 0 /\ saved = NoLine /\ typed = 0
  /\ prompt_was = FALSE /\ in_readline = FALSE /\ open = TRUE
  /\ reading = FALSE /\ cb = Nobody /\ num = 0 /\ total = 0
  /\ results = [i \in Slot |-> "null"] /\ twice = FALSE /\ waiting = {}
  /\ log_level \in 0 .. 1 /\ unread = <<>> /\ timer = FALSE
  /\ told = [p \in Peer |-> 0] /\ read = [p \in Peer |-> 0]

-----------------------------------------------------------------------------
(* The line. *)

deactivate_readline ==
  IF reading THEN UNCHANGED <<line, saved>>
  ELSE saved' = line /\ line' = 0

reactivate_readline ==
  IF reading THEN UNCHANGED <<line, saved>>
  ELSE line' = saved /\ saved' = NoLine

(* stdin_read_callback: a character, or the end of the line.               *)
rl_callback_read_char ==
  /\ pc = "idle" /\ open /\ ~reading
  /\ \/ /\ line < MaxLine
        /\ line' = line + 1 /\ typed' = typed + 1
        /\ UNCHANGED <<pc, in_readline>>
     \/ /\ line' = 0 /\ typed' = 0
        /\ IF in_readline THEN pc' = "dead" ELSE pc' = "command"
        /\ in_readline' = TRUE
  /\ UNCHANGED <<saved, prompt_was, open, prompt, marks>>

(* A line of a socket, or of the option -e, leaves the terminal alone.     *)
interpreter_ex ==
  /\ pc = "idle"
  /\ pc' = IF in_readline THEN "dead" ELSE "command"
  /\ in_readline' = TRUE
  /\ UNCHANGED <<line, saved, prompt_was, open, prompt, typed, marks>>

(* What a command prints in interpreter_ex, and update_prompt at its end,  *)
(* leaves the line alone.                                                  *)
interpreter_ex_ends ==
  /\ pc = "command"
  /\ pc' = "idle" /\ in_readline' = FALSE
  /\ UNCHANGED <<line, saved, prompt_was, open, prompt, typed, marks>>

(* A mutant: the line is saved although a question is open. *)
print_start_saves ==
  /\ pc = "idle"
  /\ pc' = IF prompt_was THEN "dead" ELSE "print"
  /\ prompt_was' = TRUE /\ saved' = line /\ line' = 0
  /\ UNCHANGED <<in_readline, open, prompt, typed, marks>>

(* A callback prints: an answer, an update, a script, the new prompt.      *)
print_start ==
  /\ pc = "idle"
  /\ pc' = IF prompt_was THEN "dead" ELSE "print"
  /\ prompt_was' = TRUE
  /\ deactivate_readline
  /\ UNCHANGED <<in_readline, open, prompt, typed, marks>>

(* A mutant: print_start does not tell that it was called. *)
print_end_forgets ==
  /\ pc = "print"
  /\ pc' = "idle"
  /\ reactivate_readline
  /\ UNCHANGED <<prompt_was, in_readline, open, prompt, typed, marks>>

print_end ==
  /\ pc = "print"
  /\ pc' = IF prompt_was THEN "idle" ELSE "dead"
  /\ prompt_was' = FALSE
  /\ reactivate_readline
  /\ UNCHANGED <<in_readline, open, prompt, typed, marks>>

(* The end of stdin: the event is deleted in net_loop.                     *)
delete_stdin_event ==
  /\ pc = "idle" /\ open
  /\ open' = FALSE
  /\ UNCHANGED <<pc, line, saved, prompt_was, in_readline, prompt, typed, marks>>

-----------------------------------------------------------------------------
(* Questions. *)

(* A mutant: the answers of who asked before are counted for the next. *)
do_get_values_counts(a) ==
  /\ pc = "idle" /\ a \notin waiting
  /\ cb' = a /\ total' = Values[a] /\ num' = num % Values[a]
  /\ waiting' = (IF reading THEN waiting \ {cb} ELSE waiting) \cup {a}
  /\ deactivate_readline /\ reading' = TRUE
  /\ UNCHANGED <<pc, prompt_was, in_readline, open, results, twice, typed, marks>>

(* do_get_values: who had asked before is not called any more.             *)
do_get_values(a) ==
  /\ pc = "idle" /\ a \notin waiting
  /\ cb' = a /\ num' = 0 /\ total' = Values[a]
  /\ waiting' = (IF reading THEN waiting \ {cb} ELSE waiting) \cup {a}
  /\ deactivate_readline /\ reading' = TRUE
  /\ UNCHANGED <<pc, prompt_was, in_readline, open, results, twice, typed, marks>>

(* A bot's hash that was given as an option needs no question.  tgl asks   *)
(* for it at a bot's login only, when no other question is open.           *)
do_get_bot_hash ==
  /\ pc = "idle" /\ ~reading
  /\ results' = [results EXCEPT ![0] = "bot"]
  /\ UNCHANGED <<pc, line, saved, prompt_was, in_readline, open, reading, cb, num, total,
                 twice, waiting, typed, marks>>

Answered == [results EXCEPT ![num] = "held"]

(* The last answer: the callback has them all, and they are freed, as many *)
(* as were asked for last.                                                 *)
Answers(n) ==
  /\ results' = [i \in Slot |-> IF i < n /\ Answered[i] # "null" THEN "freed" ELSE Answered[i]]
  /\ twice' = (twice \/ \E i \in 0 .. n - 1 : Answered[i] = "freed")

(* The callback may ask again, for as many values: it was another value    *)
(* than it wanted.                                                         *)
Called ==
  \/ /\ reading' = FALSE /\ line' = saved /\ saved' = NoLine
     /\ waiting' = waiting \ {cb} /\ num' = num + 1
     /\ Answers(total) /\ UNCHANGED <<cb, total>>
  \/ /\ num' = 0 /\ Answers(total)
     /\ UNCHANGED <<reading, line, saved, waiting, cb, total>>

(* The end of an answer: the line is restored, and saved again for the     *)
(* next value.                                                             *)
one_string_read_end ==
  /\ pc = "idle" /\ open /\ reading
  /\ IF num + 1 < total
       THEN /\ results' = Answered /\ num' = num + 1
            /\ UNCHANGED <<reading, line, saved, waiting, cb, total, twice>>
       ELSE Called
  /\ UNCHANGED <<pc, prompt_was, in_readline, open, typed, marks>>

-----------------------------------------------------------------------------
(* Messages marked read. *)

OfPeer(list, p) == Cardinality({i \in DOMAIN list : list[i] = p})

(* print_read_list: one line for each peer, with the number of its         *)
(* messages in the list.  For a channel's there is no line to print: the   *)
(* assertion of interface.c:2938 fails.                                    *)
Told(list) == [p \in Peer |-> told[p] + OfPeer(list, p)]

print_read_list(list) ==
  IF \E i \in DOMAIN list : list[i] \in Channel
    THEN pc' = "aborted" /\ UNCHANGED <<told, unread, timer>>
    ELSE told' = Told(list) /\ unread' = <<>> /\ timer' = FALSE /\ UNCHANGED pc

(* A mutant: the batch is printed, and the new messages are not. *)
overflow_forgets(list) == print_read_list(unread)

(* Too many for the batch: both are printed at once.                       *)
overflow(list) == print_read_list(unread \o list)

do_set ==
  /\ pc = "command"
  /\ log_level' \in 0 .. 1
  /\ UNCHANGED <<pc, line, saved, prompt_was, in_readline, open, prompt, typed, unread,
                 timer, told, read>>

mark_read_upd(list) ==
  /\ pc = "idle"
  /\ IF log_level < 1 THEN UNCHANGED <<pc, unread, timer, told, read>>
     ELSE /\ \A p \in Peer : read[p] + OfPeer(list, p) <= MaxRead
          /\ read' = [p \in Peer |-> read[p] + OfPeer(list, p)]
          /\ IF Len(unread) + Len(list) <= MaxUnread
               THEN unread' = unread \o list /\ timer' = TRUE /\ UNCHANGED <<pc, told>>
               ELSE overflow(list)
  /\ UNCHANGED <<line, saved, prompt_was, in_readline, open, prompt, typed, log_level>>

(* The level does not matter for what is in the batch already.             *)
unread_message_alarm ==
  /\ pc = "idle" /\ timer
  /\ print_read_list(unread)
  /\ UNCHANGED <<line, saved, prompt_was, in_readline, open, prompt, typed, log_level, read>>

Lists == UNION {[1 .. n -> Peer] : n \in 0 .. MaxAtOnce}

Next ==
  \/ rl_callback_read_char \/ interpreter_ex \/ interpreter_ex_ends
  \/ print_start \/ print_end \/ delete_stdin_event
  \/ \E a \in Asker : do_get_values(a)
  \/ do_get_bot_hash \/ one_string_read_end \/ do_set
  \/ \E list \in Lists : mark_read_upd(list)
  \/ unread_message_alarm

Spec == Init /\ [][Next]_vars

-----------------------------------------------------------------------------
(* Properties. *)

(* What the user has typed is never lost, whatever is printed or asked     *)
(* meanwhile: it is in the line, or saved while there is a print or a      *)
(* question, and is not allocated twice (loop.c:207, interface.c:3730).    *)
TypedKept ==
  IF reading \/ prompt_was THEN saved = typed /\ line = 0
  ELSE line = typed /\ saved = NoLine

(* Whoever asked is called or is being asked, unless another's callback    *)
(* took the place of its own (loop.c:246); and no answer is freed twice,   *)
(* although the count and the results are of whoever asked last            *)
(* (loop.c:151).                                                           *)
QuestionsAnswered ==
  /\ waiting = IF reading THEN {cb} ELSE {}
  /\ ~twice

(* Each message marked read while log_level is 1 or more is counted        *)
(* exactly once in what is printed, whether the batch is flushed by the    *)
(* alarm or by its limit, and whatever log_level is by then                *)
(* (interface.c:2947-2978), and a batch has an alarm; unless a channel's   *)
(* message was among them, which ends the process before it is told.       *)
MarksCounted ==
  IF pc = "aborted" THEN \E p \in Channel : told[p] < read[p]
  ELSE /\ \A p \in Peer : told[p] + OfPeer(unread, p) = read[p]
       /\ unread # <<>> => timer
=============================================================================
