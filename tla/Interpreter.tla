----------------------------- MODULE Interpreter -----------------------------
(***************************************************************************)
(* interpreter_ex of interface.c: how a line becomes a call of a handler.  *)
(* The tokens of a line are read one by one, so a line is not chosen as a  *)
(* whole: each reading of a token picks the next one.  A token is its      *)
(* quoting and what it can be parsed as.  The five ways to name a peer     *)
(* (user, chat, secret chat, channel, any) are one kind of argument.  Chat *)
(* mode, where no command is read, is in Session.                          *)
(***************************************************************************)
EXTENDS Naturals, Sequences, FiniteSets

CONSTANTS MaxTokens,   \* bound on the tokens behind the name of the command
          MaxArgs,     \* the 1000 of the array args
          Counts       \* the values of count: 1, or that of a modifier [xN]

ASSUME BoundsAssumption == /\ MaxTokens \in Nat /\ MaxArgs \in Nat \ {0}
                           /\ Counts \subseteq Nat

Found(m)  == [member |-> m, found |-> TRUE]
Absent(m) == [member |-> m, found |-> FALSE]    \* NOT_FOUND, or a NULL string

(* What a token that is not quoted can be parsed as. *)
Parses == [name |-> {"peer"}, int |-> {"number", "double", "msg_id"},
           word |-> {}]
Unquoted == DOMAIN Parses
Tokens   == Unquoted \cup {"quoted", "open"}    \* open: the quote never ends

Arg(op)   == [op |-> op, opt |-> FALSE]
Opt(op)   == [op |-> op, opt |-> TRUE]
Peer   == Arg("peer")
Number == Arg("number")
Double == Arg("double")
Msg    == Arg("msg_id")
Text   == Arg("string")
Rest   == Arg("string_end")
Period == Arg("period")
None   == Arg("none")

Typed     == {"peer", "number", "double", "msg_id"}
MemberOf(op) == IF op \in Typed THEN op ELSE "str"

(* What a handler reads of a slot: the member of the union, and whether it *)
(* tests for the value that stands for nothing.                            *)
P  == {Found("peer")}
N  == {Found("number")}
D  == {Found("double")}
M  == {Found("msg_id")}
S  == {Found("str")}
P0 == P \cup {Absent("peer")}
N0 == N \cup {Absent("number")}
S0 == S \cup {Absent("str")}

(* A command: its pattern, what its handler reads of each slot and of the  *)
(* slots after these, the least number of arguments, and the ways its      *)
(* handler may answer a client.                                            *)
Reads(head)            == [head |-> head, more |-> {}, last |-> {}, least |-> Len(head)]
ReadsList(head, more, least) == [head |-> head, more |-> more, last |-> {}, least |-> least]
Cmd(args, reads, ways) == [args |-> args, reads |-> reads, ways |-> ways]
Query == {"query"}
Now   == {"now"}
Quiet == {"none"}

-----------------------------------------------------------------------------
(* The table commands[], by the sections of the handlers.  Commands with   *)
(* the same pattern whose handlers do the same with it share a row.        *)

Information == [
  help    |-> Cmd(<<Opt("string")>>, Reads(<<S0>>), Now),
  terms   |-> Cmd(<<>>, Reads(<<>>), Query),             \* get_terms_of_service
  stats   |-> Cmd(<<>>, Reads(<<>>), Now)]               \* show_license, version

Control == [
  quit           |-> Cmd(<<>>, Reads(<<>>), Quiet),      \* safe_quit, clear, main_session
  set            |-> Cmd(<<Text, Number>>, Reads(<<S, N>>), Quiet),
  chat_with_peer |-> Cmd(<<Peer>>, Reads(<<P>>), Quiet)]

Sending == [
  msg      |-> Cmd(<<Peer, Rest>>, Reads(<<P, S>>), Query),           \* post, send_text, post_text
  msg_kbd  |-> Cmd(<<Peer, Text, Rest>>, Reads(<<P, S, S>>), {"query", "refused"}),
  reply    |-> Cmd(<<Msg, Rest>>, Reads(<<M, S>>), Query),
  send     |-> Cmd(<<Peer, Text, Opt("string_end")>>, ReadsList(<<P, S>>, S, 2), Query),
  post     |-> Cmd(<<Peer, Text>>, ReadsList(<<P, S>>, S, 2), Query)] \* post_audio, ..

Replying == [
  reply_photo |-> Cmd(<<Msg, Text, Opt("string_end")>>, ReadsList(<<M, S>>, S, 2), Query),
  reply_file  |-> Cmd(<<Msg, Text>>, ReadsList(<<M, S>>, S, 2), Query),
  reply_audio |-> Cmd(<<Msg, Text>>, ReadsList(<<P, S>>, S, 2), Query), \* runs do_send_audio
  fwd         |-> Cmd(<<Peer, Msg, Period>>, ReadsList(<<P>>, M, 2), Query),
  fwd_media   |-> Cmd(<<Peer, Msg>>, Reads(<<P, M>>), Query),
  send_contact   |-> Cmd(<<Peer, Text, Text, Text>>, Reads(<<P, S, S, S>>), Query),
  reply_contact  |-> Cmd(<<Msg, Text, Text, Text>>, Reads(<<M, S, S, S>>), Query),
  send_location  |-> Cmd(<<Peer, Double, Double>>, Reads(<<P, D, D>>), Query),
  reply_location |-> Cmd(<<Msg, Double, Double>>, Reads(<<M, D, D>>), Query),
  broadcast      |-> Cmd(<<Peer, Period, Rest>>,
                         [head |-> <<>>, more |-> P, last |-> S, least |-> 1], Query)]

Profile == [
  set_password      |-> Cmd(<<Opt("string")>>, Reads(<<S0>>), Query),
  get_self          |-> Cmd(<<>>, Reads(<<>>), Query),       \* status_online, export_card, ..
  set_profile_photo |-> Cmd(<<Rest>>, Reads(<<S>>), Query),
  set_profile_name  |-> Cmd(<<Text, Text>>, Reads(<<S, S>>), Query),
  set_username      |-> Cmd(<<Text>>, Reads(<<S>>), Query)]  \* set_phone_number

Chats == [
  rename_chat   |-> Cmd(<<Peer, Rest>>, Reads(<<P, S>>), Query),     \* chat_set_photo
  chat_info     |-> Cmd(<<Peer>>, Reads(<<P>>), Query),              \* channel_info, chat_upgrade, ..
  chat_add_user |-> Cmd(<<Peer, Peer, Opt("number")>>, Reads(<<P, P, N0>>), Query),
  chat_del_user |-> Cmd(<<Peer, Peer>>, Reads(<<P, P>>), Query),     \* channel_invite, channel_kick
  create_group_chat   |-> Cmd(<<Text, Peer, Period>>, ReadsList(<<S>>, P, 1), Query),
  import_chat_link    |-> Cmd(<<Text>>, Reads(<<S>>), Query),
  channel_get_members |-> Cmd(<<Peer, Opt("number"), Opt("number")>>, Reads(<<P, N0, N0>>), Query)]

Contacts == [
  user_info      |-> Cmd(<<Peer>>, Reads(<<P>>), Query),         \* block_user, del_contact, ..
  add_contact    |-> Cmd(<<Text, Text, Text>>, Reads(<<S, S, S>>), Query),
  rename_contact |-> Cmd(<<Peer, Text, Text>>, Reads(<<P, S, S>>), {"query", "now"}),
  import_card    |-> Cmd(<<Text>>, Reads(<<S>>), {"query", "none"})]

SecretChats == [
  accept_secret_chat |-> Cmd(<<Peer>>, Reads(<<P>>), {"query", "now"}),
  set_ttl            |-> Cmd(<<Peer, Number>>, Reads(<<P, N>>), {"query", "now"}),
  visualize_key      |-> Cmd(<<Peer>>, Reads(<<P>>), Now),
  create_secret_chat |-> Cmd(<<Peer>>, Reads(<<P>>), Query)]

Channels == [
  rename_channel    |-> Cmd(<<Peer, Rest>>, Reads(<<P, S>>), Query),  \* channel_set_photo
  channel_set_about |-> Cmd(<<Peer, Text>>, Reads(<<P, S>>), Query),  \* channel_set_username
  channel_set_admin |-> Cmd(<<Peer, Peer, Number>>, Reads(<<P, P, N>>), Query),
  create_channel    |-> Cmd(<<Text, Text, Opt("peer"), Period>>, ReadsList(<<S, S>>, P, 2), Query),
  channel_join      |-> Cmd(<<Peer>>, Reads(<<P>>), Query)]           \* channel_leave, ..

Dialogs == [
  dialog_list      |-> Cmd(<<Opt("number"), Opt("number")>>, Reads(<<N0, N0>>), Query), \* channel_list
  resolve_username |-> Cmd(<<Text>>, Reads(<<S>>), Query),
  contact_list     |-> Cmd(<<>>, Reads(<<>>), Query),
  mark_read        |-> Cmd(<<Peer>>, Reads(<<P>>), Query),            \* send_typing_abort
  history          |-> Cmd(<<Peer, Opt("number"), Opt("number")>>, Reads(<<P, N0, N0>>), Query),
  send_typing      |-> Cmd(<<Peer, Opt("number")>>, Reads(<<P, N0>>), {"query", "now"})]

Media == [
  load       |-> Cmd(<<Msg>>, Reads(<<M>>), {"query", "now", "none", "leak"}), \* load_*, view_*
  load_thumb |-> Cmd(<<Msg>>, Reads(<<M>>), {"query", "none"}),
  load_user_photo |-> Cmd(<<Peer>>, Reads(<<P>>), {"query", "now"})]

Messages == [
  search     |-> Cmd(<<Opt("peer"), Opt("number"), Opt("number"), Opt("number"), Opt("number"), Rest>>,
                     Reads(<<P0, N0, N0, N0, N0, S>>), Query),
  delete_msg |-> Cmd(<<Msg>>, Reads(<<M>>), Query),                   \* get_message
  start_bot  |-> Cmd(<<Peer, Peer, Text>>, Reads(<<P, P, S>>), Query)]

(* The sections of the table; no command is in two of them. *)
Sections == {Information, Control, Sending, Replying, Profile, Chats, Contacts, SecretChats,
             Channels, Dialogs, Media, Messages}

commands == [c \in UNION {DOMAIN s : s \in Sections} |->
               (CHOOSE s \in Sections : c \in DOMAIN s)[c]]

-----------------------------------------------------------------------------
VARIABLES
  pc,           \* "idle", "args" (in the loop over the pattern), "done", "dead"
  in_readline,  \* as in the code
  command,      \* the key of the command in commands, or "none"
  pattern,      \* its arguments: command->args
  count,        \* as in the code: how often the handler is called
  at,           \* the position of the pointer flags in the pattern
  args,         \* args[0 .. args_num - 1]
  flags,        \* bit 1 of args[i].flags; the array is static
  owned,        \* the slots whose string is allocated
  ahead,        \* the token that was read and given back by line_ptr = save
  ended,        \* no text is behind the tokens read so far
  seen,         \* history: the tokens read so far
  calls, fails, \* history: calls of the handler and of fail_interface
  way           \* history: how the handler answered

line == <<command, pattern, count, at, args, ahead, ended, seen, calls, fails, way>>
vars == <<pc, in_readline, command, pattern, count, at, args, flags, owned, ahead, ended, seen,
          calls, fails, way>>

Slots == 0 .. MaxArgs

Elem(i) == IF i \in DOMAIN pattern THEN pattern[i] ELSE None

(* A ca_period sends the loop back to the element before it. *)
here     == IF Elem(at).op = "period" THEN at - 1 ELSE at
op       == Elem(here).op
opt      == Elem(here).opt
repeated == Elem(here + 1).op = "period"

Forget == /\ command' = "none" /\ pattern' = <<>> /\ count' = 1 /\ at' = 1 /\ args' = <<>>
          /\ ahead' = "none" /\ ended' = FALSE /\ seen' = <<>> /\ calls' = 0 /\ fails' = 0 /\ way' = "none"

Init == /\ pc = "idle" /\ in_readline = FALSE /\ command = "none" /\ pattern = <<>> /\ count = 1 /\ at = 1
        /\ args = <<>> /\ flags = [i \in Slots |-> 0] /\ owned = {} /\ ahead = "none"
        /\ ended = FALSE /\ seen = <<>> /\ calls = 0 /\ fails = 0 /\ way = "none"

Assertion == pc' = "dead"       \* an assertion fails: abort

(* A line begins.  The last modifier [xN] of the line decides count. *)
Line ==
  /\ pc = "idle"
  /\ IF in_readline
       THEN Assertion /\ UNCHANGED <<line, in_readline, flags, owned>>
       ELSE /\ pc' = "args" /\ in_readline' = TRUE
            /\ command' \in DOMAIN commands /\ count' \in Counts
            /\ pattern' = commands[command'].args
            /\ flags' = [flags EXCEPT ![0] = 0]
            /\ UNCHANGED <<at, args, owned, ahead, ended, seen, calls, fails, way>>

(* A line that is over before the arguments: no text, the end of the       *)
(* input, a query in the TL language, or something that is no command.     *)
LineWithoutCommand ==
  /\ pc = "idle" /\ ~in_readline
  /\ pc' = "done"
  /\ \/ fails' = 1 /\ UNCHANGED <<calls, way>>         \* bad modifier, no such command
     \/ fails' = 0 /\ calls' = 1 /\ way' = "query"     \* '(': tgl_do_send_extf
     \/ fails' = 0 /\ calls' = 1 /\ way' = "none"      \* NULL: do_safe_quit
     \/ fails' = 0 /\ UNCHANGED <<calls, way>>         \* an empty line
  /\ UNCHANGED <<in_readline, command, pattern, count, at, args, flags, owned, ahead, ended, seen>>

(* next_token: the token given back, or the next one. *)
Coming == IF ahead # "none" THEN {ahead}
          ELSE IF ended THEN {"end"}
          ELSE {"end"} \cup IF Len(seen) < MaxTokens THEN Tokens ELSE {}

New(t)  == ahead = "none" /\ ~ended /\ t # "end"
Note(t) == /\ seen' = IF New(t) THEN Append(seen, t) ELSE seen
           /\ ended' = (ended \/ t \in {"end", "open"})
GiveBack_lost(t) == Note(t) /\ ahead' = "none"

Take(t) == Note(t) /\ ahead' = "none"

GiveBack(t) == Note(t) /\ ahead' = IF t = "end" THEN "none" ELSE t

Continue_stale(i, as) == /\ at' = i /\ args' = as
                         /\ UNCHANGED <<pc, in_readline, command, pattern, count, flags, owned, calls, fails, way>>

(* The loop goes on at position i with the arguments as; the next slot is cleared. *)
Continue(i, as) == /\ at' = i /\ args' = as
                   /\ flags' = [flags EXCEPT ![Len(as)] = 0]
                   /\ UNCHANGED <<pc, in_readline, command, pattern, count, owned, calls, fails, way>>

(* The strdup'ed arguments are freed, and the line is over. *)
Freed(as, fl) == {i \in 0 .. Len(as) - 1 : fl[i] = 1}
Finish(as, fl, own) == /\ owned' = own \ Freed(as, fl)
                       /\ args' = as /\ flags' = fl
                       /\ pc' = IF Freed(as, fl) \subseteq own THEN "done" ELSE "dead"
                       /\ in_readline' = FALSE
                       /\ UNCHANGED <<command, pattern, count, at>>

fail_interface == fails' = fails + 1 /\ UNCHANGED <<calls, way>>

Break(as, fl, own) == Finish(as, fl, own) /\ UNCHANGED <<calls, fails, way>>
Fail(as, fl, own)  == Finish(as, fl, own) /\ fail_interface

(* fun (command, args_num, args, ex), count times, then the end of the line. *)
Enough(as) == LET r == commands[command].reads
              IN  Len(as) >= r.least /\ (r.more = {} => Len(as) = r.least)
Fun_once_more(as, fl, own) ==
  IF Enough(as) THEN /\ Finish(as, fl, own) /\ calls' = count + 1
                     /\ way' \in commands[command].ways /\ UNCHANGED fails
  ELSE Assertion /\ args' = as
       /\ UNCHANGED <<in_readline, command, pattern, count, at, flags, owned, calls, fails, way>>

Fun(as, fl, own) ==
  IF Enough(as) \/ count = 0
    THEN /\ Finish(as, fl, own)
         /\ calls' = count
         /\ IF count = 0 THEN UNCHANGED way ELSE way' \in commands[command].ways
         /\ UNCHANGED fails
    ELSE /\ Assertion
         /\ args' = as
         /\ UNCHANGED <<in_readline, command, pattern, count, at, flags, owned, calls, fails, way>>

Room_off == Len(args) <= MaxArgs

Room == Len(args) < MaxArgs     \* assert (args_num < 1000)

TooManyArgs == /\ pc = "args" /\ ~Room
               /\ Assertion
               /\ UNCHANGED <<line, in_readline, flags, owned>>

Looping == pc = "args" /\ Room

(* The end of the pattern, op = ca_none. *)
NoneLeft == /\ Looping /\ op = "none"
            /\ \E t \in Coming :
                 /\ Take(t)
                 /\ IF t = "end" THEN Fun(args, flags, owned) ELSE Fail(args, flags, owned)

(* ca_string_end: the rest of the line, or one quoted string. *)
Strdup == [flags EXCEPT ![Len(args)] = 1]
StringEnd ==
  /\ Looping /\ op = "string_end"
  /\ \E t \in Coming :
       \/ /\ t # "open"
          /\ Take(t)
          /\ Fun(Append(args, Found("str")), Strdup, owned \cup {Len(args)})
       \/ /\ t = "open"                                   \* cur_token_len = -2
          /\ Take(t) /\ Fail(args, flags, owned)
       \/ /\ t = "quoted" /\ Len(seen) < MaxTokens         \* more text: cur_token_len = -1
          /\ ahead' = "none" /\ ended' = TRUE
          /\ seen' = (IF New(t) THEN Append(seen, t) ELSE seen) \o <<"word">>
          /\ Fail(args, flags, owned)

(* The end of the line behind a list. *)
EndOfList == /\ Looping /\ op \notin {"none", "string_end"} /\ repeated
             /\ "end" \in Coming /\ Take("end")
             /\ Fun(args, flags, owned)

More(t) == ~(repeated /\ t = "end")

(* The token is given back: the list is over, or the optional argument is absent. *)
SkipList_counts(t) == GiveBack(t) /\ Continue(here + 2, Append(args, Absent(op)))

SkipList_stays(t) == GiveBack(t) /\ Continue(here, args)

SkipList(t) == GiveBack(t) /\ Continue(here + 2, args)

SkipOpt_takes(t) == Take(t) /\ Continue(here + 1, Append(args, Absent(op)))

SkipOpt(t) == GiveBack(t) /\ Continue(here + 1, Append(args, Absent(op)))

(* A peer, number, double or message id where a quote begins or the line ends. *)
TypedAbsent ==
  /\ Looping /\ op \in Typed
  /\ \E t \in Coming \ Unquoted :
       /\ More(t)
       /\ IF opt THEN SkipOpt(t)
          ELSE IF repeated THEN SkipList(t)
          ELSE Take(t) /\ Break(args, flags, owned)

(* A peer, number, double or message id is parsed. *)
TypedParsed ==
  /\ Looping /\ op \in Typed
  /\ \E t \in Coming \cap Unquoted :
       IF op \in Parses[t] THEN Take(t) /\ Continue(here + 1, Append(args, Found(op)))
       ELSE IF repeated THEN SkipList(t)
       ELSE IF opt THEN SkipOpt(t)
       ELSE Take(t) /\ Fail(Append(args, Absent(op)), flags, owned)

(* ca_string, ca_file_name, ca_command. *)
String ==
  /\ Looping /\ op = "string"
  /\ \E t \in Coming :
       /\ Take(t)
       /\ IF t \notin {"end", "open"}
            THEN /\ at' = here + 1 /\ args' = Append(args, Found("str"))
                 /\ flags' = [Strdup EXCEPT ![Len(args) + 1] = 0]
                 /\ owned' = owned \cup {Len(args)}
                 /\ UNCHANGED <<pc, in_readline, command, pattern, count, calls, fails, way>>
            ELSE IF opt THEN Continue(here + 1, Append(args, Absent("str")))
            ELSE Fail(args, flags, owned)

(* interpreter_ex returns to the loop of the process. *)
Return == /\ pc = "done" /\ pc' = "idle" /\ Forget
          /\ UNCHANGED <<in_readline, flags, owned>>

Parse == \/ TooManyArgs \/ NoneLeft \/ StringEnd \/ EndOfList
         \/ TypedAbsent \/ TypedParsed \/ String
Next == Line \/ LineWithoutCommand \/ Parse \/ Return
Spec == Init /\ [][Next]_vars
FairSpec == Spec /\ WF_vars(Parse)

-----------------------------------------------------------------------------
(* The reference: which lines a pattern stands for, stated without the     *)
(* loop.  A line fits if it can be cut so that each element of the pattern *)
(* takes the tokens between two cuts.  The help text calls a list <user>+, *)
(* but the code takes an empty list too.                                   *)
Fills(e, t) == IF e.op \in Typed THEN t \in Unquoted /\ e.op \in Parses[t]
               ELSE t # "open" \/ e.opt     \* an endless quote counts as no string
Takes(e, list, ts) ==
  IF e.op = "period" THEN ts = <<>>
  ELSE IF e.op = "string_end"
    THEN ts = <<>> \/ ts = <<"quoted">> \/ (Len(ts) > 0 /\ ts[1] \in Unquoted)
  ELSE /\ \A i \in DOMAIN ts : Fills(e, ts[i])
       /\ Len(ts) = 1 \/ list \/ (Len(ts) = 0 /\ e.opt)

(* The places in ts where the first i elements of p can end. *)
Ends(p, ts) == LET e[i \in 0 .. Len(p)] ==
                     IF i = 0 THEN {0}
                     ELSE {n \in 0 .. Len(ts) : \E m \in e[i - 1] :
                             /\ m <= n
                             /\ Takes(p[i], i < Len(p) /\ p[i + 1].op = "period",
                                      SubSeq(ts, m + 1, n))}
               IN  e
Fits(p, ts) == Len(ts) \in Ends(p, ts)[Len(p)]
(* The elements behind place i can all be given tokens that they take. *)
Begins(p, ts) == \E i \in 0 .. Len(p) : Len(ts) \in Ends(p, ts)[i]

-----------------------------------------------------------------------------
SlotValues == {Found(m) : m \in Typed \cup {"str"}} \cup {Absent(m) : m \in Typed \cup {"str"}}

(* Type invariant of the loop over the pattern of a command. *)
TypeOK ==
  /\ pc \in {"idle", "args", "done", "dead"}
  /\ in_readline \in BOOLEAN /\ (pc = "args" => in_readline)
  /\ command \in DOMAIN commands \cup {"none"} /\ (pc = "args" => command # "none")
  /\ pattern = (IF command = "none" THEN <<>> ELSE commands[command].args)
  /\ count \in Counts \cup {1}
  /\ at \in 1 .. MaxArgs + 2
  /\ args \in Seq(SlotValues) /\ Len(args) <= MaxArgs
  /\ flags \in [Slots -> {0, 1}]
  /\ owned \subseteq Slots
  /\ ahead \in Tokens \cup {"none"} /\ ended \in BOOLEAN
  /\ seen \in Seq(Tokens)
  /\ calls \in Nat /\ fails \in {0, 1}
  /\ way \in {"none", "now", "query", "refused", "leak"}

(* Every string that strndup allocated for a line is freed once, when the  *)
(* line is over, although the flags of the static array outlive the lines. *)
StringsFreedOnce ==
  /\ pc \in {"idle", "done"} => owned = {}
  /\ pc \in {"args", "dead"} => owned = Freed(args, flags)

Over   == pc = "done" /\ command # "none"
Called == Over /\ fails = 0 /\ calls > 0

(* A handler is called exactly for the lines that fit its pattern: the     *)
(* loop that takes an optional argument or one more of a list whenever it  *)
(* can, and gives the token back when it cannot, takes no other line, and  *)
(* loses none; but a text that begins with a name, where broadcast and     *)
(* search may have one more peer.                                          *)
LineFits ==
  /\ Called => Fits(pattern, seen)
  /\ Over /\ ~Called /\ count > 0 /\ command \notin {"broadcast", "search"} =>
       ~(IF ended THEN Fits(pattern, seen) ELSE Begins(pattern, seen))

(* The tokens of the line are the arguments, in their order: none is       *)
(* dropped and none is used twice.  Only a text at the end of a pattern    *)
(* may stand for no token.                                                 *)
Given(i) == Cardinality({j \in 1 .. i : args[j].found})
Matches(x, t) == x.member = "str" \/ x.member \in Parses[t]
ArgsAreTheLine ==
  Called /\ "open" \notin {seen[i] : i \in DOMAIN seen} =>
    /\ \/ Given(Len(args)) = Len(seen)
       \/ Given(Len(args)) = Len(seen) + 1 /\ args[Len(args)] = Found("str")
    /\ \A i \in DOMAIN args :
         args[i].found /\ Given(i) <= Len(seen) => Matches(args[i], seen[Given(i)])

ReadsOf(c, n, i) == LET r == commands[c].reads
                    IN  IF i <= Len(r.head) THEN r.head[i]
                        ELSE IF i = n /\ r.last # {} THEN r.last ELSE r.more

(* A handler reads of each slot the member of the union that was stored    *)
(* there, and meets NOT_FOUND only where it looks for it; but reply_audio, *)
(* which runs the handler of send_audio, and a broadcast without a text.   *)
HandlerReadsWhatIsStored ==
  Called => \/ \A i \in DOMAIN args : args[i] \in ReadsOf(command, Len(args), i)
            \/ command = "reply_audio"
            \/ command = "broadcast" /\ args[Len(args)] = Found("peer")

(* A line is refused once, or its handler is called as often as [xN] says; *)
(* a client hears nothing of a line whose peer or number is missing or     *)
(* quoted, and that line fits nothing.                                     *)
RefusedOnceOrCalled ==
  Over => \/ fails = 0 /\ calls = count
          \/ fails = 1 /\ calls = 0
          \/ /\ fails = 0 /\ calls = 0 /\ op \in Typed
             /\ ended \/ (Len(seen) > 0 /\ seen[Len(seen)] = "quoted")
             /\ ~Fits(pattern, seen)

(* No line makes the program abort: the assertions of interpreter_ex and   *)
(* of the handlers it calls hold.                                          *)
AssertionsHold == pc # "dead"

(* The loop over the pattern ends for every line. *)
LineEnds == pc = "args" ~> pc # "args"
=============================================================================
