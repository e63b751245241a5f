----------------------------- MODULE StateFiles -----------------------------
(***************************************************************************)
(* What telegram-cli keeps between two starts (loop.c): the auth file with *)
(* the data centers it is logged in to, the state file with the numbers of *)
(* the last updates, and the secret-chat file.  They are rewritten in      *)
(* place, without truncation: a shorter content leaves the end of the      *)
(* longer one behind it.  The auth and secret-chat files are written by    *)
(* many small writes, and the process may be killed between any two.       *)
(*                                                                         *)
(* A file is a sequence of words <<field, value>>.  An ip or a name takes  *)
(* as many words as its length says, so records differ in length.  Reading *)
(* ends the process where an assertion fails; where a word of another      *)
(* field is found the bytes mean nothing, and anything may come of them.   *)
(* binlog_enabled, with which none of this runs, is off.                   *)
(***************************************************************************)
EXTENDS Integers, FiniteSets, Sequences, SequencesExt

CONSTANTS DC,          \* the data centers 0 .. max_dc_num
          Default,     \* those known without a file: the ip length of each
          Chat,        \* the ids of secret chats
          NameLengths, \* the lengths the name of each can have
          IpLengths,   \* the lengths the ip of each can have
          MaxNumber,   \* bound: of pts and qts
          MaxStarts,   \* bound: of starts
          MaxTorn,     \* bound: of writes cut off and not yet made good by
                       \* one in full, of both files together
          Nothing     \* no file, or no value

(* The functions on a part of S with values in T. *)
Partial(S, T) == UNION {[D -> T] : D \in SUBSET S}
Lengths == UNION {IpLengths[d] : d \in DC}
NamesLengths == UNION {NameLengths[c] : c \in Chat}

(* The lengths are those that read_dc and read_secret_chat accept: the     *)
(* assertions of loop.c:548 and 630.                                       *)
ASSUME StateFilesAssumption ==
  /\ DC \subseteq Int /\ IsFiniteSet(DC)
  /\ Chat \subseteq Int /\ IsFiniteSet(Chat)
  /\ IpLengths \in [DC -> SUBSET (0 .. 99)]
  /\ NameLengths \in [Chat -> SUBSET (1 .. 999)]
  /\ Default \in Partial(DC, Lengths)
  /\ {MaxNumber, MaxStarts, MaxTorn} \subseteq Nat
  /\ Nothing \notin Partial(DC, Lengths)

VARIABLES
  auth, secret,        \* the files: sequences of words, empty when missing
  state,               \* the state file: the numbers, or Nothing
  pc,                  \* "down"; "run"; "dead": an assertion failed at the
                       \* start, or it read nonsense: not followed further
  logged_in,           \* was on_login called in this run?
  dcs,                 \* the length of the ip of each data center logged in to
  chats,               \* the in_seq_no of each secret chat in state sc_ok: here
                       \* the qts of the last message in it
  names,               \* the length of the print_name of each: reading drops the
                       \* name (loop.c:665), and tgl makes another one
  numbers,             \* TLS->pts and TLS->qts
  written,             \* the static wpts, wqts
  saved,               \* history: what each file was last written with in full
  attempt,             \* history: what a write since then would have written
  torn,                \* history: how many writes were cut off since then
  starts

vars == <<auth, secret, state, pc, logged_in, dcs, chats, names, numbers, written,
          saved, attempt, torn, starts>>

File == {"auth", "secret"}
Numbers == [pts : 0 .. MaxNumber, qts : 0 .. MaxNumber]

Addresses == Partial(DC, Lengths)
Chats == Partial(Chat, 0 .. MaxNumber)
Names == Partial(Chat, NamesLengths)

(* The chats with their names, as they are written.                        *)
Record(x, l) == [chats |-> x, names |-> l]
Records == {r \in [chats : Chats, names : Names] : DOMAIN r.chats = DOMAIN r.names}

AuthWord == ({"magic", "max", "working", "flag", "port", "our_id"} \X Int)
              \cup ({"length"} \X Lengths) \cup ({"ip", "key"} \X DC)

SecretWord == ({"magic", "version"} \X Int) \cup ({"num"} \X (0 .. Cardinality(Chat) + 2))
                \cup ({"length"} \X (1 .. 999)) \cup ({"id", "name", "key"} \X Chat)
                \cup ({"in_seq_no"} \X (0 .. MaxNumber))

TypeOK ==
  /\ auth \in Seq(AuthWord) /\ secret \in Seq(SecretWord)
  /\ state \in Numbers \cup {Nothing}
  /\ pc \in {"down", "run", "dead"}
  /\ logged_in \in BOOLEAN
  /\ dcs \in Addresses /\ Record(chats, names) \in Records
  /\ numbers \in Numbers /\ written \in Numbers
  /\ saved \in [auth : Addresses \cup {Nothing}, secret : Records]
  /\ attempt \in [auth : Addresses \cup {Nothing}, secret : Records]
  /\ torn \in [File -> 0 .. MaxTorn]
  /\ starts \in 0 .. MaxStarts

None == [x \in {} |-> 0]
Zero == [pts |-> 0, qts |-> 0]

Init ==
  /\ auth = <<>> /\ secret = <<>> /\ state = Nothing
  /\ pc = "down" /\ logged_in = FALSE
  /\ dcs = None /\ chats = None /\ names = None /\ numbers = Zero /\ written = Zero
  /\ saved = [auth |-> Nothing, secret |-> Record(None, None)] /\ attempt = saved
  /\ torn = [f \in File |-> 0] /\ starts = 0

-----------------------------------------------------------------------------
(* What is written. *)

Times(n, word) == [i \in 1 .. n |-> word]
InOrder(S) == [i \in 1 .. Cardinality(S) |->
                 CHOOSE x \in S : Cardinality({y \in S : y < x}) = i - 1]

(* A data center that is not logged in to is not among those of x: tgl     *)
(* calls on_login when it is logged in to all it knows, and otherwise the  *)
(* assertion of loop.c:468 ends the process behind the flag, like a kill.  *)
write_dc(d, x) ==
  IF d \notin DOMAIN x THEN <<<<"flag", 0>>>>
  ELSE <<<<"flag", 1>>, <<"port", 0>>, <<"length", x[d]>>>> \o Times(x[d], <<"ip", d>>)
         \o <<<<"key", d>>>>

AuthWords(x) ==
  <<<<"magic", 1>>, <<"max", Cardinality(DC) - 1>>, <<"working", 0>>>>
    \o FlattenSeq([i \in 1 .. Cardinality(DC) |-> write_dc(InOrder(DC)[i], x)])
    \o <<<<"our_id", 1>>>>

write_secret_chat(c, x, l) ==
  <<<<"id", c>>, <<"length", l[c]>>>> \o Times(l[c], <<"name", c>>)
    \o <<<<"key", c>>, <<"in_seq_no", x[c]>>>>

(* The number of chats is 2, like the version, until the rest is written.  *)
SecretWords(x, l, num) ==
  <<<<"magic", 2>>, <<"version", 2>>, <<"num", num>>>>
    \o FlattenSeq([i \in 1 .. Cardinality(DOMAIN x) |->
                     write_secret_chat(InOrder(DOMAIN x)[i], x, l)])

(* The file after words were written over its beginning.                   *)
Over(file, words) ==
  words \o SubSeq(file, Len(words) + 1, Len(file))

(* A mutant: the file is truncated when it is opened. *)
SecretTorn_truncates(x, l) ==
  {SubSeq(SecretWords(x, l, 2), 1, k) : k \in 1 .. Len(SecretWords(x, l, 2))}

(* The writes of the two files: what is in them behind all of them, and    *)
(* what may be when the process is killed.  The last write to the          *)
(* secret-chat file goes back to the number of chats.                      *)
AuthWritten(x) == Over(auth, AuthWords(x))

AuthTorn(x) ==
  {Over(auth, SubSeq(AuthWords(x), 1, k)) : k \in 1 .. Len(AuthWords(x)) - 1}

(* A mutant: the number stays what it was at first. *)
SecretWritten_uncounted(x, l) == Over(secret, SecretWords(x, l, 2))

SecretWritten(x, l) == Over(secret, SecretWords(x, l, Cardinality(DOMAIN x)))

SecretTorn(x, l) ==
  {Over(secret, SubSeq(SecretWords(x, l, 2), 1, k)) : k \in 1 .. Len(SecretWords(x, l, 2))}

-----------------------------------------------------------------------------
(* What is read. *)

(* Reading stops with a verdict, or goes on at a position with what was    *)
(* read so far.                                                            *)
Failed(verdict) == [verdict |-> verdict, at |-> 0, got |-> None]

(* The fields from a position on: the end of the file ends the process.    *)
Expect(file, at, fields) ==
  IF \E i \in DOMAIN fields :
       /\ at + i - 1 <= Len(file) /\ file[at + i - 1][1] # fields[i]
       /\ \A j \in 1 .. i - 1 : at + j - 1 <= Len(file)
    THEN "garbage"
    ELSE IF at + Len(fields) - 1 > Len(file) THEN "dead" ELSE "ok"

Put(f, x, v) == [y \in DOMAIN f \cup {x} |-> IF y = x THEN v ELSE f[y]]

read_dc(file, d, so_far) ==
  LET at    == so_far.at
      head  == Expect(file, at, <<"flag", "port", "length">>)
      ip    == file[at + 2][2]
      whole == Expect(file, at, <<"flag", "port", "length">> \o Times(ip, "ip") \o <<"key">>)
  IN  IF so_far.verdict # "ok" THEN so_far
      ELSE IF Expect(file, at, <<"flag">>) # "ok" THEN Failed(Expect(file, at, <<"flag">>))
      ELSE IF file[at][2] = 0 THEN [so_far EXCEPT !.at = at + 1]
      ELSE IF head # "ok" THEN Failed(head)
      ELSE IF whole # "ok" THEN Failed(whole)
      ELSE IF file[at + 3 + ip][2] # d THEN Failed("garbage")
      ELSE [verdict |-> "ok", at |-> at + 4 + ip, got |-> Put(so_far.got, d, ip)]

(* Without a file, or without the magic, there are the default data        *)
(* centers.  Without our_id at the end an uninitialized variable is used.  *)
empty_auth_file == [verdict |-> "ok", at |-> 1, got |-> Default]

read_auth_file(file) ==
  LET header == Expect(file, 1, <<"magic", "max", "working">>)
      after[i \in 0 .. Cardinality(DC)] ==
        IF i = 0 THEN [verdict |-> header, at |-> 4, got |-> None]
        ELSE read_dc(file, InOrder(DC)[i], after[i - 1])
      last == after[Cardinality(DC)]
  IN  IF file = <<>> THEN empty_auth_file
      ELSE IF last.verdict # "ok" THEN last
      ELSE IF Expect(file, last.at, <<"our_id">>) # "ok" THEN Failed("garbage")
      ELSE last

(* A mutant: the number is taken from the field before it. *)
InSeqNo_short(file, at, name) == file[at + 2 + name][2]

InSeqNo(file, at, name) == file[at + 3 + name][2]

read_secret_chat(file, so_far) ==
  LET at    == so_far.at
      head  == Expect(file, at, <<"id", "length">>)
      name  == file[at + 1][2]
      whole == Expect(file, at, <<"id", "length">> \o Times(name, "name")
                                  \o <<"key", "in_seq_no">>)
      c     == file[at][2]
  IN  IF so_far.verdict # "ok" THEN so_far
      ELSE IF head # "ok" THEN Failed(head)
      ELSE IF whole # "ok" THEN Failed(whole)
      ELSE IF \E i \in 0 .. name : file[at + 2 + i][2] # c THEN Failed("garbage")
      ELSE [verdict |-> "ok", at |-> at + 4 + name,
            got |-> Put(so_far.got, c, InSeqNo(file, at, name))]

read_secret_chat_file(file) ==
  LET header == Expect(file, 1, <<"magic", "version", "num">>)
      after[i \in 0 .. Cardinality(Chat) + 2] ==
        IF i = 0 THEN [verdict |-> header, at |-> 4, got |-> None]
        ELSE read_secret_chat(file, after[i - 1])
  IN  IF file = <<>> THEN [verdict |-> "ok", at |-> 1, got |-> None]
      ELSE IF header # "ok" THEN Failed(header)
      ELSE after[file[3][2]]

-----------------------------------------------------------------------------
(* The end of the process, with all that is in memory.                     *)
Down ==
  /\ pc' = "down"
  /\ logged_in' = FALSE /\ dcs' = None /\ chats' = None /\ names' = None
  /\ numbers' = Zero /\ written' = Zero

(* Whoever runs telegrab may choose the number of the message to start at, *)
(* one that was not there yet, too.                                        *)
read_state_file ==
  IF state = Nothing THEN {Zero}
  ELSE {[state EXCEPT !.pts = t] : t \in 0 .. MaxNumber}

(* The names tgl can give the chats of S.                                  *)
Named(S) ==
  {l \in [S -> NamesLengths] : \A c \in S : l[c] \in NameLengths[c]}

(* The three files are read.                                               *)
start ==
  LET a == read_auth_file(auth)
      s == read_secret_chat_file(secret)
  IN  /\ pc = "down" /\ starts < MaxStarts
      /\ starts' = starts + 1
      /\ IF a.verdict = "ok" /\ s.verdict = "ok"
           THEN /\ pc' = "run" /\ dcs' = a.got /\ chats' = s.got
                /\ names' \in Named(DOMAIN s.got)
                /\ numbers' \in read_state_file
           ELSE pc' = "dead" /\ UNCHANGED <<dcs, chats, names, numbers>>
      /\ UNCHANGED <<auth, secret, state, logged_in, written, saved, attempt, torn>>

(* A file is written in full, or the process is killed within.             *)
Saved(f, x) ==
  /\ saved' = [saved EXCEPT ![f] = x]
  /\ attempt' = [attempt EXCEPT ![f] = x]
  /\ torn' = [torn EXCEPT ![f] = 0]

CutOff(f, x) ==
  /\ torn["auth"] + torn["secret"] < MaxTorn
  /\ attempt' = [attempt EXCEPT ![f] = x]
  /\ torn' = [torn EXCEPT ![f] = @ + 1]
  /\ Down
  /\ UNCHANGED saved

(* Before the login tgl learns of data centers and their addresses.        *)
dc_option(d, length) ==
  /\ pc = "run" /\ ~logged_in
  /\ dcs' = Put(dcs, d, length)
  /\ UNCHANGED <<auth, secret, state, pc, logged_in, chats, names, numbers, written,
                 saved, attempt, torn, starts>>

(* write_auth_file, at the end of every login.                             *)
on_login ==
  /\ pc = "run" /\ ~logged_in
  /\ \/ /\ auth' = AuthWritten(dcs) /\ Saved("auth", dcs)
        /\ logged_in' = TRUE
        /\ UNCHANGED <<pc, dcs, chats, names, numbers, written>>
     \/ auth' \in AuthTorn(dcs) /\ CutOff("auth", dcs)
  /\ UNCHANGED <<secret, state, starts>>

(* The chats, their names and the count of messages become x, l and n if   *)
(* the file is written in full.                                            *)
write_secret_chat_file(x, l, n) ==
  \/ /\ secret' = SecretWritten(x, l) /\ Saved("secret", Record(x, l))
     /\ chats' = x /\ names' = l /\ numbers' = [numbers EXCEPT !.qts = n]
     /\ UNCHANGED <<pc, logged_in, dcs, written>>
  \/ secret' \in SecretTorn(x, l) /\ CutOff("secret", Record(x, l))

Without(f, x) == [y \in DOMAIN f \ {x} |-> f[y]]

(* A chat is established, with a name of the length n, or was deleted.     *)
secret_chat_update_gw(c, n) ==
  /\ pc = "run" /\ logged_in
  /\ IF c \in DOMAIN chats
       THEN write_secret_chat_file(Without(chats, c), Without(names, c), numbers.qts)
       ELSE write_secret_chat_file(Put(chats, c, numbers.qts), Put(names, c, n), numbers.qts)
  /\ UNCHANGED <<auth, state, starts>>

(* A message was sent, to a secret chat or not.                            *)
print_msg_success_gw ==
  /\ pc = "run" /\ logged_in
  /\ write_secret_chat_file(chats, names, numbers.qts)
  /\ UNCHANGED <<auth, state, starts>>

(* A mutant: the message is counted, and the chats are not written. *)
print_message_gw_unsaved(c) ==
  /\ pc = "run" /\ logged_in /\ c \in DOMAIN chats /\ numbers.qts < MaxNumber
  /\ chats' = [chats EXCEPT ![c] = numbers.qts + 1]
  /\ numbers' = [numbers EXCEPT !.qts = @ + 1]
  /\ UNCHANGED <<auth, secret, state, pc, logged_in, dcs, names, written, saved, attempt,
                 torn, starts>>

(* A message in a secret chat: the file is written before tgl counts the   *)
(* message as received.                                                    *)
print_message_gw(c) ==
  /\ pc = "run" /\ logged_in /\ c \in DOMAIN chats /\ numbers.qts < MaxNumber
  /\ write_secret_chat_file([chats EXCEPT ![c] = numbers.qts + 1], names, numbers.qts + 1)
  /\ UNCHANGED <<auth, state, starts>>

(* Any other update.                                                       *)
update ==
  /\ pc = "run" /\ logged_in /\ numbers.pts < MaxNumber
  /\ numbers' = [numbers EXCEPT !.pts = @ + 1]
  /\ UNCHANGED <<auth, secret, state, pc, logged_in, dcs, chats, names, written, saved,
                 attempt, torn, starts>>

Grown == written.pts < numbers.pts \/ written.qts < numbers.qts

(* At the end of each turn of net_loop: one write.  When the file cannot   *)
(* be opened the process ends: do_halt exits, and where it returns, in a   *)
(* daemon, the assertion behind it fails.                                  *)
write_state_file ==
  /\ pc = "run" /\ Grown
  /\ \/ state' = numbers /\ written' = numbers
        /\ UNCHANGED <<pc, logged_in, dcs, chats, names, numbers>>
     \/ Down /\ UNCHANGED state
  /\ UNCHANGED <<auth, secret, saved, attempt, torn, starts>>

(* The process is killed, or ends.                                         *)
stop ==
  /\ pc = "run" /\ Down
  /\ UNCHANGED <<auth, secret, state, saved, attempt, torn, starts>>

Next ==
  \/ start \/ on_login \/ print_msg_success_gw \/ update \/ write_state_file \/ stop
  \/ \E d \in DC : \E n \in IpLengths[d] : dc_option(d, n)
  \/ \E c \in Chat : \E n \in NameLengths[c] : secret_chat_update_gw(c, n)
  \/ \E c \in Chat : print_message_gw(c)

Spec == Init /\ [][Next]_vars

-----------------------------------------------------------------------------
(* Properties. *)

Verdict(v, x) == [verdict |-> v, got |-> x]
Reads(r) == Verdict(r.verdict, r.got)
ReadsAuth == Reads(read_auth_file(auth))
ReadsSecret == Reads(read_secret_chat_file(secret))

(* What was written in full is what a start reads, whatever longer content *)
(* the file had before (loop.c:480 and 524 do not truncate): a start dies  *)
(* only after a write was cut off.                                         *)
ReadsBack ==
  /\ torn["auth"] = 0 =>
       ReadsAuth = Verdict("ok", IF saved["auth"] = Nothing THEN Default ELSE saved["auth"])
  /\ torn["secret"] = 0 => ReadsSecret = Verdict("ok", saved["secret"].chats)

(* Every login rewrites the auth file.  When the data centers and the      *)
(* lengths of their addresses are the same as before, being killed within  *)
(* does no harm.                                                           *)
SameAuthIsSafe ==
  torn["auth"] = 1 /\ attempt["auth"] = saved["auth"]
    => ReadsAuth = Verdict("ok", saved["auth"])

(* When the chats are the same as before, with names of the same lengths,  *)
(* and two or more, being killed within the write leaves a file that can   *)
(* be read, with the first two of the chats at least, each with its number *)
(* of before or now: the placeholder of loop.c:528 loses the others.       *)
(* Within one run a chat keeps its name; from one to the next it may not.  *)
TornKeepsTwo ==
  LET was == saved["secret"].chats
      now == attempt["secret"].chats
  IN  (/\ torn["secret"] = 1 /\ Cardinality(DOMAIN was) >= 2
       /\ saved["secret"].names = attempt["secret"].names)
        => /\ ReadsSecret.verdict = "ok"
           /\ {InOrder(DOMAIN was)[i] : i \in 1 .. 2} \subseteq DOMAIN ReadsSecret.got
           /\ \A c \in DOMAIN ReadsSecret.got : ReadsSecret.got[c] \in {was[c], now[c]}

(* Being killed within a write of a file whose records have not changed    *)
(* their places leaves a file that the next start can read.                *)
TornIsReadable == SameAuthIsSafe /\ TornKeepsTwo

(* A message of a secret chat that the state file counts as received is    *)
(* counted in the secret-chat file too: otherwise the next start would     *)
(* expect another sequence number than the other side sends.               *)
ReceivedIsSaved ==
  (pc = "run" /\ state # Nothing)
    => \A c \in DOMAIN chats : chats[c] <= state.qts
         => c \in DOMAIN ReadsSecret.got /\ ReadsSecret.got[c] = chats[c]
=============================================================================
