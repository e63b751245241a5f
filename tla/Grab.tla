-------------------------------- MODULE Grab --------------------------------
(***************************************************************************)
(* What telegrab keeps of the messages that are printed: a page for each   *)
(* chat (grab/<peer>.html), the list of the chats (grab/_html/list.html)   *)
(* that links the pages, the most recent one at the top, and the media and *)
(* avatars, which are downloaded while the program goes on.                *)
(*                                                                         *)
(* dump_message_html does not return to the event loop, but the process    *)
(* may be killed at each point of it, and after a restart the messages     *)
(* since the last number in the state file come again.  file_exists closes *)
(* a stream that was not opened: where that ends the process it is one of  *)
(* the kills.  A page is extended by one write, but the list is written in *)
(* blocks of stdio, which end within a line.  Peers are told apart by      *)
(* their kind and number, but the list and the avatars by number only.     *)
(* The program prints its output, and as text: with --json, or with the    *)
(* output disabled, messages are counted and nothing is dumped.            *)
(***************************************************************************)
EXTENDS Integers, FiniteSets, Sequences

CONSTANTS Peer,        \* the peers, which are integers above 0
          Number,      \* tgl_get_peer_id of each
          ChatOf,      \* the messages come in this order from these peers
          Sender,      \* of each message: who sent it to a group, if not we,
                       \* as a set of one or none
          WithMedia,   \* the messages with something to download
          NotDumped,   \* the service messages, and those that are deleted,
                       \* empty or not created yet
          MaxStarts,   \* bound: of starts
          MaxDumps,    \* bound: of the messages in all pages
          MaxRand      \* bound: of the calls of rand in one run

Message == DOMAIN ChatOf
Avatars == 0           \* the folder _html/avatars: the others are of peers

ASSUME GrabAssumption ==
  /\ Peer \subseteq Nat \ {Avatars} /\ Number \in [Peer -> Nat]
  /\ ChatOf \in Seq(Peer) /\ Sender \in [Message -> SUBSET Peer]
  /\ WithMedia \subseteq Message /\ NotDumped \subseteq Message
  /\ MaxStarts \in Nat /\ MaxDumps \in Nat /\ MaxRand \in Nat

VARIABLES
  exists,    \* which of index.html and list.html are there
  pages,     \* the pages that are there: sequences of what was dumped
  list,      \* the lines of list.html
  files,     \* what was downloaded, by folder and name
  state,     \* the number in the state file
  pc,        \* where the process is; "down"; "lost": undefined behaviour
  message,   \* the argument of dump_message, 0 for none
  counts,    \* is it an update, that tgl counts?
  lines,     \* the array of add_to_list
  loading,   \* downloads that have not called back
  pts,       \* TLS->pts
  written,   \* the static wpts
  rands,     \* how often rand was called in this run: it is never seeded
  starts,
  skipped,   \* history: the messages behind which a start was told to go on
  cut,       \* history: was a write of the list cut off?
  fetched    \* history: the targets of downloads that succeeded in this run

vars == <<exists, pages, list, files, state, pc, message, counts, lines, loading,
          pts, written, rands, starts, skipped, cut, fetched>>

(* A line of the list links the page of a peer, or is the first line, with *)
(* the number of others.  A list that was cut off has a first line, since  *)
(* that is shorter than a block, and behind it anything: lines may be      *)
(* missing, torn, or joined to the next.                                   *)
Chat(p) == <<"peerid", p>>
Total(n) == <<"total", n>>
Damaged == <<<<"damaged", 0>>>>
NumberIn(line) == Number[line[2]]
Line == ({"peerid"} \X Peer) \cup ({"total"} \X Nat) \cup {Damaged[1]}
Entry == [msg : Message, link : (Peer \X (0 .. MaxRand)) \cup {<<>>}, run : 1 .. MaxStarts]

Put(f, x, v) == [y \in DOMAIN f \cup {x} |-> IF y = x THEN v ELSE f[y]]
None == [x \in {} |-> 0]
Dumps == {<<p, i>> : p \in DOMAIN pages, i \in 1 .. MaxDumps}
Dumped(p) == IF p \in DOMAIN pages THEN {pages[p][i].msg : i \in DOMAIN pages[p]} ELSE {}
InPages == Cardinality({d \in Dumps : d[2] <= Len(pages[d[1]])})

DiskType ==
  /\ exists \subseteq {"index", "list"}
  /\ pages \in [DOMAIN pages -> Seq(Entry)] /\ DOMAIN pages \subseteq Peer
  /\ list \in Seq(Line)
  /\ files \in [DOMAIN files -> Message \cup Peer]
  /\ state \in 0 .. Len(ChatOf)

(* Where a download goes: a folder and a name. *)
Target == ({Avatars} \cup Peer) \X Nat

ProcessType ==
  /\ pc \in {"down", "idle", "page", "frame", "list", "rewrite", "append", "lost"}
  /\ message \in Message \cup {0} /\ (message = 0 <=> pc \in {"down", "idle"})
  /\ counts \in BOOLEAN
  /\ lines \in Seq(Line)
  /\ loading \subseteq [target : Target, what : Message \cup Peer]
  /\ pts \in 0 .. Len(ChatOf) /\ written \in 0 .. Len(ChatOf)

HistoryType ==
  /\ rands \in 0 .. MaxRand /\ starts \in 0 .. MaxStarts
  /\ cut \in BOOLEAN /\ fetched \subseteq DOMAIN files

TypeOK == DiskType /\ ProcessType /\ HistoryType

Init ==
  /\ exists = {} /\ pages = None /\ list = <<>> /\ files = None /\ state = 0
  /\ pc = "down" /\ message = 0 /\ counts = FALSE /\ lines = <<>> /\ loading = {}
  /\ pts = 0 /\ written = 0 /\ rands = 0 /\ starts = 0
  /\ skipped = {} /\ cut = FALSE /\ fetched = {}

Disk == <<exists, pages, list, files, state>>

-----------------------------------------------------------------------------
(* Start and end. *)

(* read_state_file asks for the number to go on behind.                    *)
start ==
  /\ pc = "down" /\ starts < MaxStarts
  /\ pc' = "idle" /\ starts' = starts + 1
  /\ \E t \in IF state = 0 THEN {0} ELSE 0 .. Len(ChatOf) :
       pts' = t /\ skipped' = skipped \cup (state + 1 .. t)
  /\ written' = 0 /\ rands' = 0 /\ fetched' = {}
  /\ UNCHANGED <<Disk, message, counts, lines, loading, cut>>

Down ==
  /\ pc' = "down" /\ message' = 0 /\ lines' = <<>> /\ loading' = {} /\ fetched' = {}
  /\ counts' = FALSE /\ pts' = 0 /\ written' = 0 /\ rands' = 0
  /\ UNCHANGED <<pages, files, state, starts, skipped>>

(* The process is killed.  While the list is written nothing of it may be  *)
(* on the disk, or some blocks; the first list may not even have a file.   *)
kill ==
  /\ pc \notin {"down", "lost"}
  /\ Down
  /\ list' \in IF pc = "rewrite" THEN {<<>>, Damaged} ELSE {list}
  /\ exists' \in IF pc = "frame" THEN {exists, exists \cup {"list"}} ELSE {exists}
  /\ cut' = (cut \/ pc \in {"rewrite", "frame"})

-----------------------------------------------------------------------------
(* Downloads. *)

Load(folder, name, what) == [target |-> <<folder, name>>, what |-> what]

(* Nothing is done about a download that fails.                            *)
download_callback(d) ==
  /\ pc = "idle" /\ d \in loading
  /\ loading' = loading \ {d}
  /\ \/ files' = Put(files, d.target, d.what) /\ fetched' = fetched \cup {d.target}
     \/ UNCHANGED <<files, fetched>>
  /\ UNCHANGED <<exists, pages, list, state, pc, message, counts, lines, pts, written,
                 rands, starts, skipped, cut>>

download_avatar(p) ==
  IF <<Avatars, Number[p]>> \in DOMAIN files THEN {}
  ELSE {Load(Avatars, Number[p], p)}

(* A mutant: the media go where the avatars are. *)
create_download_file_unsorted(p) == <<Avatars, rands>>

(* A mutant: a name of the time, which is the same for many messages. *)
create_download_file_clock(p) == <<p, 0>>

(* A name made of the next two results of rand.                            *)
create_download_file(p) == <<p, rands>>

(* A user name enters the index: its place in the tree is chosen by rand.  *)
(* A name that is known does not; here the step may always be taken, since *)
(* who has which name is left out.                                         *)
print_user_update_gw ==
  /\ pc = "idle" /\ rands < MaxRand
  /\ rands' = rands + 1
  /\ UNCHANGED <<Disk, pc, message, counts, lines, loading, pts, written, starts,
                 skipped, cut, fetched>>

-----------------------------------------------------------------------------
(* A message is dumped. *)

Begin(m) ==
  /\ pc = "idle" /\ InPages < MaxDumps /\ rands < MaxRand - 1
  /\ message' = m
  /\ pc' = IF ChatOf[m] \in DOMAIN pages THEN "list" ELSE "page"
  /\ UNCHANGED <<Disk, lines, loading, pts, written, rands, starts, skipped, cut, fetched>>

(* The next message arrives; tgl counts it even if it is not dumped.       *)
print_message_gw ==
  /\ pts < Len(ChatOf)
  /\ \/ pts + 1 \notin NotDumped /\ Begin(pts + 1) /\ counts' = TRUE
     \/ /\ pts + 1 \in NotDumped /\ pc = "idle" /\ pts' = pts + 1
        /\ UNCHANGED <<Disk, pc, message, counts, lines, loading, written, rands, starts,
                       skipped, cut, fetched>>

(* One is printed again, by history for one. *)
print_msg_list_gw ==
  \E m \in (1 .. pts) \ NotDumped : Begin(m) /\ counts' = FALSE

(* initiate_html, and initialize_frameset for the first page: index.html   *)
(* is written some files before list.html.                                 *)
initiate_html ==
  /\ pc = "page"
  /\ IF "index" \notin exists
       THEN pc' = "frame" /\ exists' = exists \cup {"index"} /\ UNCHANGED pages
       ELSE /\ pc' = "list" /\ pages' = Put(pages, ChatOf[message], <<>>)
            /\ UNCHANGED exists
  /\ UNCHANGED <<list, files, state, message, counts, lines, loading, pts, written,
                 rands, starts, skipped, cut, fetched>>

initialize_frameset ==
  /\ pc = "frame"
  /\ exists' = exists \cup {"list"} /\ list' = <<Total(0)>>
  /\ pc' = "list" /\ pages' = Put(pages, ChatOf[message], <<>>)
  /\ UNCHANGED <<files, state, message, counts, lines, loading, pts, written, rands,
                 starts, skipped, cut, fetched>>

(* The links of a list that is whole: as many as its first line says. *)
Links == [i \in 1 .. list[1][2] |-> list[i + 1]]

Places(links, p) == {i \in DOMAIN links : NumberIn(links[i]) = Number[p]}

(* A mutant: a chat that is not found is put in the place of the first. *)
OnTop_replaces(links, p) ==
  IF Places(links, p) # {} THEN links
  ELSE IF links = <<>> THEN <<Chat(p)>> ELSE [links EXCEPT ![1] = Chat(p)]

(* The link of a chat changes places with the first, or the first is moved *)
(* to the end for the new one.                                             *)
OnTop(links, p) ==
  IF Places(links, p) # {}
    THEN LET i == CHOOSE i \in Places(links, p) : \A j \in Places(links, p) : i <= j
         IN  [links EXCEPT ![1] = links[i], ![i] = links[1]]
    ELSE IF links = <<>> THEN <<Chat(p)>>
    ELSE Append([links EXCEPT ![1] = Chat(p)], links[1])

(* The lines to write.  A damaged list is not repaired. *)
Listing(p) ==
  IF list = Damaged THEN Damaged ELSE <<Total(Len(OnTop(Links, p)))>> \o OnTop(Links, p)

(* Whether the chat is found: a torn line may still have its number, or    *)
(* the first figures of it, which are the number of another.               *)
Found(p) == IF list = Damaged THEN BOOLEAN ELSE {Places(Links, p) # {}}

(* add_to_list up to the fopen that truncates the file.  Without its first *)
(* line anything may happen, which is not followed.                        *)
add_to_list ==
  LET p == ChatOf[message]
  IN  /\ pc = "list" /\ "list" \in exists
      /\ \/ list = <<>> /\ pc' = "lost" /\ UNCHANGED <<list, lines, loading>>
         \/ /\ list # <<>> /\ pc' = "rewrite" /\ list' = <<>> /\ lines' = Listing(p)
            /\ \E found \in Found(p) :
                 loading' = loading \cup (IF found THEN {} ELSE download_avatar(p))
      /\ UNCHANGED <<exists, pages, files, state, message, counts, pts, written, rands,
                     starts, skipped, cut, fetched>>

(* Without the file the process ends, and so it does at every later        *)
(* message.                                                                *)
no_list ==
  /\ pc = "list" /\ "list" \notin exists
  /\ Down /\ UNCHANGED <<exists, list, cut>>

(* The blocks are written, and the file is closed. *)
write_list ==
  /\ pc = "rewrite"
  /\ list' = lines /\ lines' = <<>> /\ pc' = "append"
  /\ UNCHANGED <<exists, pages, files, state, message, counts, loading, pts, written,
                 rands, starts, skipped, cut, fetched>>

(* The rest of dump_message_html; when it returned tgl counts the update.  *)
append_html ==
  LET p       == ChatOf[message]
      link    == IF message \in WithMedia THEN create_download_file(p) ELSE <<>>
      avatars == UNION {download_avatar(q) : q \in Sender[message]}
      media   == IF message \in WithMedia THEN {Load(link[1], link[2], message)} ELSE {}
  IN  /\ pc = "append"
      /\ loading' = loading \cup avatars \cup media
      /\ rands' = IF message \in WithMedia THEN rands + 2 ELSE rands
      /\ pages' = [pages EXCEPT ![p] =
                     Append(@, [msg |-> message, link |-> link, run |-> starts])]
      /\ pts' = (IF counts THEN message ELSE pts)
      /\ pc' = "idle" /\ message' = 0 /\ counts' = FALSE
      /\ UNCHANGED <<exists, list, files, state, lines, written, starts, skipped, cut,
                     fetched>>

(* A mutant: the number is written before the message is dumped. *)
write_state_file_early ==
  /\ pc \notin {"down", "lost"} /\ (written < pts \/ counts)
  /\ state' = (IF counts THEN message ELSE pts) /\ written' = state'
  /\ UNCHANGED <<exists, pages, list, files, pc, message, counts, lines, loading, pts,
                 rands, starts, skipped, cut, fetched>>

(* At the end of each turn of net_loop.                                    *)
write_state_file ==
  /\ pc = "idle" /\ written < pts
  /\ written' = pts /\ state' = pts
  /\ UNCHANGED <<exists, pages, list, files, pc, message, counts, lines, loading, pts,
                 rands, starts, skipped, cut, fetched>>

Next ==
  \/ start \/ kill \/ print_user_update_gw
  \/ \E d \in loading : download_callback(d)
  \/ print_message_gw \/ print_msg_list_gw
  \/ initiate_html \/ initialize_frameset \/ add_to_list \/ no_list
  \/ write_list \/ append_html \/ write_state_file

Spec == Init /\ [][Next]_vars

-----------------------------------------------------------------------------
(* Properties. *)

Shared(p) == \E q \in Peer \ {p} : Number[q] = Number[p]

(* While no write of the list was cut off (telegrab-html.c:287), and       *)
(* wherever else the process was killed: when a message is written the     *)
(* link of its chat, or of a chat with the same number                     *)
(* (telegrab-html.c:229), is at the top of the list; and every chat with a *)
(* page that was dumped to is in the list exactly once, as the first line  *)
(* counts them.                                                            *)
Listed ==
  ~cut =>
    /\ pc = "append" =>
         \/ list[2] = Chat(ChatOf[message])
         \/ Shared(ChatOf[message]) /\ NumberIn(list[2]) = Number[ChatOf[message]]
    /\ pc \in {"idle", "down"} => \A p \in Peer :
         Dumped(p) # {} =>
           /\ list[1] = Total(Len(list) - 1)
           /\ Cardinality({i \in 2 .. Len(list) : NumberIn(list[i]) = Number[p]}) = 1

(* A message that the state file counts was dumped to the page of its      *)
(* chat, whenever the process was killed: after the restart it would not   *)
(* come again.  It may be there twice, and is not if no message of its     *)
(* kind is dumped.                                                         *)
NeverLost ==
  \A m \in (1 .. state) \ (skipped \cup NotDumped) : m \in Dumped(ChatOf[m])

(* In one run a link leads to what was downloaded for its message, in any  *)
(* order of the callbacks: nothing of the same run has replaced it.  The   *)
(* next run uses the same names again.                                     *)
LinksLeadHome ==
  \A p \in DOMAIN pages : \A i \in DOMAIN pages[p] :
    LET e == pages[p][i]
    IN  (e.run = starts /\ e.link \in fetched) => files[e.link] = e.msg
=============================================================================
