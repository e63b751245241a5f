---------------------------- MODULE ConsoleProofs ---------------------------
(***************************************************************************)
(* Theorems of Console for every set of askers and peers, and every bound  *)
(* on lines, batches and updates.                                          *)
(***************************************************************************)
EXTENDS Console, SequenceTheorems, FiniteSetTheorems, FunctionTheorems, TLAPS

(* While a question is open somebody is to be called, an answer is still   *)
(* missing, and the answers before it are there: those of an asker whose   *)
(* callback was overwritten are behind num, and will be overwritten.       *)
Asking == reading => /\ cb \in Asker
                     /\ num < total
                     /\ \A i \in 0 .. num - 1 : results[i] = "held"

(* The parts of the invariant: each group of variables has its own.        *)
TerminalInv == TerminalType /\ TypedKept
PromptInv == PromptType /\ QuestionsAnswered /\ Asking
MarksInv == MarksType /\ MarksCounted

Inv == TerminalInv /\ PromptInv /\ MarksInv

-----------------------------------------------------------------------------
(* The step is one of a process that goes on.                              *)
Alive == pc # "aborted" /\ pc' # "aborted"

(* The terminal's actions: a callback runs between the events of the loop, *)
(* so none finds prompt_was or in_readline set.                            *)
LEMMA TerminalKeeps ==
  ASSUME TerminalInv, PromptInv,
         \/ rl_callback_read_char \/ interpreter_ex \/ interpreter_ex_ends
         \/ print_start \/ print_end \/ delete_stdin_event
  PROVE  TerminalInv' /\ UNCHANGED <<prompt, marks>> /\ Alive
<1> USE ConsoleAssumption DEF ConsoleAssumption, TerminalInv, PromptInv, PromptType,
                              TerminalType, TypedKept, prompt, Alive
<1>1. CASE rl_callback_read_char
  <2>1. /\ pc = "idle" /\ ~in_readline /\ ~reading
        /\ UNCHANGED <<saved, prompt_was, open, prompt, marks>>
    BY <1>1 DEF rl_callback_read_char
  <2>2. CASE line < MaxLine /\ line' = line + 1 /\ typed' = typed + 1
             /\ UNCHANGED <<pc, in_readline>>
    BY <2>1, <2>2
  <2>3. CASE line' = 0 /\ typed' = 0 /\ pc' = "command" /\ in_readline' = TRUE
    BY <2>1, <2>3
  <2>4. QED
    BY <1>1, <2>1, <2>2, <2>3 DEF rl_callback_read_char
<1>2. CASE interpreter_ex
  BY <1>2 DEF interpreter_ex
<1>3. CASE interpreter_ex_ends
  BY <1>3 DEF interpreter_ex_ends
<1>4. CASE print_start
  BY <1>4 DEF print_start, deactivate_readline
<1>5. CASE print_end
  BY <1>5 DEF print_end, reactivate_readline
<1>6. CASE delete_stdin_event
  BY <1>6 DEF delete_stdin_event
<1>7. QED
  BY <1>1, <1>2, <1>3, <1>4, <1>5, <1>6

(* A question takes the place of another one, whose asker is forgotten,    *)
(* and saves the line unless that one had.                                 *)
LEMMA AskKeeps ==
  ASSUME TerminalInv, PromptInv, NEW a \in Asker, do_get_values(a)
  PROVE  TerminalInv' /\ PromptInv' /\ UNCHANGED marks /\ Alive
<1> USE ConsoleAssumption DEF ConsoleAssumption, do_get_values, Alive
<1>1. TerminalInv'
  BY DEF TerminalInv, PromptInv, PromptType, TerminalType, TypedKept, deactivate_readline
<1>2. PromptType'
  BY DEF PromptInv, PromptType
<1>3. QuestionsAnswered' /\ Asking'
  BY DEF PromptInv, PromptType, QuestionsAnswered, Asking
<1>4. QED
  BY <1>1, <1>2, <1>3 DEF PromptInv

(* The hash of a bot is no answer to a question. *)
LEMMA BotKeeps ==
  ASSUME PromptInv, do_get_bot_hash
  PROVE  /\ PromptInv' /\ Alive
         /\ UNCHANGED <<pc, line, saved, prompt_was, in_readline, open, typed, reading, marks>>
<1>1. pc = "idle" /\ ~reading /\ results' = [results EXCEPT ![0] = "bot"]
        /\ UNCHANGED <<pc, line, saved, prompt_was, in_readline, open, reading, cb, num, total,
                      twice, waiting, typed, marks>>
  BY DEF do_get_bot_hash
<1>2. results' \in [Slot -> {"null", "held", "freed", "bot"}]
  BY <1>1 DEF PromptInv, PromptType
<1>3. PromptType' /\ QuestionsAnswered' /\ Asking'
  BY <1>1, <1>2 DEF PromptInv, PromptType, QuestionsAnswered, Asking
<1>4. QED
  BY <1>1, <1>3 DEF PromptInv, Alive

(* An answer is stored behind the others, which are all there; behind the  *)
(* last one they are freed, and none of them had been freed before.        *)
LEMMA AnswerKeeps ==
  ASSUME TerminalInv, PromptInv, one_string_read_end
  PROVE  TerminalInv' /\ PromptInv' /\ UNCHANGED <<pc, marks>> /\ pc = "idle"
<1>1. /\ pc = "idle" /\ reading /\ cb \in Asker /\ num < total
      /\ num \in Slot /\ total \in 1 .. 10
      /\ total \in {Values[a] : a \in Asker}
      /\ \A i \in 0 .. num - 1 : i \in Slot /\ results[i] = "held"
      /\ UNCHANGED <<pc, prompt_was, in_readline, open, typed, marks>>
  BY ConsoleAssumption
     DEF ConsoleAssumption, one_string_read_end, PromptInv, Asking, PromptType, Slot
<1>2. /\ Answered \in [Slot -> {"null", "held", "freed", "bot"}]
      /\ \A i \in 0 .. num : Answered[i] = "held"
  BY <1>1 DEF Answered, PromptInv, PromptType, Slot
<1>3. CASE num + 1 < total
  <2>1. results' = Answered /\ num' = num + 1
        /\ UNCHANGED <<reading, line, saved, waiting, cb, total, twice>>
    BY <1>3 DEF one_string_read_end
  <2>2. Asking' /\ PromptType'
    BY <1>1, <1>2, <1>3, <2>1 DEF Asking, PromptInv, PromptType, Slot
  <2>3. QED
    BY <1>1, <2>1, <2>2 DEF TerminalInv, TerminalType, TypedKept, PromptInv,
                            QuestionsAnswered
<1>4. CASE ~(num + 1 < total)
  <2>1. Called /\ total = num + 1
    BY <1>1, <1>4 DEF one_string_read_end, Slot
  <2>2. Answers(total)
    BY <2>1 DEF Called
  <2>3. results' \in [Slot -> {"null", "held", "freed", "bot"}]
    BY <1>2, <2>2 DEF Answers
  <2>4. twice' = FALSE
    <3>1. \A i \in 0 .. total - 1 : Answered[i] # "freed"
      BY <1>1, <1>2, <2>1 DEF Slot
    <3>2. twice = FALSE
      BY DEF PromptInv, PromptType, QuestionsAnswered
    <3>3. QED
      BY <2>2, <3>1, <3>2 DEF Answers
  <2>5. ~prompt_was /\ saved = typed /\ line = 0
    BY <1>1 DEF TerminalInv, TerminalType, TypedKept
  <2>6. CASE reading' = FALSE /\ line' = saved /\ saved' = NoLine
             /\ waiting' = waiting \ {cb} /\ num' = num + 1 /\ UNCHANGED <<cb, total>>
    <3>1. TerminalInv'
      BY <1>1, <2>5, <2>6 DEF TerminalInv, TerminalType, TypedKept
    <3>2. PromptInv'
      <4>1. waiting' = {}
        BY <1>1, <2>6 DEF PromptInv, QuestionsAnswered
      <4>2. total' = total /\ num' \in 0 .. total
        BY <1>1, <2>1, <2>6
      <4>3. PromptType'
        BY <1>1, <2>3, <2>4, <2>6, <4>1, <4>2 DEF PromptInv, PromptType
      <4>4. QED
        BY <2>4, <2>6, <4>1, <4>3 DEF PromptInv, QuestionsAnswered, Asking
    <3>3. QED
      BY <1>1, <3>1, <3>2
  <2>7. CASE num' = 0 /\ UNCHANGED <<reading, line, saved, waiting, cb, total>>
    <3>1. TerminalInv'
      BY <1>1, <2>7 DEF TerminalInv, TerminalType, TypedKept
    <3>2. PromptInv'
      <4>1. PromptType'
        <5>1. total' = total /\ num' \in 0 .. total
          BY <1>1, <2>7
        <5>2. QED
          BY <2>3, <2>4, <2>7, <5>1 DEF PromptInv, PromptType
      <4>2. Asking'
        BY <1>1, <2>7 DEF Asking
      <4>3. QED
        BY <2>4, <2>7, <4>1, <4>2 DEF PromptInv, QuestionsAnswered
    <3>3. QED
      BY <1>1, <3>1, <3>2
  <2>8. QED
    BY <2>1, <2>6, <2>7 DEF Called
<1>5. QED
  BY <1>3, <1>4
-----------------------------------------------------------------------------
(* How many messages of a peer are in a list: what is printed of two lists *)
(* is the sum of what is printed of each.                                  *)
LEMMA OfPeerEmpty == \A p : OfPeer(<<>>, p) = 0
<1>1. \A p : {i \in DOMAIN <<>> : <<>>[i] = p} = {}
  OBVIOUS
<1>2. QED
  BY <1>1, FS_EmptySet DEF OfPeer

LEMMA PlacesFinite ==
  ASSUME NEW s \in Seq(Peer), NEW p
  PROVE  /\ IsFiniteSet({i \in DOMAIN s : s[i] = p})
         /\ OfPeer(s, p) \in Nat
<1>1. DOMAIN s = 1 .. Len(s) /\ Len(s) \in Nat
  BY LenProperties
<1>2. IsFiniteSet(DOMAIN s)
  BY <1>1, FS_Interval
<1>3. IsFiniteSet({i \in DOMAIN s : s[i] = p})
  BY <1>2, FS_Subset
<1>4. QED
  BY <1>3, FS_CardinalityType DEF OfPeer

LEMMA OfPeerConcat ==
  ASSUME NEW s \in Seq(Peer), NEW t \in Seq(Peer), NEW p
  PROVE  OfPeer(s \o t, p) = OfPeer(s, p) + OfPeer(t, p)
<1> DEFINE A == {i \in DOMAIN s : s[i] = p}
           B == {i \in DOMAIN t : t[i] = p}
           C == {i \in DOMAIN (s \o t) : (s \o t)[i] = p}
           shift == [i \in B |-> i + Len(s)]
           D == {i + Len(s) : i \in B}
<1>1. /\ Len(s) \in Nat /\ Len(t) \in Nat
      /\ DOMAIN s = 1 .. Len(s) /\ DOMAIN t = 1 .. Len(t)
      /\ s \o t \in Seq(Peer) /\ Len(s \o t) = Len(s) + Len(t)
      /\ DOMAIN (s \o t) = 1 .. Len(s) + Len(t)
      /\ \A i \in 1 .. Len(s) + Len(t) :
           (s \o t)[i] = IF i <= Len(s) THEN s[i] ELSE t[i - Len(s)]
  <2>1. /\ s \o t \in Seq(Peer) /\ Len(s \o t) = Len(s) + Len(t)
        /\ \A i \in 1 .. Len(s) + Len(t) :
             (s \o t)[i] = IF i <= Len(s) THEN s[i] ELSE t[i - Len(s)]
    BY ConcatProperties
  <2>2. QED
    BY <2>1, LenProperties
<1>2. C = A \cup D /\ A \cap D = {}
  <2>1. \A i \in C : i \in A \cup D
    <3> SUFFICES ASSUME NEW i \in C PROVE i \in A \cup D
      OBVIOUS
    <3>1. CASE i <= Len(s)
      BY <1>1, <3>1
    <3>2. CASE i > Len(s)
      <4>1. i - Len(s) \in B /\ i = (i - Len(s)) + Len(s)
        BY <1>1, <3>2
      <4>2. QED
        BY <4>1
    <3>3. QED
      BY <1>1, <3>1, <3>2
  <2>2. A \subseteq C
    BY <1>1
  <2>3. D \subseteq C /\ A \cap D = {}
    BY <1>1
  <2>4. QED
    BY <2>1, <2>2, <2>3
<1>3. IsFiniteSet(A) /\ IsFiniteSet(B)
  BY PlacesFinite
<1>4. shift \in Bijection(B, D)
  <2>1. shift \in [B -> D] /\ \A a, b \in B : shift[a] = shift[b] => a = b
    BY <1>1
  <2>2. \A d \in D : \E b \in B : shift[b] = d
    OBVIOUS
  <2>3. QED
    BY <2>1, <2>2, Fun_IsBij
<1>5. IsFiniteSet(D) /\ Cardinality(D) = Cardinality(B)
  <2>1. ExistsBijection(B, D)
    BY <1>4 DEF ExistsBijection
  <2>2. QED
    BY <1>3, <2>1, FS_Bijection
<1>6. Cardinality(A \cup D) = Cardinality(A) + Cardinality(D) - Cardinality({})
  <2> HIDE DEF A, D
  <2>1. Cardinality(A \cup D) = Cardinality(A) + Cardinality(D) - Cardinality(A \cap D)
    BY <1>3, <1>5, FS_Union
  <2>2. QED
    BY <1>2, <2>1, Zenon
<1>7. Cardinality(A) \in Nat /\ Cardinality(D) \in Nat /\ Cardinality({}) = 0
  BY <1>3, <1>5, FS_CardinalityType, FS_EmptySet
<1>8. OfPeer(s, p) = Cardinality(A) /\ OfPeer(t, p) = Cardinality(B)
      /\ OfPeer(s \o t, p) = Cardinality(C)
  BY DEF OfPeer
<1> HIDE DEF A, B, C, D, shift
<1>9. QED
  BY <1>2, <1>5, <1>6, <1>7, <1>8

(* The new messages are an update of some peer or other. *)
LEMMA ListTyped ==
  ASSUME NEW list \in Lists
  PROVE  list \in Seq(Peer)
<1>1. PICK n \in 0 .. MaxAtOnce : list \in [1 .. n -> Peer]
  BY DEF Lists
<1>2. QED
  BY <1>1, ConsoleAssumption DEF ConsoleAssumption

LEMMA CountsTyped ==
  ASSUME MarksType
  PROVE  \A q \in Peer : told[q] \in Nat /\ read[q] \in 0 .. MaxRead /\ read[q] \in Nat
BY ConsoleAssumption DEF ConsoleAssumption, MarksType

(* A flush tells of every message of the batch, and empties it. *)
LEMMA ToldTyped ==
  ASSUME MarksType, NEW list \in Seq(Peer),
         \A q \in Peer : told[q] + OfPeer(list, q) <= MaxRead
  PROVE  /\ Told(list) \in [Peer -> 0 .. MaxRead]
         /\ \A q \in Peer : Told(list)[q] = told[q] + OfPeer(list, q)
<1>1. \A q \in Peer : told[q] \in Nat /\ OfPeer(list, q) \in Nat
  BY PlacesFinite, CountsTyped
<1>2. QED
  BY <1>1, ConsoleAssumption DEF ConsoleAssumption, Told

(* A peer that occurs in a list is counted. *)
LEMMA OfPeerPositive ==
  ASSUME NEW s \in Seq(Peer), NEW i \in DOMAIN s
  PROVE  OfPeer(s, s[i]) > 0
<1> DEFINE A == {j \in DOMAIN s : s[j] = s[i]}
<1>1. IsFiniteSet(A) /\ A # {}
  BY PlacesFinite
<1>2. Cardinality(A) \in Nat /\ Cardinality(A) # 0
  BY <1>1, FS_CardinalityType, FS_EmptySet
<1>3. OfPeer(s, s[i]) = Cardinality(A)
  BY DEF OfPeer
<1> HIDE DEF A
<1>4. QED
  BY <1>2, <1>3

(* What is printed are all the messages, or there is a channel's among     *)
(* them, and nothing is told.                                              *)
LEMMA PrintKeeps ==
  ASSUME MarksType, NEW list \in Seq(Peer), print_read_list(list), pc = "idle",
         read' \in [Peer -> 0 .. MaxRead], log_level' \in 0 .. 1,
         \A q \in Peer : told[q] + OfPeer(list, q) = read'[q]
  PROVE  MarksInv' /\ pc' \in {"idle", "aborted"}
<1>1. \A q \in Peer : told[q] \in Nat /\ OfPeer(list, q) \in Nat /\ read'[q] \in 0 .. MaxRead
  BY CountsTyped, PlacesFinite
<1>2. CASE \E i \in DOMAIN list : list[i] \in Channel
  <2>1. pc' = "aborted" /\ UNCHANGED <<told, unread, timer>>
    BY <1>2 DEF print_read_list
  <2>2. PICK i \in DOMAIN list : list[i] \in Channel
    BY <1>2
  <2>3. list[i] \in Peer
    BY <2>2, ConsoleAssumption DEF ConsoleAssumption
  <2>4. told[list[i]] < read'[list[i]]
    <3>1. OfPeer(list, list[i]) > 0
      BY OfPeerPositive
    <3>2. QED
      BY <1>1, <2>3, <3>1
  <2>5. MarksType'
    BY <2>1 DEF MarksType
  <2>6. MarksCounted'
    BY <2>1, <2>2, <2>4 DEF MarksCounted
  <2>7. QED
    BY <2>1, <2>5, <2>6 DEF MarksInv
<1>3. CASE ~ \E i \in DOMAIN list : list[i] \in Channel
  <2>1. told' = Told(list) /\ unread' = <<>> /\ timer' = FALSE /\ pc' = pc
    BY <1>3 DEF print_read_list
  <2>2. \A q \in Peer : told[q] + OfPeer(list, q) <= MaxRead
    BY <1>1, ConsoleAssumption DEF ConsoleAssumption
  <2>3. told' \in [Peer -> 0 .. MaxRead]
        /\ \A q \in Peer : told'[q] = told[q] + OfPeer(list, q)
    BY <2>1, <2>2, ToldTyped
  <2>4. MarksType'
    <3>1. unread' \in Seq(Peer) /\ Len(unread') = 0
      BY <2>1
    <3>2. timer' \in BOOLEAN
      BY <2>1
    <3>3. QED
      BY <2>3, <3>1, <3>2, ConsoleAssumption DEF ConsoleAssumption, MarksType
  <2>5. MarksCounted'
    BY <1>1, <2>1, <2>3, OfPeerEmpty DEF MarksCounted
  <2>6. QED
    BY <2>1, <2>4, <2>5 DEF MarksInv
<1>4. QED
  BY <1>2, <1>3

LEMMA MarkReadKeeps ==
  ASSUME MarksInv, NEW list \in Lists, mark_read_upd(list)
  PROVE  /\ MarksInv' /\ pc = "idle" /\ pc' \in {"idle", "aborted"}
         /\ UNCHANGED <<line, saved, prompt_was, in_readline, open, prompt, typed>>
<1> DEFINE all == unread \o list
<1>1. /\ list \in Seq(Peer) /\ unread \in Seq(Peer) /\ all \in Seq(Peer)
      /\ Len(all) = Len(unread) + Len(list)
  BY ListTyped, ConcatProperties DEF MarksInv, MarksType
<1>2. /\ pc = "idle" /\ MarksType
      /\ UNCHANGED <<line, saved, prompt_was, in_readline, open, prompt, typed, log_level>>
  BY DEF mark_read_upd, MarksInv
<1>3. \A q \in Peer :
        /\ OfPeer(all, q) = OfPeer(unread, q) + OfPeer(list, q)
        /\ OfPeer(unread, q) \in Nat /\ OfPeer(list, q) \in Nat
        /\ told[q] \in Nat /\ read[q] \in Nat
        /\ told[q] + OfPeer(unread, q) = read[q]
  <2>1. \A q \in Peer : OfPeer(all, q) = OfPeer(unread, q) + OfPeer(list, q)
    BY <1>1, OfPeerConcat
  <2>2. \A q \in Peer : OfPeer(unread, q) \in Nat /\ OfPeer(list, q) \in Nat
    BY <1>1, PlacesFinite
  <2>3. QED
    BY <1>2, <2>1, <2>2, CountsTyped DEF MarksInv, MarksCounted
<1>4. CASE log_level < 1
  <2>1. UNCHANGED <<pc, marks>>
    BY <1>2, <1>4 DEF mark_read_upd, marks
  <2>2. MarksInv'
    BY <2>1 DEF marks, MarksInv, MarksType, MarksCounted, OfPeer
  <2>3. QED
    BY <1>2, <2>1, <2>2
<1>5. CASE ~(log_level < 1)
  <2>1. /\ read' = [q \in Peer |-> read[q] + OfPeer(list, q)]
        /\ \A q \in Peer : read[q] + OfPeer(list, q) <= MaxRead
    BY <1>5 DEF mark_read_upd
  <2>2. /\ read' \in [Peer -> 0 .. MaxRead]
        /\ \A q \in Peer : told[q] + OfPeer(all, q) = read'[q]
    <3>1. \A q \in Peer : read[q] + OfPeer(list, q) \in 0 .. MaxRead
      BY <1>3, <2>1, ConsoleAssumption DEF ConsoleAssumption
    <3>2. \A q \in Peer : told[q] + OfPeer(all, q) = read'[q]
      BY <1>3, <2>1
    <3>3. QED
      BY <2>1, <3>1, <3>2
  <2>3. CASE Len(unread) + Len(list) <= MaxUnread
    <3>1. unread' = all /\ timer' = TRUE /\ told' = told /\ pc' = pc
      BY <1>5, <2>3 DEF mark_read_upd
    <3>2. MarksType'
      BY <1>1, <1>2, <2>2, <2>3, <3>1 DEF MarksType
    <3>3. MarksCounted'
      BY <1>2, <2>2, <3>1 DEF MarksCounted, OfPeer
    <3>4. QED
      BY <1>2, <3>1, <3>2, <3>3 DEF MarksInv
  <2>4. CASE ~(Len(unread) + Len(list) <= MaxUnread)
    <3>1. print_read_list(all)
      BY <1>5, <2>4 DEF mark_read_upd, overflow
    <3>2. log_level' \in 0 .. 1
      BY <1>2 DEF MarksType
    <3> HIDE DEF all
    <3>3. MarksInv' /\ pc' \in {"idle", "aborted"}
      BY <1>1, <1>2, <2>2, <3>1, <3>2, PrintKeeps
    <3>4. QED
      BY <1>2, <3>3
  <2>5. QED
    BY <2>3, <2>4
<1>6. QED
  BY <1>4, <1>5

LEMMA AlarmKeeps ==
  ASSUME MarksInv, unread_message_alarm
  PROVE  /\ MarksInv' /\ pc = "idle" /\ pc' \in {"idle", "aborted"}
         /\ UNCHANGED <<line, saved, prompt_was, in_readline, open, prompt, typed>>
<1>1. /\ pc = "idle" /\ print_read_list(unread)
      /\ UNCHANGED <<line, saved, prompt_was, in_readline, open, prompt, typed, log_level, read>>
  BY DEF unread_message_alarm
<1>2. /\ MarksType /\ unread \in Seq(Peer)
      /\ read' \in [Peer -> 0 .. MaxRead] /\ log_level' \in 0 .. 1
      /\ \A q \in Peer : told[q] + OfPeer(unread, q) = read'[q]
  BY <1>1 DEF MarksInv, MarksType, MarksCounted
<1>3. MarksInv' /\ pc' \in {"idle", "aborted"}
  BY <1>1, <1>2, PrintKeeps
<1>4. QED
  BY <1>1, <1>3

(* A level is set by a command. *)
LEMMA SetKeeps ==
  ASSUME MarksInv, do_set
  PROVE  MarksInv' /\ UNCHANGED <<pc, line, saved, prompt_was, in_readline, open, prompt, typed>>
BY DEF do_set, MarksInv, MarksType, MarksCounted, OfPeer

-----------------------------------------------------------------------------
(* Init establishes the invariant, and every step keeps it. *)
LEMMA InitInv == Init => Inv
<1> SUFFICES ASSUME Init PROVE Inv
  OBVIOUS
<1>1. TerminalInv
  <2>1. TerminalType
    <3>1. prompt_was \in BOOLEAN /\ in_readline \in BOOLEAN /\ open \in BOOLEAN
      BY DEF Init
    <3>2. /\ line \in 0 .. MaxLine /\ typed \in 0 .. MaxLine
          /\ saved \in 0 .. MaxLine \cup {NoLine}
      BY ConsoleAssumption DEF ConsoleAssumption, Init
    <3>3. QED
      BY <3>1, <3>2 DEF Init, TerminalType
  <2>2. TypedKept
    BY DEF Init, TypedKept
  <2>3. QED
    BY <2>1, <2>2 DEF TerminalInv
<1>2. PromptInv
  <2>1. PromptType
    <3>1. reading \in BOOLEAN /\ twice \in BOOLEAN
      BY DEF Init
    <3>2. results \in [Slot -> {"null", "held", "freed", "bot"}] /\ num \in 0 .. total
      BY DEF Init
    <3>3. QED
      BY <3>1, <3>2 DEF Init, PromptType
  <2>2. QuestionsAnswered /\ Asking
    BY DEF Init, QuestionsAnswered, Asking
  <2>3. QED
    BY <2>1, <2>2 DEF PromptInv
<1>3. MarksInv
  <2>1. MarksType
    <3>1. timer \in BOOLEAN
      BY DEF Init
    <3>2. unread \in Seq(Peer) /\ Len(unread) <= MaxUnread
      BY ConsoleAssumption DEF ConsoleAssumption, Init
    <3>3. log_level \in 0 .. 1 /\ told \in [Peer -> 0 .. MaxRead] /\ read \in [Peer -> 0 .. MaxRead]
      BY ConsoleAssumption DEF ConsoleAssumption, Init
    <3>4. QED
      BY <3>1, <3>2, <3>3 DEF MarksType
  <2>2. MarksCounted
    BY OfPeerEmpty DEF Init, MarksCounted
  <2>3. QED
    BY <2>1, <2>2 DEF MarksInv
<1>4. QED
  BY <1>1, <1>2, <1>3 DEF Inv

LEMMA NextInv == Inv /\ [Next]_vars => Inv'
<1> SUFFICES ASSUME TerminalInv, PromptInv, MarksInv, [Next]_vars PROVE Inv'
  BY DEF Inv
<1>1. ASSUME UNCHANGED marks, Alive \/ UNCHANGED pc PROVE MarksInv'
  BY <1>1 DEF marks, MarksInv, MarksType, MarksCounted, OfPeer, Alive
<1>2. ASSUME UNCHANGED prompt PROVE PromptInv'
  BY <1>2 DEF prompt, PromptInv, PromptType, QuestionsAnswered, Asking
<1>3. ASSUME UNCHANGED <<line, saved, prompt_was, in_readline, open, typed, reading>>,
             UNCHANGED pc \/ (pc = "idle" /\ pc' \in {"idle", "aborted"})
      PROVE  TerminalInv'
  BY <1>3 DEF TerminalInv, TerminalType, TypedKept
<1>4. CASE \/ rl_callback_read_char \/ interpreter_ex \/ interpreter_ex_ends
           \/ print_start \/ print_end \/ delete_stdin_event
  <2>1. TerminalInv' /\ UNCHANGED <<prompt, marks>> /\ Alive
    BY <1>4, TerminalKeeps
  <2>2. QED
    BY <1>1, <1>2, <2>1 DEF Inv
<1>5. CASE \E a \in Asker : do_get_values(a)
  <2>1. TerminalInv' /\ PromptInv' /\ UNCHANGED marks /\ Alive
    BY <1>5, AskKeeps
  <2>2. QED
    BY <1>1, <2>1 DEF Inv
<1>6. CASE one_string_read_end
  <2>1. TerminalInv' /\ PromptInv' /\ UNCHANGED marks /\ UNCHANGED pc
    BY <1>6, AnswerKeeps
  <2>2. QED
    BY <1>1, <2>1 DEF Inv
<1>7. CASE \E list \in Lists : mark_read_upd(list)
  <2>1. /\ MarksInv' /\ pc = "idle" /\ pc' \in {"idle", "aborted"}
        /\ UNCHANGED <<line, saved, prompt_was, in_readline, open, prompt, typed>>
    BY <1>7, MarkReadKeeps
  <2>2. QED
    BY <1>2, <1>3, <2>1 DEF Inv, prompt
<1>8. CASE unread_message_alarm
  <2>1. /\ MarksInv' /\ pc = "idle" /\ pc' \in {"idle", "aborted"}
        /\ UNCHANGED <<line, saved, prompt_was, in_readline, open, prompt, typed>>
    BY <1>8, AlarmKeeps
  <2>2. QED
    BY <1>2, <1>3, <2>1 DEF Inv, prompt
<1>9. CASE do_get_bot_hash
  <2>1. PromptInv' /\ Alive /\ UNCHANGED marks
          /\ UNCHANGED <<pc, line, saved, prompt_was, in_readline, open, typed, reading>>
    BY <1>9, BotKeeps
  <2>2. QED
    BY <1>1, <1>3, <2>1 DEF Inv
<1>10. CASE do_set
  <2>1. MarksInv' /\ UNCHANGED <<pc, line, saved, prompt_was, in_readline, open, prompt, typed>>
    BY <1>10, SetKeeps
  <2>2. QED
    BY <1>2, <1>3, <2>1 DEF Inv, prompt
<1>11. CASE UNCHANGED vars
  <2>1. UNCHANGED <<line, saved, prompt_was, in_readline, open, typed, reading, pc>>
          /\ UNCHANGED prompt /\ UNCHANGED marks
    BY <1>11 DEF vars, prompt
  <2>2. QED
    BY <1>1, <1>2, <1>3, <2>1 DEF Inv
<1>12. QED
  BY <1>4, <1>5, <1>6, <1>7, <1>8, <1>9, <1>10, <1>11 DEF Next

(* Every reachable state satisfies the inductive invariant. *)
THEOREM InvCorrect == Spec => []Inv
<1>1. QED
  BY InitInv, NextInv, PTL DEF Spec

(* The state has its types: no print begins within another one, and no     *)
(* command within another one, on which assertions of the code rely.       *)
THEOREM TypeCorrect == Spec => []TypeOK
<1>1. Inv => TypeOK
  BY DEF Inv, TerminalInv, PromptInv, MarksInv, TypeOK
<1>2. QED
  BY <1>1, InvCorrect, PTL

(* What the user types is never lost, whatever is printed or asked.        *)
THEOREM TypedCorrect == Spec => []TypedKept
<1>1. Inv => TypedKept
  BY DEF Inv, TerminalInv
<1>2. QED
  BY <1>1, InvCorrect, PTL

(* Whoever asked is called or being asked, or was overwritten; no answer   *)
(* is freed twice.                                                         *)
THEOREM QuestionsCorrect == Spec => []QuestionsAnswered
<1>1. Inv => QuestionsAnswered
  BY DEF Inv, PromptInv
<1>2. QED
  BY <1>1, InvCorrect, PTL

(* Each message marked read with a log_level of 1 or more is told of        *)
(* exactly once, unless the process ends at the assertion for a channel's. *)
THEOREM MarksCorrect == Spec => []MarksCounted
<1>1. Inv => MarksCounted
  BY DEF Inv, MarksInv
<1>2. QED
  BY <1>1, InvCorrect, PTL
=============================================================================
