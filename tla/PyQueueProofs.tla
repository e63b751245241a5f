--------------------------- MODULE PyQueueProofs ----------------------------
(***************************************************************************)
(* Theorems of PyQueue for every number of slots, every script, and every  *)
(* number of peers, callables and references.                              *)
(***************************************************************************)
EXTENDS PyQueue, FiniteSetTheorems, SequenceTheorems, TLAPS

(* The steps of the loop: an argument is read while the commands before it *)
(* are done, and a callable runs only in its callback.                     *)
Phases ==
  /\ pc \in {"idle", "script", "on_loop"} => p = 0
  /\ running # None => pc = "script"
  /\ pc = "cb" => p < Len(py_ptr) /\ Sound(Cmd)
  /\ pc = "cb" /\ fault = "no" => Call(Cmd) \in asked

(* The peers that a command holds, and where an object is among those of   *)
(* the commands behind the first n.                                        *)
Args(c) == c.peers \o c.list
At(o, s) == {k \in DOMAIN s : s[k] = o}
Among(o, q, n) == {x \in (n + 1 .. Len(q)) \X Nat : x[2] \in At(o, Args(q[x[1]]))}
Places(o) == Among(o, py_ptr, p)

If(b) == IF b THEN 1 ELSE 0

(* What is counted for a peer covers those who have it: the variables of   *)
(* the script, and each place in a command that is not done.  And what is  *)
(* counted for a callable covers its name, the handler it is, the callback *)
(* that runs and the one to come.                                          *)
PlacesFinite == \A o \in Peer : IsFiniteSet(Places(o))

PeersCovered(n) ==
  \A o \in Peer \ overdrawn : n[o] >= If(o \in script) + Cardinality(Places(o))

CallablesCovered(n) ==
  \A c \in Callable :
    n[c] >= One(c, on_loop) + One(c, running) + If(c \in Named) + If(Waiting(c))

Counted == PlacesFinite /\ PeersCovered(count) /\ CallablesCovered(count)

(* Nobody waits for two calls. *)
WaitersApart ==
  /\ \A i, j \in p + 1 .. Len(py_ptr) :
       py_ptr[i].cb = py_ptr[j].cb /\ py_ptr[i].cb # None => i = j
  /\ \A r, s \in asked : r.extra = s.extra => r = s
  /\ \A i \in p + 1 .. Len(py_ptr), r \in asked :
       py_ptr[i].cb = r.extra => pc = "cb" /\ i = p + 1

(* The calls to come are the sound commands behind p, in their order. *)
InOrder ==
  /\ \A i \in 1 .. Len(due) : due[i] > p /\ Sound(py_ptr[due[i]])
  /\ \A i, j \in 1 .. Len(due) : i < j => due[i] < due[j]
  /\ \A k \in p + 1 .. Len(py_ptr) :
       Sound(py_ptr[k]) => \E i \in 1 .. Len(due) : due[i] = k

Inv == TypeOK /\ Phases /\ Counted /\ WaitersApart /\ InOrder /\ CallablesKept

-----------------------------------------------------------------------------
(* The table of functions and methods. *)
Kinds == {"peer", "string", "number", "message", "list", "float"}

LEMMA Tuples ==
  ASSUME NEW S
  PROVE  /\ <<>> \in Seq(S)
         /\ \A a \in S : <<a>> \in Seq(S)
         /\ \A a, b \in S : <<a, b>> \in Seq(S)
         /\ \A a, b, c \in S : <<a, b, c>> \in Seq(S)
         /\ \A a, b, c, d \in S : <<a, b, c, d>> \in Seq(S)
<1>1. ASSUME NEW a \in S, NEW b \in S, NEW c \in S, NEW d \in S
      PROVE  /\ <<a>> \in Seq(S) /\ <<a, b>> \in Seq(S) /\ <<a, b, c>> \in Seq(S)
             /\ <<a, b, c, d>> \in Seq(S)
  OBVIOUS
<1>2. QED
  BY <1>1

LEMMA RowsTyped ==
  /\ \A f \in Functions : Params[f] \in Seq(Kinds)
  /\ \A r \in Methods : r[2] \in Functions
  /\ \A f \in Functions : Pushed(f) \in Functions
<1> DEFINE Lengths == {<<>>, <<"peer">>, <<"string">>, <<"number">>, <<"message">>,
                       <<"peer", "string">>, <<"peer", "number">>, <<"peer", "peer">>,
                       <<"string", "string">>, <<"list", "string">>,
                       <<"peer", "number", "number">>, <<"peer", "float", "float">>,
                       <<"string", "string", "string">>,
                       <<"peer", "string", "string", "string">>}
<1>1. \A r \in Rows : r[2] \in Seq(Kinds)
  <2>1. \A r \in Chats : r[2] \in Lengths
    BY DEF Chats
  <2>2. \A r \in Sending : r[2] \in Lengths
    BY DEF Sending
  <2>3. \A r \in Loading : r[2] \in Lengths
    BY DEF Loading
  <2>4. \A r \in Asking : r[2] \in Lengths
    BY DEF Asking
  <2>5. \A r \in Contacts : r[2] \in Lengths
    BY DEF Contacts
  <2>6. \A r \in Others : r[2] \in Lengths
    <3> DEFINE O1 == {<<"create_group_chat", <<"list", "string">>>>,
                      <<"send_contact", <<"peer", "string", "string", "string">>>>,
                      <<"send_location", <<"peer", "float", "float">>>>,
                      <<"accept_secret_chat", <<>>>>}
               O2 == {<<f, <<"number">>>> : f \in {"delete_msg", "restore_msg"}} \cup
                     {<<f, <<>>>> : f \in {"status_online", "status_offline"}} \cup
                     {<<f, <<"string">>>> : f \in {"extf", "import_chat_link"}}
    <3>1. Others = O1 \cup O2
      BY DEF Others
    <3>2. \A r \in O1 : r[2] \in Lengths
      OBVIOUS
    <3>3. \A r \in O2 : r[2] \in Lengths
      OBVIOUS
    <3>4. QED
      BY <3>1, <3>2, <3>3
  <2>7. \A r \in Rows : r[2] \in Lengths
    BY <2>1, <2>2, <2>3, <2>4, <2>5, <2>6 DEF Rows
  <2>8. QED
    <3> HIDE DEF Lengths
    <3>1. \A r \in Rows : r[2] \in Lengths
      BY <2>7
    <3>2. Lengths \subseteq Seq(Kinds)
      <4>1. "peer" \in Kinds /\ "string" \in Kinds /\ "number" \in Kinds
            /\ "message" \in Kinds /\ "list" \in Kinds /\ "float" \in Kinds
        BY DEF Kinds
      <4>2. /\ <<>> \in Seq(Kinds)
            /\ <<"peer">> \in Seq(Kinds) /\ <<"string">> \in Seq(Kinds)
            /\ <<"number">> \in Seq(Kinds) /\ <<"message">> \in Seq(Kinds)
        BY <4>1, Tuples, Zenon
      <4>3. /\ <<"peer", "string">> \in Seq(Kinds) /\ <<"peer", "number">> \in Seq(Kinds)
            /\ <<"peer", "peer">> \in Seq(Kinds) /\ <<"string", "string">> \in Seq(Kinds)
            /\ <<"list", "string">> \in Seq(Kinds)
        BY <4>1, Tuples, Zenon
      <4>4. /\ <<"peer", "number", "number">> \in Seq(Kinds)
            /\ <<"peer", "float", "float">> \in Seq(Kinds)
            /\ <<"string", "string", "string">> \in Seq(Kinds)
            /\ <<"peer", "string", "string", "string">> \in Seq(Kinds)
        BY <4>1, Tuples, Zenon
      <4>5. QED
        BY <4>2, <4>3, <4>4, Zenon DEF Lengths
    <3>3. QED
      BY <3>1, <3>2
<1>2. ASSUME NEW f \in Functions
      PROVE  Params[f] \in Seq(Kinds)
  <2>1. PICK r \in Rows : r[1] = f
    BY DEF Functions
  <2>2. (CHOOSE x \in Rows : x[1] = f) \in Rows
    BY <2>1
  <2>3. QED
    BY <1>1, <2>2 DEF Params
<1>3. ASSUME NEW f, \E params : <<f, params>> \in Rows
      PROVE  f \in Functions
  <2>1. PICK params : <<f, params>> \in Rows
    BY <1>3
  <2>2. <<f, params>>[1] = f
    OBVIOUS
  <2>3. QED
    BY <2>1, <2>2 DEF Functions
<1>4. /\ \A f \in {"msg", "rename_chat", "send_photo", "send_video", "send_audio",
                  "send_document", "send_file", "send_text", "chat_set_photo"} :
           f \in Functions
      /\ "send_typing" \in Functions /\ "send_typing_abort" \in Functions
  <2>1. /\ \A f \in {"msg", "rename_chat", "send_photo", "send_video", "send_audio",
                    "send_document", "send_file", "send_text", "chat_set_photo"} :
             <<f, <<"peer", "string">>>> \in Sending
        /\ <<"send_typing", <<"peer">>>> \in Sending
        /\ <<"send_typing_abort", <<"peer">>>> \in Sending
    BY DEF Sending
  <2>2. Sending \subseteq Rows
    BY DEF Rows
  <2>3. QED
    BY <1>3, <2>1, <2>2
<1>5. \A f \in {"fwd", "history", "chat_info", "user_info", "chat_add_user",
              "chat_del_user"} : f \in Functions
  <2>1. /\ <<"fwd", <<"peer", "number">>>> \in Asking
        /\ <<"chat_info", <<"peer">>>> \in Asking /\ <<"user_info", <<"peer">>>> \in Asking
        /\ <<"history", <<"peer", "number", "number">>>> \in Asking
        /\ <<"chat_add_user", <<"peer", "peer">>>> \in Asking
        /\ <<"chat_del_user", <<"peer", "peer">>>> \in Asking
    BY DEF Asking
  <2>2. Asking \subseteq Rows
    BY DEF Rows
  <2>3. QED
    BY <1>3, <2>1, <2>2
<1>6. \A f \in {"send_contact", "send_location", "mark_read"} : f \in Functions
  <2>1. /\ <<"send_contact", <<"peer", "string", "string", "string">>>> \in Others
        /\ <<"send_location", <<"peer", "float", "float">>>> \in Others
    BY DEF Others
  <2>2. <<"mark_read", <<"peer">>>> \in Contacts
    BY DEF Contacts
  <2>3. Others \subseteq Rows /\ Contacts \subseteq Rows
    BY DEF Rows
  <2>4. QED
    BY <1>3, <2>1, <2>2, <2>3
<1>7. \A r \in Methods : r[2] \in Functions
  <2>1. \A r \in Talk : r[2] \in Functions
    BY <1>4, <1>5 DEF Talk
  <2>2. \A r \in Files : r[2] \in Functions
    BY <1>4 DEF Files
  <2>3. \A r \in Group : r[2] \in Functions
    BY <1>4, <1>5 DEF Group
  <2>4. \A r \in Query : r[2] \in Functions
    BY <1>5, <1>6 DEF Query
  <2>5. QED
    BY <2>1, <2>2, <2>3, <2>4 DEF Methods
<1>8. QED
  BY <1>2, <1>5, <1>7 DEF Pushed

(* As many peers are passed as the function expects. *)
LEMMA PeersTyped ==
  ASSUME TypeOK, NEW f \in Functions,
         NEW peers \in [1 .. Cardinality(Expects(f, "peer")) -> script]
  PROVE  peers \in Seq(Peer)
<1>1. Params[f] \in Seq(Kinds)
  BY RowsTyped
<1>2. IsFiniteSet(DOMAIN Params[f])
  BY <1>1, LenProperties, FS_Interval
<1>3. IsFiniteSet(Expects(f, "peer"))
  BY <1>2, FS_Subset DEF Expects
<1>4. Cardinality(Expects(f, "peer")) \in Nat
  BY <1>3, FS_CardinalityType
<1>5. peers \in Seq(script)
  BY <1>4, SeqDef
<1>6. QED
  BY <1>5, SeqMonotonic DEF TypeOK

-----------------------------------------------------------------------------
(* Where an object is, counted. *)
LEMMA AtFinite ==
  ASSUME NEW S, NEW s \in Seq(S), NEW o
  PROVE  /\ At(o, s) \subseteq 1 .. Len(s) /\ IsFiniteSet(At(o, s))
         /\ Cardinality(At(o, s)) \in Nat /\ Times(o, s) = Cardinality(At(o, s))
<1>1. Len(s) \in Nat /\ DOMAIN s = 1 .. Len(s)
  BY LenProperties
<1>2. At(o, s) \subseteq 1 .. Len(s)
  BY <1>1 DEF At
<1>3. IsFiniteSet(1 .. Len(s))
  BY <1>1, FS_Interval
<1>4. IsFiniteSet(At(o, s))
  BY <1>2, <1>3, FS_Subset
<1>5. QED
  BY <1>2, <1>4, FS_CardinalityType DEF Times, At

(* Of two sequences together, at least as many as of both.                 *)
LEMMA AtConcat ==
  ASSUME NEW S, NEW s \in Seq(S), NEW t \in Seq(S), NEW o
  PROVE  Times(o, s \o t) >= Times(o, s) + Times(o, t)
<1> DEFINE Shifted == {Len(s) + k : k \in At(o, t)}
           f == [k \in At(o, t) |-> Len(s) + k]
<1>1. /\ s \o t \in Seq(S) /\ Len(s) \in Nat /\ Len(t) \in Nat
      /\ Len(s \o t) = Len(s) + Len(t)
      /\ DOMAIN s = 1 .. Len(s) /\ DOMAIN t = 1 .. Len(t)
      /\ DOMAIN (s \o t) = 1 .. Len(s) + Len(t)
  BY ConcatProperties, LenProperties
<1>2. /\ \A k \in 1 .. Len(s) : (s \o t)[k] = s[k]
      /\ \A k \in 1 .. Len(t) : (s \o t)[Len(s) + k] = t[k]
  BY ConcatProperties, <1>1
<1>3. At(o, s) \subseteq 1 .. Len(s) /\ At(o, t) \subseteq 1 .. Len(t)
  BY AtFinite
<1>4. At(o, s) \cup Shifted \subseteq At(o, s \o t)
  <2>1. At(o, s) \subseteq At(o, s \o t)
    BY <1>1, <1>2 DEF At
  <2>2. ASSUME NEW k \in At(o, t) PROVE Len(s) + k \in At(o, s \o t)
    <3>1. k \in 1 .. Len(t) /\ t[k] = o
      BY <1>3 DEF At
    <3>2. Len(s) + k \in 1 .. Len(s) + Len(t)
      BY <1>1, <3>1
    <3>3. QED
      BY <1>1, <1>2, <3>1, <3>2 DEF At
  <2>3. QED
    BY <2>1, <2>2
<1>5. At(o, s) \cap Shifted = {}
  BY <1>1, <1>3
<1>6. IsFiniteSet(At(o, s \o t)) /\ IsFiniteSet(At(o, s)) /\ IsFiniteSet(At(o, t))
  BY <1>1, AtFinite
<1>7. IsFiniteSet(Shifted)
  BY <1>4, <1>6, FS_Subset
<1>8. Cardinality(At(o, t)) <= Cardinality(Shifted)
  <2>1. f \in [At(o, t) -> Shifted]
    OBVIOUS
  <2>2. \A a, b \in At(o, t) : f[a] = f[b] => a = b
    BY <1>1, <1>3
  <2>3. f \in Injection(At(o, t), Shifted)
    BY <2>1, <2>2 DEF Injection, IsInjective
  <2>4. QED
    BY <1>7, <2>3, FS_Injection
<1>9. /\ Cardinality(At(o, s) \cup Shifted) = Cardinality(At(o, s)) + Cardinality(Shifted)
      /\ IsFiniteSet(At(o, s) \cup Shifted)
  <2>1. /\ IsFiniteSet(At(o, s) \cup Shifted)
        /\ Cardinality(At(o, s) \cup Shifted) = Cardinality(At(o, s))
             + Cardinality(Shifted) - Cardinality(At(o, s) \cap Shifted)
    BY <1>6, <1>7, FS_Union
  <2>2. Cardinality(At(o, s)) \in Nat /\ Cardinality(Shifted) \in Nat
    BY <1>6, <1>7, FS_CardinalityType
  <2>3. Cardinality(At(o, s) \cap Shifted) = 0
    BY <1>5, FS_EmptySet, Zenon
  <2>4. QED
    BY <2>1, <2>2, <2>3
<1>10. Cardinality(At(o, s) \cup Shifted) <= Cardinality(At(o, s \o t))
  BY <1>4, <1>6, FS_Subset
<1>11. /\ Times(o, s) = Cardinality(At(o, s)) /\ Times(o, t) = Cardinality(At(o, t))
       /\ Times(o, s \o t) = Cardinality(At(o, s \o t))
       /\ Cardinality(At(o, s)) \in Nat /\ Cardinality(At(o, t)) \in Nat
       /\ Cardinality(At(o, s \o t)) \in Nat
  BY <1>1, AtFinite
<1>12. Cardinality(Shifted) \in Nat
  BY <1>7, FS_CardinalityType
<1>13. QED
  BY <1>8, <1>9, <1>10, <1>11, <1>12

LEMMA RowFinite ==
  ASSUME NEW n, NEW T, IsFiniteSet(T)
  PROVE  IsFiniteSet({n} \X T) /\ Cardinality({n} \X T) = Cardinality(T)
<1>1. IsFiniteSet({n}) /\ Cardinality({n}) = 1
  BY FS_Singleton
<1>2. /\ IsFiniteSet({n} \X T)
      /\ Cardinality({n} \X T) = Cardinality({n}) * Cardinality(T)
  BY <1>1, FS_Product
<1>3. Cardinality(T) \in Nat
  BY FS_CardinalityType
<1>4. QED
  BY <1>1, <1>2, <1>3

(* A command at the end of the queue adds the places in it ... *)
LEMMA AmongPush ==
  ASSUME NEW q \in Seq(Command), NEW n \in 0 .. Len(q), NEW c \in Command, NEW o,
         IsFiniteSet(Among(o, q, n))
  PROVE  /\ IsFiniteSet(Among(o, Append(q, c), n))
         /\ Cardinality(Among(o, q, n)) \in Nat /\ Times(o, Args(c)) \in Nat
         /\ Cardinality(Among(o, Append(q, c), n))
              = Cardinality(Among(o, q, n)) + Times(o, Args(c))
<1> DEFINE new == {Len(q) + 1} \X At(o, Args(c))
<1>1. /\ Len(q) \in Nat /\ Len(Append(q, c)) = Len(q) + 1
      /\ \A i \in 1 .. Len(q) : Append(q, c)[i] = q[i]
      /\ Append(q, c)[Len(q) + 1] = c
  BY AppendProperties, LenProperties
<1>2. Args(c) \in Seq(Peer)
  BY ConcatProperties DEF Command, Args
<1>3. /\ At(o, Args(c)) \subseteq Nat /\ IsFiniteSet(At(o, Args(c)))
      /\ Times(o, Args(c)) = Cardinality(At(o, Args(c)))
      /\ Times(o, Args(c)) \in Nat
  BY <1>2, AtFinite
<1>4. Among(o, Append(q, c), n) = Among(o, q, n) \cup new
  <2>1. ASSUME NEW i \in n + 1 .. Len(q) + 1, NEW k \in Nat
        PROVE  <<i, k>> \in Among(o, Append(q, c), n) <=> <<i, k>> \in Among(o, q, n) \cup new
    <3>1. CASE i = Len(q) + 1
      <4>1. <<i, k>> \in Among(o, Append(q, c), n) <=> k \in At(o, Args(c))
        BY <1>1, <3>1 DEF Among
      <4>2. <<i, k>> \notin Among(o, q, n)
        BY <1>1, <3>1 DEF Among
      <4>3. QED
        BY <4>1, <4>2, <3>1
    <3>2. CASE i \in n + 1 .. Len(q)
      <4>1. Append(q, c)[i] = q[i]
        BY <1>1, <3>2
      <4>2. <<i, k>> \in Among(o, Append(q, c), n) <=> k \in At(o, Args(q[i]))
        BY <1>1, <3>2, <4>1 DEF Among
      <4>3. <<i, k>> \in Among(o, q, n) <=> k \in At(o, Args(q[i]))
        BY <3>2 DEF Among
      <4>4. <<i, k>> \notin new
        BY <1>1, <3>2
      <4>5. QED
        BY <4>2, <4>3, <4>4
    <3>3. QED
      BY <1>1, <3>1, <3>2
  <2>2. Among(o, Append(q, c), n) \subseteq (n + 1 .. Len(q) + 1) \X Nat
    BY <1>1 DEF Among
  <2>3. Among(o, q, n) \cup new \subseteq (n + 1 .. Len(q) + 1) \X Nat
    <3>1. Among(o, q, n) \subseteq (n + 1 .. Len(q) + 1) \X Nat
      BY <1>1 DEF Among
    <3>2. new \subseteq (n + 1 .. Len(q) + 1) \X Nat
      BY <1>1, <1>3
    <3>3. QED
      BY <3>1, <3>2
  <2>4. QED
    BY <2>1, <2>2, <2>3
<1>5. Among(o, q, n) \cap new = {}
  BY <1>1 DEF Among
<1>6. IsFiniteSet(new) /\ Cardinality(new) = Times(o, Args(c))
  BY <1>3, RowFinite
<1>7. /\ IsFiniteSet(Among(o, q, n) \cup new)
      /\ Cardinality(Among(o, q, n) \cup new)
           = Cardinality(Among(o, q, n)) + Cardinality(new) - Cardinality(Among(o, q, n) \cap new)
  BY <1>6, FS_Union
<1>8. Cardinality(Among(o, q, n) \cap new) = 0
  BY <1>5, FS_EmptySet, Zenon
<1>9. Cardinality(Among(o, q, n)) \in Nat
  BY FS_CardinalityType
<1>10. QED
  BY <1>3, <1>4, <1>6, <1>7, <1>8, <1>9

(* ... and one that is done takes those in it away.                        *)
LEMMA AmongPop ==
  ASSUME NEW q \in Seq(Command), NEW n \in Nat, n < Len(q), NEW o,
         IsFiniteSet(Among(o, q, n))
  PROVE  /\ IsFiniteSet(Among(o, q, n + 1))
         /\ Cardinality(Among(o, q, n + 1)) \in Nat /\ Times(o, Args(q[n + 1])) \in Nat
         /\ Cardinality(Among(o, q, n))
              = Cardinality(Among(o, q, n + 1)) + Times(o, Args(q[n + 1]))
<1> DEFINE old == {n + 1} \X At(o, Args(q[n + 1]))
<1>1. Len(q) \in Nat /\ n + 1 \in 1 .. Len(q) /\ q[n + 1] \in Command
  BY ElementOfSeq, LenProperties
<1>2. Args(q[n + 1]) \in Seq(Peer)
  BY <1>1, ConcatProperties DEF Command, Args
<1>3. /\ At(o, Args(q[n + 1])) \subseteq Nat /\ IsFiniteSet(At(o, Args(q[n + 1])))
      /\ Times(o, Args(q[n + 1])) = Cardinality(At(o, Args(q[n + 1])))
      /\ Times(o, Args(q[n + 1])) \in Nat
  BY <1>2, AtFinite
<1>4. Among(o, q, n) = Among(o, q, n + 1) \cup old
  <2>1. ASSUME NEW i \in n + 1 .. Len(q), NEW k \in Nat
        PROVE  <<i, k>> \in Among(o, q, n) <=> <<i, k>> \in Among(o, q, n + 1) \cup old
    <3>1. <<i, k>> \in Among(o, q, n) <=> k \in At(o, Args(q[i]))
      BY DEF Among
    <3>2. CASE i = n + 1
      <4>1. <<i, k>> \notin Among(o, q, n + 1)
        BY <3>2 DEF Among
      <4>2. <<i, k>> \in old <=> k \in At(o, Args(q[i]))
        BY <3>2
      <4>3. QED
        BY <3>1, <4>1, <4>2
    <3>3. CASE i \in n + 2 .. Len(q)
      <4>1. i \in (n + 1) + 1 .. Len(q)
        BY <3>3
      <4>2. <<i, k>> \in Among(o, q, n + 1) <=> k \in At(o, Args(q[i]))
        BY <4>1 DEF Among
      <4>3. <<i, k>> \notin old
        BY <3>3
      <4>4. QED
        BY <3>1, <4>2, <4>3
    <3>4. QED
      BY <1>1, <3>2, <3>3
  <2>2. Among(o, q, n) \subseteq (n + 1 .. Len(q)) \X Nat
    BY DEF Among
  <2>3. Among(o, q, n + 1) \cup old \subseteq (n + 1 .. Len(q)) \X Nat
    <3>1. Among(o, q, n + 1) \subseteq (n + 1 .. Len(q)) \X Nat
      BY DEF Among
    <3>2. old \subseteq (n + 1 .. Len(q)) \X Nat
      BY <1>1, <1>3
    <3>3. QED
      BY <3>1, <3>2
  <2>4. QED
    BY <2>1, <2>2, <2>3
<1>5. Among(o, q, n + 1) \cap old = {}
  BY <1>1 DEF Among
<1>6. IsFiniteSet(old) /\ Cardinality(old) = Times(o, Args(q[n + 1]))
  BY <1>3, RowFinite
<1>7. IsFiniteSet(Among(o, q, n + 1))
  BY <1>4, FS_Subset
<1>8. Cardinality(Among(o, q, n + 1) \cup old)
        = Cardinality(Among(o, q, n + 1)) + Cardinality(old)
            - Cardinality(Among(o, q, n + 1) \cap old)
  BY <1>6, <1>7, FS_Union
<1>9. Cardinality(Among(o, q, n + 1) \cap old) = 0
  BY <1>5, FS_EmptySet, Zenon
<1>10. Cardinality(Among(o, q, n + 1)) \in Nat
  BY <1>7, FS_CardinalityType
<1>11. QED
  BY <1>3, <1>4, <1>6, <1>7, <1>8, <1>9, <1>10

(* An object has no place exactly when no command has it. *)
LEMMA AmongNone ==
  ASSUME NEW q \in Seq(Command), NEW n \in Nat, NEW o, IsFiniteSet(Among(o, q, n))
  PROVE  Cardinality(Among(o, q, n)) = 0
           <=> \A i \in n + 1 .. Len(q) : Times(o, Args(q[i])) = 0
<1>1. Cardinality(Among(o, q, n)) = 0 <=> Among(o, q, n) = {}
  BY FS_EmptySet
<1>2. ASSUME NEW i \in n + 1 .. Len(q)
      PROVE  Times(o, Args(q[i])) = 0 <=> \A k \in Nat : <<i, k>> \notin Among(o, q, n)
  <2>1. q[i] \in Command
    BY ElementOfSeq, LenProperties
  <2>2. Args(q[i]) \in Seq(Peer)
    BY <2>1, ConcatProperties DEF Command, Args
  <2>3. /\ At(o, Args(q[i])) \subseteq Nat /\ IsFiniteSet(At(o, Args(q[i])))
        /\ Times(o, Args(q[i])) = Cardinality(At(o, Args(q[i])))
    BY <2>2, AtFinite
  <2>4. Times(o, Args(q[i])) = 0 <=> At(o, Args(q[i])) = {}
    BY <2>3, FS_EmptySet
  <2>5. \A k \in Nat : <<i, k>> \in Among(o, q, n) <=> k \in At(o, Args(q[i]))
    BY DEF Among
  <2>6. QED
    BY <2>3, <2>4, <2>5
<1>3. Among(o, q, n) \subseteq (n + 1 .. Len(q)) \X Nat
  BY DEF Among
<1>4. QED
  BY <1>1, <1>2, <1>3

-----------------------------------------------------------------------------
(* Who has an object. *)
LEMMA CommandTyped ==
  ASSUME TypeOK
  PROVE  /\ Len(py_ptr) \in Nat /\ p \in 0 .. Len(py_ptr) /\ Slots \in Nat
         /\ \A i \in 1 .. Len(py_ptr) :
              /\ py_ptr[i] \in Command /\ py_ptr[i].cb \in Callable \cup {None}
              /\ Args(py_ptr[i]) \in Seq(Peer)
         /\ Len(due) \in Nat /\ \A i \in 1 .. Len(due) : due[i] \in 1 .. Len(py_ptr)
<1>1. py_ptr \in Seq(Command) /\ due \in Seq(1 .. Len(py_ptr))
  BY DEF TypeOK
<1>2. \A c \in Command : c.cb \in Callable \cup {None} /\ Args(c) \in Seq(Peer)
  BY ConcatProperties DEF Command, Args
<1>3. QED
  BY <1>1, <1>2, ElementOfSeq, LenProperties, PyQueueAssumption DEF TypeOK, PyQueueAssumption

PeersHeld == \A o \in Peer : Held(o) <=> (o \in script \/ Cardinality(Places(o)) # 0)

CallablesHeld ==
  \A c \in Callable : Held(c) <=> (c \in Named \/ c = on_loop \/ c = running \/ Waiting(c))

LEMMA WhoHas == TypeOK /\ PlacesFinite => PeersHeld /\ CallablesHeld
<1> SUFFICES ASSUME TypeOK, PlacesFinite PROVE PeersHeld /\ CallablesHeld
  OBVIOUS
<1> USE PyQueueAssumption DEF PyQueueAssumption, Obj
<1>1. p \in Nat /\ p + 1 .. Len(py_ptr) \subseteq 1 .. Len(py_ptr)
  BY CommandTyped
<1>2. \A i \in p + 1 .. Len(py_ptr) : \A o : Times(o, Args(py_ptr[i])) \in Nat
  BY <1>1, CommandTyped, AtFinite
<1>3. ASSUME NEW o \in Peer
      PROVE  Held(o) <=> (o \in script \/ Cardinality(Places(o)) # 0)
  <2>1. o \notin Named \cup {running, on_loop} /\ \A r \in asked : r.extra # o
    BY DEF TypeOK, Request
  <2>2. \A i \in p + 1 .. Len(py_ptr) : o # py_ptr[i].cb
    BY <1>1, CommandTyped
  <2>3. Held(o) <=> (o \in script \/ \E i \in p + 1 .. Len(py_ptr) : Times(o, Args(py_ptr[i])) > 0)
    BY <2>1, <2>2 DEF Held, Args
  <2>4. Cardinality(Places(o)) = 0
          <=> \A i \in p + 1 .. Len(py_ptr) : Times(o, Args(py_ptr[i])) = 0
    BY <1>1, AmongNone DEF Places, PlacesFinite, TypeOK
  <2>5. QED
    BY <1>2, <2>3, <2>4
<1>4. ASSUME NEW c \in Callable
      PROVE  Held(c) <=> (c \in Named \/ c = on_loop \/ c = running \/ Waiting(c))
  <2>1. ASSUME NEW i \in p + 1 .. Len(py_ptr) PROVE Times(c, Args(py_ptr[i])) = 0
    <3>1. Args(py_ptr[i]) \in Seq(Peer)
      BY <1>1, CommandTyped
    <3>2. \A k \in DOMAIN Args(py_ptr[i]) : Args(py_ptr[i])[k] # c
      BY <3>1, ElementOfSeq, LenProperties
    <3>3. At(c, Args(py_ptr[i])) = {}
      BY <3>2 DEF At
    <3>4. QED
      BY <3>1, <3>3, AtFinite, FS_EmptySet
  <2>2. c \notin script
    BY DEF TypeOK
  <2>3. Held(c) <=> \/ c \in Named \cup {running, on_loop}
                    \/ \E r \in asked : r.extra = c
                    \/ \E i \in p + 1 .. Len(py_ptr) : c = py_ptr[i].cb
    BY <2>1, <2>2 DEF Held, Args
  <2>4. QED
    BY <2>3 DEF Waiting
<1>5. QED
  BY <1>3, <1>4 DEF PeersHeld, CallablesHeld

LEMMA ReleaseTyped ==
  ASSUME NEW n \in [Obj -> Int], fault = "no", Release(n)
  PROVE  count' \in [Obj -> Int] /\ fault' \in {"no", "peer", "callable"}
BY DEF Release

(* A release that leaves the counters covering those who have the objects  *)
(* frees no callable that is in use, and a peer only if it is overdrawn.   *)
LEMMA ReleaseKeeps ==
  ASSUME TypeOK', PlacesFinite', NEW n \in [Obj -> Int], fault = "no", Release(n),
         PeersCovered(n)', CallablesCovered(n)'
  PROVE  Counted' /\ fault' \in {"no", "peer"}
<1> USE PyQueueAssumption DEF PyQueueAssumption, Obj
<1>1. PeersHeld' /\ CallablesHeld'
  BY WhoHas, PTL
<1>2. \A o \in Obj : count'[o] = IF Held(o)' \/ n[o] < 0 THEN n[o] ELSE 0
  BY DEF Release
<1>3. ASSUME NEW o \in Peer, o \notin overdrawn'
      PROVE  count'[o] >= If(o \in script') + Cardinality(Places(o)')
  <2>1. IsFiniteSet(Places(o)')
    BY DEF PlacesFinite
  <2>2. Cardinality(Places(o)') \in Nat
    BY <2>1, FS_CardinalityType
  <2>3. n[o] \in Int /\ n[o] >= If(o \in script') + Cardinality(Places(o)')
    BY <1>3 DEF PeersCovered
  <2>4. CASE Held(o)'
    BY <1>2, <2>3, <2>4
  <2>5. CASE ~Held(o)'
    <3>1. o \notin script' /\ Cardinality(Places(o)') = 0
      BY <1>1, <2>5 DEF PeersHeld
    <3>2. QED
      BY <1>2, <2>3, <2>5, <3>1 DEF If
  <2>6. QED
    BY <2>4, <2>5
<1>4. ASSUME NEW c \in Callable
      PROVE  /\ count'[c] >= One(c, on_loop') + One(c, running') + If(c \in Named)
                               + If(Waiting(c)')
             /\ ~Dead(n[c], Held(c)')
  <2>1. n[c] \in Int /\ n[c] >= One(c, on_loop') + One(c, running') + If(c \in Named)
                                 + If(Waiting(c)')
    BY DEF CallablesCovered
  <2>2. CASE Held(c)'
    <3>1. c \in Named \/ c = on_loop' \/ c = running' \/ Waiting(c)'
      BY <1>1, <2>2 DEF CallablesHeld
    <3>2. n[c] >= 1
      BY <2>1, <3>1 DEF One, If
    <3>3. QED
      BY <1>2, <2>1, <2>2, <3>2 DEF Dead
  <2>3. CASE ~Held(c)'
    <3>1. /\ c \notin Named /\ c # on_loop' /\ c # running' /\ ~Waiting(c)'
      BY <1>1, <2>3 DEF CallablesHeld
    <3>2. One(c, on_loop') = 0 /\ One(c, running') = 0 /\ If(c \in Named) = 0
          /\ If(Waiting(c)') = 0
      BY <3>1 DEF One, If
    <3>3. n[c] >= 0 /\ count'[c] = 0
      BY <1>2, <2>1, <2>3, <3>2
    <3>4. QED
      BY <2>1, <2>3, <3>2, <3>3 DEF Dead
  <2>4. QED
    BY <2>2, <2>3
<1>5. fault' \in {"no", "peer"}
  BY <1>4 DEF Release
<1>6. PeersCovered(count)'
  BY <1>3 DEF PeersCovered
<1>7. CallablesCovered(count)'
  BY <1>4 DEF CallablesCovered
<1>8. QED
  BY <1>5, <1>6, <1>7 DEF Counted

-----------------------------------------------------------------------------
(* Steps of the script that leave the queue alone. *)
LEMMA QueueSame ==
  ASSUME Inv, UNCHANGED <<py_ptr, p, asked, due>>, pc = "cb" <=> pc' = "cb"
  PROVE  /\ \A o : Places(o)' = Places(o)
         /\ \A c : Waiting(c)' <=> Waiting(c)
         /\ PlacesFinite' /\ WaitersApart' /\ InOrder'
         /\ pc' = "cb" => p' < Len(py_ptr') /\ Sound(Cmd)'
         /\ pc' = "cb" /\ fault = "no" => Call(Cmd)' \in asked'
<1>1. /\ \A o : Places(o)' = Places(o)
      /\ \A c : Waiting(c)' <=> Waiting(c)
  BY DEF Places, Waiting
<1>2. PlacesFinite'
  BY <1>1 DEF Inv, Counted, PlacesFinite
<1>3. WaitersApart' /\ InOrder'
  BY DEF Inv, WaitersApart, InOrder
<1>4. /\ pc' = "cb" => p' < Len(py_ptr') /\ Sound(Cmd)'
      /\ pc' = "cb" /\ fault = "no" => Call(Cmd)' \in asked'
  BY DEF Inv, Phases, Cmd
<1>5. QED
  BY <1>1, <1>2, <1>3, <1>4

LEMMA GetPeerInv ==
  ASSUME Inv, NEW o \in Peer, NEW kept \in {0, 1}, GetPeer(o, kept)
  PROVE  Inv'
<1> USE PyQueueAssumption DEF PyQueueAssumption, Obj, GetPeer
<1>1. TypeOK /\ PlacesFinite /\ Phases
  BY DEF Inv, Counted
<1>2. TypeOK'
  BY <1>1 DEF TypeOK
<1>3. /\ \A x : Places(x)' = Places(x)
      /\ \A c : Waiting(c)' <=> Waiting(c)
      /\ PlacesFinite' /\ WaitersApart' /\ InOrder'
  BY QueueSame
<1>4. o \notin script /\ Cardinality(Places(o)) = 0
  BY <1>1, WhoHas DEF PeersHeld
<1>5. PeersCovered(count)'
  <2>1. ASSUME NEW x \in Peer, x \notin overdrawn'
        PROVE  count'[x] >= If(x \in script') + Cardinality(Places(x)')
    <3>1. CASE x = o
      <4>1. count'[x] = 1 + kept
        BY <1>1, <3>1 DEF TypeOK
      <4>2. QED
        BY <1>3, <1>4, <3>1, <4>1 DEF If
    <3>2. CASE x # o
      <4>1. count'[x] = count[x] /\ x \notin overdrawn /\ (x \in script' <=> x \in script)
        BY <1>1, <2>1, <3>2 DEF TypeOK
      <4>2. QED
        BY <1>3, <4>1 DEF Inv, Counted, PeersCovered, If
    <3>3. QED
      BY <3>1, <3>2
  <2>2. QED
    BY <2>1 DEF PeersCovered
<1>6. CallablesCovered(count)'
  <2>1. ASSUME NEW c \in Callable PROVE count'[c] = count[c]
    BY <1>1 DEF TypeOK
  <2>2. QED
    BY <1>3, <2>1 DEF Inv, Counted, CallablesCovered, If
<1>7. Phases' /\ CallablesKept'
  BY <1>1 DEF Phases, Inv, CallablesKept, Cmd, Runs
<1>8. QED
  BY <1>2, <1>3, <1>5, <1>6, <1>7 DEF Inv, Counted

LEMMA ForgetInv ==
  ASSUME Inv, NEW o \in Peer, Forget(o)
  PROVE  Inv'
<1> USE PyQueueAssumption DEF PyQueueAssumption, Obj
<1>1. TypeOK /\ PlacesFinite /\ Phases /\ fault = "no"
  BY DEF Inv, Counted, Forget, Runs
<1>2. PICK n : n = [count EXCEPT ![o] = @ - 1]
  OBVIOUS
<1>3. /\ o \in script /\ script' = script \ {o} /\ Release(n)
      /\ UNCHANGED <<py_ptr, p, pc, running, on_loop, overdrawn, asked, due>>
  BY <1>2 DEF Forget
<1>4. n \in [Obj -> Int] /\ n[o] = count[o] - 1 /\ \A x \in Obj \ {o} : n[x] = count[x]
  BY <1>1, <1>2 DEF TypeOK
<1>5. count' \in [Obj -> Int] /\ fault' \in {"no", "peer", "callable"}
  BY <1>1, <1>3, <1>4, ReleaseTyped
<1>6. TypeOK'
  BY <1>1, <1>3, <1>5 DEF TypeOK
<1>7. /\ \A x : Places(x)' = Places(x)
      /\ \A c : Waiting(c)' <=> Waiting(c)
      /\ PlacesFinite' /\ WaitersApart' /\ InOrder'
  BY <1>3, QueueSame
<1>8. PeersCovered(n)'
  <2>1. ASSUME NEW x \in Peer, x \notin overdrawn
        PROVE  n[x] >= If(x \in script') + Cardinality(Places(x)')
    <3>1. count[x] >= If(x \in script) + Cardinality(Places(x)) /\ count[x] \in Int
      BY <1>1, <2>1 DEF Inv, Counted, PeersCovered, TypeOK
    <3>2. Cardinality(Places(x)) \in Nat
      BY <1>1, FS_CardinalityType DEF PlacesFinite
    <3>3. CASE x = o
      BY <1>3, <1>4, <1>7, <3>1, <3>2, <3>3 DEF If
    <3>4. CASE x # o
      <4>1. x \in script' <=> x \in script
        BY <1>3, <3>4
      <4>2. QED
        BY <1>4, <1>7, <3>1, <3>4, <4>1 DEF If
    <3>5. QED
      BY <3>3, <3>4
  <2>2. QED
    BY <1>3, <2>1 DEF PeersCovered
<1>9. CallablesCovered(n)'
  <2>1. ASSUME NEW c \in Callable PROVE n[c] = count[c]
    BY <1>4
  <2>2. QED
    BY <1>3, <1>7, <2>1 DEF Inv, Counted, CallablesCovered, If
<1>10. Counted' /\ fault' \in {"no", "peer"}
  BY <1>1, <1>3, <1>4, <1>6, <1>7, <1>8, <1>9, ReleaseKeeps
<1>11. Phases' /\ CallablesKept'
  BY <1>1, <1>3, <1>10 DEF Phases, CallablesKept, Cmd
<1>12. QED
  BY <1>6, <1>7, <1>10, <1>11 DEF Inv

LEMMA OnLoopInv ==
  ASSUME Inv, NEW c \in Callable, set_py_on_loop(c)
  PROVE  Inv'
<1> USE PyQueueAssumption DEF PyQueueAssumption, Obj
<1>1. TypeOK /\ PlacesFinite /\ Phases /\ fault = "no"
  BY DEF Inv, Counted, set_py_on_loop, Runs
<1>2. PICK n : n = [o \in Obj |-> IF o = c THEN References(c) + 1
                                  ELSE count[o] - One(o, on_loop)]
  OBVIOUS
<1>3. /\ c # on_loop /\ on_loop' = c /\ Release(n)
      /\ UNCHANGED <<py_ptr, p, pc, running, script, overdrawn, asked, due>>
  BY <1>2 DEF set_py_on_loop
<1>4. /\ n \in [Obj -> Int] /\ n[c] = References(c) + 1
      /\ \A x \in Obj \ {c} : n[x] = count[x] - One(x, on_loop)
  BY <1>1, <1>2 DEF TypeOK, References, One
<1>5. count' \in [Obj -> Int] /\ fault' \in {"no", "peer", "callable"}
  BY <1>1, <1>3, <1>4, ReleaseTyped
<1>6. TypeOK'
  BY <1>1, <1>3, <1>5 DEF TypeOK
<1>7. /\ \A x : Places(x)' = Places(x)
      /\ \A x : Waiting(x)' <=> Waiting(x)
      /\ PlacesFinite' /\ WaitersApart' /\ InOrder'
  BY <1>3, QueueSame
<1>8. PeersCovered(n)'
  <2>1. ASSUME NEW x \in Peer PROVE n[x] = count[x]
    <3>1. x # c /\ x # on_loop /\ count[x] \in Int
      BY <1>1 DEF TypeOK
    <3>2. QED
      BY <1>4, <3>1 DEF One
  <2>2. QED
    BY <1>3, <1>7, <2>1 DEF Inv, Counted, PeersCovered, If
<1>9. CallablesCovered(n)'
  <2>1. ASSUME NEW x \in Callable
        PROVE  n[x] >= One(x, c) + One(x, running) + If(x \in Named) + If(Waiting(x))
    <3>1. /\ count[x] \in Int
          /\ count[x] >= One(x, on_loop) + One(x, running) + If(x \in Named) + If(Waiting(x))
      BY <1>1 DEF Inv, Counted, CallablesCovered, TypeOK
    <3>2. CASE x # c
      BY <1>4, <3>1, <3>2 DEF One, If
    <3>3. CASE x = c /\ Held(c)
      BY <1>3, <1>4, <3>1, <3>3 DEF One, If, References
    <3>4. CASE x = c /\ ~Held(c)
      <4>1. x \notin Named /\ x # running /\ ~Waiting(x)
        BY <1>1, <3>4, WhoHas DEF CallablesHeld
      <4>2. QED
        BY <1>4, <3>4, <4>1 DEF One, If, References
    <3>5. QED
      BY <3>2, <3>3, <3>4
  <2>2. QED
    BY <1>3, <1>7, <2>1 DEF CallablesCovered, If
<1>10. Counted' /\ fault' \in {"no", "peer"}
  BY <1>1, <1>3, <1>4, <1>6, <1>7, <1>8, <1>9, ReleaseKeeps
<1>11. Phases' /\ CallablesKept'
  BY <1>1, <1>3, <1>10 DEF Phases, CallablesKept, Cmd
<1>12. QED
  BY <1>6, <1>7, <1>10, <1>11 DEF Inv

LEMMA ScriptReturnsInv ==
  ASSUME Inv, ScriptReturns
  PROVE  Inv'
<1> USE PyQueueAssumption DEF PyQueueAssumption, Obj
<1>1. TypeOK /\ PlacesFinite /\ Phases /\ fault = "no" /\ pc = "script"
  BY DEF Inv, Counted, ScriptReturns
<1>2. PICK n : n = [o \in Obj |-> count[o] - One(o, running)]
  OBVIOUS
<1>3. /\ pc' = "idle" /\ running' = None /\ Release(n)
      /\ UNCHANGED <<py_ptr, p, on_loop, script, overdrawn, asked, due>>
  BY <1>2 DEF ScriptReturns
<1>4. n \in [Obj -> Int] /\ \A o \in Obj : n[o] = count[o] - One(o, running)
  BY <1>1, <1>2 DEF TypeOK, One
<1>5. count' \in [Obj -> Int] /\ fault' \in {"no", "peer", "callable"}
  BY <1>1, <1>3, <1>4, ReleaseTyped
<1>6. TypeOK'
  BY <1>1, <1>3, <1>5 DEF TypeOK
<1>7. /\ \A x : Places(x)' = Places(x)
      /\ \A x : Waiting(x)' <=> Waiting(x)
      /\ PlacesFinite' /\ WaitersApart' /\ InOrder'
  BY <1>1, <1>3, QueueSame
<1>8. PeersCovered(n)'
  <2>1. ASSUME NEW x \in Peer PROVE n[x] = count[x]
    BY <1>1, <1>4 DEF TypeOK, One
  <2>2. QED
    BY <1>3, <1>7, <2>1 DEF Inv, Counted, PeersCovered, If
<1>9. CallablesCovered(n)'
  <2>1. ASSUME NEW x \in Callable
        PROVE  n[x] >= One(x, on_loop) + One(x, None) + If(x \in Named) + If(Waiting(x))
    <3>1. /\ count[x] \in Int
          /\ count[x] >= One(x, on_loop) + One(x, running) + If(x \in Named) + If(Waiting(x))
      BY <1>1 DEF Inv, Counted, CallablesCovered, TypeOK
    <3>2. One(x, None) = 0
      BY DEF One
    <3>3. QED
      BY <1>4, <3>1, <3>2 DEF One, If
  <2>2. QED
    BY <1>3, <1>7, <2>1 DEF CallablesCovered, If
<1>10. Counted' /\ fault' \in {"no", "peer"}
  BY <1>1, <1>3, <1>4, <1>6, <1>7, <1>8, <1>9, ReleaseKeeps
<1>11. Phases' /\ CallablesKept'
  BY <1>1, <1>3, <1>10 DEF Phases, CallablesKept, Cmd
<1>12. QED
  BY <1>6, <1>7, <1>10, <1>11 DEF Inv

(* Steps that only move on, or end the process. *)
LEMMA MoveInv ==
  ASSUME Inv, Update \/ py_do_all \/ py_on_loop_returns \/ do_unknown
  PROVE  Inv'
<1>1. TypeOK /\ PlacesFinite /\ Phases
  BY DEF Inv, Counted
<1>2. /\ UNCHANGED <<py_ptr, p, running, on_loop, script, count, overdrawn, asked, due>>
      /\ fault = "no" /\ fault' \in {"no", "unknown"}
      /\ pc # "cb" /\ (pc' \in {"script", "on_loop", "do"} \/ pc' = pc)
      /\ pc # "script" /\ (pc' = "do" \/ p = 0)
  BY <1>1 DEF TypeOK, Phases, Update, py_do_all, py_on_loop_returns, do_unknown, Doing
<1>3. TypeOK'
  BY <1>1, <1>2 DEF TypeOK
<1>4. /\ \A x : Places(x)' = Places(x)
      /\ \A x : Waiting(x)' <=> Waiting(x)
      /\ PlacesFinite' /\ WaitersApart' /\ InOrder'
  BY <1>2, QueueSame
<1>5. PeersCovered(count)' /\ CallablesCovered(count)'
  BY <1>2, <1>4 DEF Inv, Counted, PeersCovered, CallablesCovered, If
<1>6. Phases' /\ CallablesKept'
  BY <1>1, <1>2 DEF Phases, CallablesKept, Cmd
<1>7. QED
  BY <1>3, <1>4, <1>5, <1>6 DEF Inv, Counted

LEMMA AnswerInv ==
  ASSUME Inv, NEW c \in Callable, py_cb(c)
  PROVE  Inv'
<1> USE PyQueueAssumption DEF PyQueueAssumption, Obj
<1>1. /\ TypeOK /\ PlacesFinite /\ Phases /\ WaitersApart
      /\ fault = "no" /\ pc = "idle" /\ running = None
  BY DEF Inv, Counted, py_cb, Phases
<1>2. /\ pc' = "script" /\ running' = c /\ asked' = {r \in asked : r.extra # c}
      /\ UNCHANGED <<py_ptr, p, on_loop, script, count, overdrawn, due, fault>>
      /\ \E r \in asked : r.extra = c
  BY DEF py_cb
<1>3. TypeOK'
  BY <1>1, <1>2 DEF TypeOK
<1>4. \A x : Places(x)' = Places(x)
  BY <1>2 DEF Places
<1>5. PeersCovered(count)' /\ PlacesFinite'
  BY <1>2, <1>4 DEF Inv, Counted, PeersCovered, PlacesFinite, If
<1>6. CallablesCovered(count)'
  <2>1. ASSUME NEW x \in Callable
        PROVE  count[x] >= One(x, on_loop) + One(x, c) + If(x \in Named) + If(Waiting(x)')
    <3>1. /\ count[x] \in Int
          /\ count[x] >= One(x, on_loop) + One(x, running) + If(x \in Named) + If(Waiting(x))
      BY <1>1 DEF Inv, Counted, CallablesCovered, TypeOK
    <3>2. One(x, running) = 0
      BY <1>1 DEF One
    <3>3. CASE x = c
      <4>1. Waiting(x)
        BY <1>2, <3>3 DEF Waiting
      <4>2. ~Waiting(x)'
        BY <1>1, <1>2, <3>3 DEF Waiting, WaitersApart
      <4>3. QED
        BY <3>1, <3>2, <3>3, <4>1, <4>2 DEF One, If
    <3>4. CASE x # c
      <4>1. Waiting(x)' => Waiting(x)
        BY <1>2 DEF Waiting
      <4>2. QED
        BY <3>1, <3>2, <3>4, <4>1 DEF One, If
    <3>5. QED
      BY <3>3, <3>4
  <2>2. QED
    BY <1>2, <2>1 DEF CallablesCovered, If
<1>7. WaitersApart' /\ InOrder'
  BY <1>1, <1>2 DEF WaitersApart, InOrder, Inv
<1>8. Phases' /\ CallablesKept'
  BY <1>1, <1>2 DEF Phases, CallablesKept
<1>9. QED
  BY <1>3, <1>5, <1>6, <1>7, <1>8 DEF Inv, Counted

(* When the queue was done nothing is in it. *)
LEMMA EndInv ==
  ASSUME Inv, py_do_all_end
  PROVE  Inv'
<1> USE PyQueueAssumption DEF PyQueueAssumption, Obj
<1>1. /\ TypeOK /\ PlacesFinite /\ Phases /\ WaitersApart /\ InOrder
      /\ fault = "no" /\ pc = "do" /\ p = Len(py_ptr) /\ running = None
  BY DEF Inv, Counted, py_do_all_end, Phases
<1>2. /\ pc' = "idle" /\ py_ptr' = <<>> /\ p' = 0
      /\ UNCHANGED <<running, on_loop, script, count, overdrawn, asked, due, fault>>
  BY DEF py_do_all_end
<1>3. Len(py_ptr) \in Nat /\ Len(py_ptr') = 0 /\ p + 1 .. Len(py_ptr) = {}
  BY <1>1, <1>2, CommandTyped
<1>4. due = <<>>
  <2>1. Len(due) \in Nat /\ \A i \in 1 .. Len(due) : due[i] \in 1 .. Len(py_ptr) /\ due[i] > p
    BY <1>1, CommandTyped DEF InOrder
  <2>2. \A i \in 1 .. Len(due) : FALSE
    BY <1>1, <1>3, <2>1
  <2>3. Len(due) = 0
    BY <2>1, <2>2
  <2>4. QED
    BY <1>1, <2>3, EmptySeq DEF TypeOK
<1>5. TypeOK'
  <2>1. py_ptr' \in Seq(Command) /\ 2 * Len(py_ptr') <= Slots /\ p' \in 0 .. Len(py_ptr')
    BY <1>2, <1>3
  <2>2. due' \in Seq(1 .. Len(py_ptr'))
    BY <1>2, <1>4
  <2>3. QED
    BY <1>1, <1>2, <2>1, <2>2 DEF TypeOK
<1>6. \A x : Places(x) = {} /\ Places(x)' = {}
  BY <1>2, <1>3 DEF Places, Among
<1>7. PeersCovered(count)' /\ PlacesFinite'
  BY <1>2, <1>6 DEF Inv, Counted, PeersCovered, PlacesFinite, If
<1>8. CallablesCovered(count)'
  <2>1. \A x : Waiting(x)' <=> Waiting(x)
    BY <1>2, <1>3 DEF Waiting
  <2>2. QED
    BY <1>2, <2>1 DEF Inv, Counted, CallablesCovered, If
<1>9. WaitersApart'
  BY <1>1, <1>2, <1>3 DEF WaitersApart
<1>10. InOrder'
  BY <1>2, <1>3, <1>4 DEF InOrder
<1>11. Phases' /\ CallablesKept'
  BY <1>1, <1>2 DEF Phases, CallablesKept
<1>12. QED
  BY <1>5, <1>7, <1>8, <1>9, <1>10, <1>11 DEF Inv, Counted

-----------------------------------------------------------------------------
(* A call. *)
Pushes(f, peers, list, cb, bad) ==
  /\ Runs /\ (cb = None \/ (Usable(cb) /\ ~Waiting(cb)))
  /\ push_py_func(f, peers, list, cb, bad)

(* Functions and methods push what is meant to be in the queue. *)
LEMMA CallPushes ==
  ASSUME TypeOK, NEW f \in Function, NEW list \in Lists \cup {<<>>},
         NEW cb \in Callable \cup {None}, NEW bad \in 0 .. 4, NEW peers,
         call(f, peers, list, cb, bad)
  PROVE  /\ Pushed(f) \in Functions /\ peers \in Seq(Peer) /\ list \in Seq(Peer)
         /\ bad \in Nat /\ Pushes(Pushed(f), peers, list, cb, bad)
<1>1. f \in Functions
  BY FunctionAssumption DEF FunctionAssumption
<1>2. list \in Seq(Peer)
  BY PyQueueAssumption, EmptySeq DEF PyQueueAssumption
<1>3. peers \in Seq(Peer)
  BY <1>1, PeersTyped DEF call, Passes
<1>4. QED
  BY <1>1, <1>2, <1>3, RowsTyped DEF call, Passes, Pushes

LEMMA MethodPushes ==
  ASSUME TypeOK, NEW m, NEW cb \in Callable \cup {None}, NEW peers, method(m, peers, cb)
  PROVE  \E f \in Functions, c \in Callable \cup {None}, bad \in Nat :
           peers \in Seq(Peer) /\ Pushes(f, peers, <<>>, c, bad)
<1>1. PICK r \in Methods :
        /\ Passes(r[2], peers, <<>>, cb) /\ Runs
        /\ push_py_func(Pushed(r[2]), peers, <<>>, IF r[4] = "lost" THEN None ELSE cb,
                        IF r[4] = "lost" /\ cb = None THEN 3 ELSE 0)
  BY DEF method
<1>2. r[2] \in Functions /\ Pushed(r[2]) \in Functions
  BY RowsTyped
<1>3. peers \in Seq(Peer)
  BY <1>1, <1>2, PeersTyped DEF Passes
<1>4. PICK c : c = IF r[4] = "lost" THEN None ELSE cb
  OBVIOUS
<1>5. PICK bad : bad = IF r[4] = "lost" /\ cb = None THEN 3 ELSE 0
  OBVIOUS
<1>6. c \in Callable \cup {None} /\ bad \in Nat
  BY <1>4, <1>5
<1>7. cb = None \/ (Usable(cb) /\ ~Waiting(cb))
  BY <1>1 DEF Passes
<1>8. Pushes(Pushed(r[2]), peers, <<>>, c, bad)
  <2>1. push_py_func(Pushed(r[2]), peers, <<>>, c, bad)
    BY <1>1, <1>4, <1>5
  <2>2. c = None \/ c = cb
    BY <1>4
  <2>3. QED
    BY <1>1, <1>7, <2>1, <2>2 DEF Pushes
<1>9. QED
  BY <1>2, <1>3, <1>6, <1>8

LEMMA PushInv ==
  ASSUME Inv, NEW f \in Functions, NEW peers \in Seq(Peer), NEW list \in Seq(Peer),
         NEW cb \in Callable \cup {None}, NEW bad \in Nat, Pushes(f, peers, list, cb, bad)
  PROVE  Inv'
<1> USE PyQueueAssumption DEF PyQueueAssumption, Obj
<1>1. /\ TypeOK /\ PlacesFinite /\ Phases /\ WaitersApart /\ InOrder
      /\ fault = "no"
      /\ UNCHANGED <<p, pc, running, on_loop, script, overdrawn, asked>>
  BY DEF Inv, Counted, Pushes, push_py_func, Runs
<1>2. CASE ~Room
  <2>1. fault' = "full" /\ UNCHANGED <<py_ptr, due, count>>
    BY <1>2 DEF Pushes, push_py_func
  <2>2. TypeOK'
    BY <1>1, <2>1 DEF TypeOK
  <2>3. /\ \A x : Places(x)' = Places(x)
        /\ \A x : Waiting(x)' <=> Waiting(x)
        /\ PlacesFinite' /\ WaitersApart' /\ InOrder'
    BY <1>1, <2>1, QueueSame
  <2>4. PeersCovered(count)' /\ CallablesCovered(count)'
    BY <1>1, <2>1, <2>3 DEF Inv, Counted, PeersCovered, CallablesCovered, If
  <2>5. Phases' /\ CallablesKept'
    BY <1>1, <2>1 DEF Phases, CallablesKept, Cmd
  <2>6. QED
    BY <2>2, <2>3, <2>4, <2>5 DEF Inv, Counted
<1>3. CASE Room
  <2>1. PICK c : c = [fun |-> f, peers |-> peers, list |-> list, cb |-> cb, bad |-> bad]
    OBVIOUS
  <2>2. c \in Command /\ c.cb = cb /\ Args(c) = peers \o list
    BY <2>1 DEF Command, Args
  <2>3. /\ py_ptr' = Append(py_ptr, c)
        /\ due' = IF Sound(c) THEN Append(due, Len(py_ptr) + 1) ELSE due
        /\ count' = [o \in Obj |-> IF o = cb THEN References(o) + 1
                                   ELSE count[o] + Times(o, Args(c))]
        /\ fault' = fault
    BY <1>3, <2>1, <2>2 DEF Pushes, push_py_func
  <2>4. /\ Len(py_ptr) \in Nat /\ Len(py_ptr') = Len(py_ptr) + 1
        /\ \A i \in 1 .. Len(py_ptr) : py_ptr'[i] = py_ptr[i]
        /\ py_ptr'[Len(py_ptr) + 1] = c /\ py_ptr' \in Seq(Command)
    BY <1>1, <2>2, <2>3, AppendProperties, CommandTyped DEF TypeOK
  <2>5. p \in 0 .. Len(py_ptr) /\ p' = p
    BY <1>1 DEF TypeOK
  <2>6. \A o : Times(o, Args(c)) \in Nat
    <3>1. Args(c) \in Seq(Peer)
      BY <2>2, ConcatProperties
    <3>2. QED
      BY <3>1, AtFinite
  <2>7. \A o \in Peer : /\ IsFiniteSet(Places(o)')
                        /\ Cardinality(Places(o)) \in Nat
                        /\ Cardinality(Places(o)') = Cardinality(Places(o)) + Times(o, Args(c))
    <3> SUFFICES ASSUME NEW o \in Peer
                 PROVE  /\ IsFiniteSet(Places(o)') /\ Cardinality(Places(o)) \in Nat
                        /\ Cardinality(Places(o)') = Cardinality(Places(o)) + Times(o, Args(c))
      OBVIOUS
    <3>1. Places(o) = Among(o, py_ptr, p)
      BY DEF Places
    <3>2. Places(o)' = Among(o, Append(py_ptr, c), p)
      BY <2>3, <2>5 DEF Places, Among
    <3>3. IsFiniteSet(Among(o, py_ptr, p)) /\ py_ptr \in Seq(Command)
      BY <1>1, <3>1 DEF PlacesFinite, TypeOK
    <3>4. /\ IsFiniteSet(Among(o, Append(py_ptr, c), p))
          /\ Cardinality(Among(o, py_ptr, p)) \in Nat
          /\ Cardinality(Among(o, Append(py_ptr, c), p))
               = Cardinality(Among(o, py_ptr, p)) + Times(o, Args(c))
      <4>1. c \in Command /\ p \in 0 .. Len(py_ptr)
        BY <2>2, <2>5
      <4>2. QED
        BY <3>3, <4>1, AmongPush
    <3>5. QED
      BY <3>1, <3>2, <3>4, Zenon
  <2>8. \A o \in Obj : References(o) \in Int
    BY <1>1 DEF References, TypeOK
  <2>9. count' \in [Obj -> Int]
    <3>1. \A o \in Obj : count[o] + Times(o, Args(c)) \in Int /\ References(o) + 1 \in Int
      BY <1>1, <2>6, <2>8 DEF TypeOK
    <3>2. QED
      BY <2>3, <3>1
  <2>10. due' \in Seq(1 .. Len(py_ptr'))
    <3>1. 1 .. Len(py_ptr) \subseteq 1 .. Len(py_ptr') /\ Len(py_ptr) + 1 \in 1 .. Len(py_ptr')
      BY <2>4
    <3>2. due \in Seq(1 .. Len(py_ptr'))
      BY <1>1, <3>1, SeqMonotonic DEF TypeOK
    <3>3. QED
      BY <2>3, <3>1, <3>2, AppendProperties
  <2>11. TypeOK'
    <3>1. 2 * Len(py_ptr') <= Slots /\ p' \in 0 .. Len(py_ptr')
      BY <1>3, <2>4, <2>5 DEF Room
    <3>2. QED
      BY <1>1, <2>3, <2>4, <2>9, <2>10, <3>1 DEF TypeOK
  <2>12. \A i \in p + 1 .. Len(py_ptr') :
           \/ i \in p + 1 .. Len(py_ptr) /\ py_ptr'[i] = py_ptr[i]
           \/ i = Len(py_ptr) + 1 /\ py_ptr'[i] = c
    <3>1. ASSUME NEW i \in p + 1 .. Len(py_ptr')
          PROVE  i = Len(py_ptr) + 1 \/ (i \in p + 1 .. Len(py_ptr) /\ i \in 1 .. Len(py_ptr))
      BY <2>4, <2>5
    <3>2. QED
      BY <2>4, <3>1
  <2>13. \A i \in p + 1 .. Len(py_ptr) : i \in p + 1 .. Len(py_ptr') /\ py_ptr'[i] = py_ptr[i]
    BY <2>4, <2>5
  <2>14. Len(py_ptr) + 1 \in p + 1 .. Len(py_ptr')
    BY <2>4, <2>5
  <2>15. cb = None \/ (Usable(cb) /\ ~Waiting(cb))
    BY DEF Pushes
  <2>16. PeersCovered(count)' /\ PlacesFinite'
    <3>1. ASSUME NEW o \in Peer, o \notin overdrawn
          PROVE  count'[o] >= If(o \in script) + Cardinality(Places(o)')
      <4>1. count[o] \in Int /\ count[o] >= If(o \in script) + Cardinality(Places(o))
        BY <1>1, <3>1 DEF Inv, Counted, PeersCovered, TypeOK
      <4>2. count'[o] = count[o] + Times(o, Args(c))
        BY <2>3
      <4>3. QED
        BY <2>6, <2>7, <4>1, <4>2 DEF If
    <3>2. QED
      BY <1>1, <2>7, <3>1 DEF PeersCovered, PlacesFinite, If
  <2>17. CallablesCovered(count)'
    <3>1. ASSUME NEW x \in Callable
          PROVE  count'[x] >= One(x, on_loop) + One(x, running) + If(x \in Named)
                                + If(Waiting(x)')
      <4>1. /\ count[x] \in Int
            /\ count[x] >= One(x, on_loop) + One(x, running) + If(x \in Named) + If(Waiting(x))
        BY <1>1 DEF Inv, Counted, CallablesCovered, TypeOK
      <4>2. CASE x # cb
        <5>1. Waiting(x)' => Waiting(x)
          BY <1>1, <2>2, <2>12, <4>2 DEF Waiting
        <5>2. count'[x] = count[x] + Times(x, Args(c)) /\ Times(x, Args(c)) \in Nat
          BY <2>3, <2>6, <4>2
        <5>3. QED
          BY <4>1, <5>1, <5>2 DEF One, If
      <4>3. CASE x = cb /\ Held(x)
        <5>1. count'[x] = count[x] + 1
          BY <2>3, <4>3 DEF References
        <5>2. ~Waiting(x)
          BY <2>15, <4>3
        <5>3. QED
          BY <4>1, <5>1, <5>2 DEF One, If
      <4>4. CASE x = cb /\ ~Held(x)
        <5>1. count'[x] = 1
          BY <2>3, <4>4 DEF References
        <5>2. x \notin Named /\ x # running /\ x # on_loop
          BY <1>1, <4>4, WhoHas DEF CallablesHeld
        <5>3. QED
          BY <5>1, <5>2 DEF One, If
      <4>5. QED
        BY <4>2, <4>3, <4>4
    <3>2. QED
      BY <1>1, <3>1 DEF CallablesCovered, If
  <2>18. WaitersApart'
    <3>1. \A i \in p + 1 .. Len(py_ptr) : py_ptr[i].cb = cb => cb = None
      BY <2>15 DEF Waiting
    <3>2. \A r \in asked : r.extra # cb
      BY <1>1, <2>15 DEF Waiting, TypeOK, Request
    <3>3. ASSUME NEW i \in p + 1 .. Len(py_ptr'), NEW j \in p + 1 .. Len(py_ptr'),
                 py_ptr'[i].cb = py_ptr'[j].cb, py_ptr'[i].cb # None
          PROVE  i = j
      BY <1>1, <2>2, <2>12, <3>1, <3>3 DEF WaitersApart
    <3>4. ASSUME NEW i \in p + 1 .. Len(py_ptr'), NEW r \in asked, py_ptr'[i].cb = r.extra
          PROVE  pc = "cb" /\ i = p + 1
      BY <1>1, <2>2, <2>12, <3>2, <3>4 DEF WaitersApart
    <3>5. QED
      BY <1>1, <3>3, <3>4 DEF WaitersApart
  <2>19. InOrder'
    <3>1. Len(due) \in Nat /\ \A i \in 1 .. Len(due) : due[i] \in 1 .. Len(py_ptr)
      BY <1>1, CommandTyped
    <3>2. CASE ~Sound(c)
      <4>1. due' = due
        BY <2>3, <3>2
      <4>2. \A i \in 1 .. Len(due) : due[i] > p /\ Sound(py_ptr'[due[i]])
        BY <1>1, <2>4, <3>1 DEF InOrder
      <4>3. ASSUME NEW k \in p + 1 .. Len(py_ptr'), Sound(py_ptr'[k])
            PROVE  \E i \in 1 .. Len(due) : due[i] = k
        BY <1>1, <2>12, <3>2, <4>3 DEF InOrder
      <4>4. QED
        BY <1>1, <4>1, <4>2, <4>3 DEF InOrder
    <3>3. CASE Sound(c)
      <4>1. /\ Len(due') = Len(due) + 1 /\ due'[Len(due) + 1] = Len(py_ptr) + 1
            /\ \A i \in 1 .. Len(due) : due'[i] = due[i]
        BY <1>1, <2>3, <3>3, AppendProperties DEF TypeOK
      <4>2. ASSUME NEW i \in 1 .. Len(due') PROVE due'[i] > p /\ Sound(py_ptr'[due'[i]])
        <5>1. CASE i = Len(due) + 1
          BY <2>4, <2>5, <3>3, <4>1, <5>1
        <5>2. CASE i \in 1 .. Len(due)
          BY <1>1, <2>4, <3>1, <4>1, <5>2 DEF InOrder
        <5>3. QED
          BY <3>1, <4>1, <5>1, <5>2
      <4>3. ASSUME NEW i \in 1 .. Len(due'), NEW j \in 1 .. Len(due'), i < j
            PROVE  due'[i] < due'[j]
        <5>1. i \in 1 .. Len(due)
          BY <3>1, <4>1, <4>3
        <5>2. CASE j = Len(due) + 1
          BY <2>4, <3>1, <4>1, <5>1, <5>2
        <5>3. CASE j \in 1 .. Len(due)
          BY <1>1, <4>1, <4>3, <5>1, <5>3 DEF InOrder
        <5>4. QED
          BY <3>1, <4>1, <5>2, <5>3
      <4>4. ASSUME NEW k \in p + 1 .. Len(py_ptr'), Sound(py_ptr'[k])
            PROVE  \E i \in 1 .. Len(due') : due'[i] = k
        <5>1. CASE k \in p + 1 .. Len(py_ptr) /\ py_ptr'[k] = py_ptr[k]
          <6>1. PICK i \in 1 .. Len(due) : due[i] = k
            BY <1>1, <4>4, <5>1 DEF InOrder
          <6>2. i \in 1 .. Len(due') /\ due'[i] = k
            BY <3>1, <4>1, <6>1
          <6>3. QED
            BY <6>2
        <5>2. CASE k = Len(py_ptr) + 1
          <6>1. Len(due) + 1 \in 1 .. Len(due')
            BY <3>1, <4>1
          <6>2. QED
            BY <4>1, <5>2, <6>1
        <5>3. QED
          BY <2>12, <5>1, <5>2
      <4>5. QED
        BY <1>1, <4>2, <4>3, <4>4 DEF InOrder
    <3>4. QED
      BY <3>2, <3>3
  <2>20. Phases' /\ CallablesKept'
    <3>1. pc = "cb" => Cmd' = Cmd /\ p < Len(py_ptr')
      BY <1>1, <2>4, <2>5 DEF Phases, Cmd
    <3>2. QED
      BY <1>1, <2>3, <3>1 DEF Phases, CallablesKept
  <2>21. QED
    BY <2>11, <2>16, <2>17, <2>18, <2>19, <2>20 DEF Inv, Counted
<1>4. QED
  BY <1>2, <1>3

-----------------------------------------------------------------------------
(* The queue is worked off. *)

(* What is released behind a command it had, but for the last member of a  *)
(* group chat; and that is never a callable.                               *)
LEMMA ReleasedBound ==
  ASSUME NEW c \in Command
  PROVE  /\ \A o : Released(c, o) \in Nat
         /\ \A o : ~(Founded(c) /\ o = c.list[Len(c.list)])
                     => Released(c, o) <= Times(o, Args(c))
         /\ \A o \in Callable : Released(c, o) = 0
<1> USE PyQueueAssumption DEF PyQueueAssumption
<1>1. c.peers \in Seq(Peer) /\ c.list \in Seq(Peer)
  BY DEF Command
<1> DEFINE read(o) == {k \in ReadPeers(c) : c.peers[k] = o}
           listed(o) == IF \E i \in Expects(c.fun, "list") : Read(c, i)
                          THEN Times(o, c.list) ELSE 0
           last(o) == IF Founded(c) THEN One(o, c.list[Len(c.list)]) ELSE 0
<1>2. ASSUME NEW o
      PROVE  /\ Cardinality(read(o)) \in Nat /\ listed(o) \in Nat /\ last(o) \in Nat
             /\ Cardinality(read(o)) <= Times(o, c.peers) /\ listed(o) <= Times(o, c.list)
             /\ Times(o, c.peers) \in Nat /\ Times(o, c.list) \in Nat
             /\ Times(o, Args(c)) \in Nat
             /\ Times(o, c.peers) + Times(o, c.list) <= Times(o, Args(c))
             /\ Released(c, o) = Cardinality(read(o)) + listed(o) + last(o)
  <2>1. /\ IsFiniteSet(At(o, c.peers)) /\ Times(o, c.peers) = Cardinality(At(o, c.peers))
        /\ Times(o, c.peers) \in Nat /\ Times(o, c.list) \in Nat
    BY <1>1, AtFinite
  <2>2. read(o) \subseteq At(o, c.peers)
    BY DEF At, ReadPeers
  <2>3. IsFiniteSet(read(o)) /\ Cardinality(read(o)) <= Cardinality(At(o, c.peers))
    BY <2>1, <2>2, FS_Subset
  <2>4. Cardinality(read(o)) \in Nat
    BY <2>3, FS_CardinalityType
  <2>5. /\ Args(c) \in Seq(Peer)
        /\ Times(o, Args(c)) >= Times(o, c.peers) + Times(o, c.list)
    BY <1>1, AtConcat, ConcatProperties DEF Args
  <2>6. Times(o, Args(c)) \in Nat
    BY <2>5, AtFinite
  <2>7. Released(c, o) = Cardinality(read(o)) + listed(o) + last(o)
    BY DEF Released
  <2>8. listed(o) \in Nat /\ listed(o) <= Times(o, c.list) /\ last(o) \in Nat
    BY <2>1 DEF One
  <2>9. QED
    BY <2>1, <2>3, <2>4, <2>5, <2>6, <2>7, <2>8
<1>3. ASSUME NEW o PROVE Released(c, o) \in Nat
  <2> HIDE DEF read, listed, last
  <2>1. QED
    BY <1>2
<1>4. ASSUME NEW o, ~(Founded(c) /\ o = c.list[Len(c.list)])
      PROVE  Released(c, o) <= Times(o, Args(c))
  <2>1. last(o) = 0
    BY <1>4 DEF One
  <2> HIDE DEF read, listed, last
  <2>2. QED
    BY <1>2, <2>1
<1>5. ASSUME NEW o \in Callable PROVE Released(c, o) = 0
  <2>1. \A k \in DOMAIN c.peers : c.peers[k] # o
    BY <1>1, ElementOfSeq, LenProperties
  <2>2. read(o) = {}
    BY <2>1 DEF ReadPeers
  <2>3. \A k \in DOMAIN c.list : c.list[k] # o
    BY <1>1, ElementOfSeq, LenProperties
  <2>4. At(o, c.list) = {}
    BY <2>3 DEF At
  <2>5. Times(o, c.list) = 0
    BY <1>1, <2>4, AtFinite, FS_EmptySet
  <2>6. Founded(c) => o # c.list[Len(c.list)]
    <3>1. Founded(c) => Len(c.list) \in DOMAIN c.list
      BY <1>1, LenProperties DEF Founded
    <3>2. QED
      BY <2>3, <3>1
  <2>7. last(o) = 0 /\ listed(o) = 0
    BY <2>5, <2>6 DEF One
  <2>8. Cardinality(read(o)) = 0
    BY <2>2, FS_EmptySet, Zenon
  <2> HIDE DEF read, listed, last
  <2>9. QED
    BY <1>2, <2>7, <2>8
<1>6. QED
  BY <1>3, <1>4, <1>5

(* Behind a command the counters cover those who have the objects then,    *)
(* whoever waits on, and whether the callback was called within it.        *)
LEMMA DoneCovers ==
  ASSUME Inv, fault = "no", p < Len(py_ptr), p' = p + 1, Overdraw,
         UNCHANGED <<py_ptr, on_loop, running, script>>,
         \A c \in Callable : Waiting(c)' => Waiting(c),
         NEW n, \A o \in Obj : \/ n[o] = CleanedUp[o]
                               \/ Parses /\ n[o] = CleanedUp[o] - One(o, Cmd.cb)
  PROVE  /\ PlacesFinite' /\ PeersCovered(n)' /\ CallablesCovered(n)'
         /\ \A o \in Obj : n[o] \in Int
<1> USE PyQueueAssumption DEF PyQueueAssumption, Obj
<1>1. TypeOK /\ PlacesFinite
  BY DEF Inv, Counted
<1>2. /\ p \in Nat /\ p + 1 \in 1 .. Len(py_ptr) /\ Cmd \in Command
      /\ Cmd.cb \in Callable \cup {None}
  BY <1>1, CommandTyped DEF Cmd
<1>3. \A o \in Obj : CleanedUp[o] = count[o] - Released(Cmd, o) + IF Parses THEN One(o, Cmd.cb) ELSE 0
  BY DEF CleanedUp
<1>4. \A o \in Obj : count[o] \in Int /\ Released(Cmd, o) \in Nat
  BY <1>1, <1>2, ReleasedBound DEF TypeOK
<1>5. \A o \in Obj : One(o, Cmd.cb) \in {0, 1}
  BY DEF One
<1>6. \A o \in Obj : n[o] \in Int /\ n[o] >= count[o] - Released(Cmd, o)
  <2> SUFFICES ASSUME NEW o \in Obj
               PROVE  n[o] \in Int /\ n[o] >= count[o] - Released(Cmd, o)
    OBVIOUS
  <2>1. CASE Parses
    <3>1. CleanedUp[o] = count[o] - Released(Cmd, o) + One(o, Cmd.cb)
      BY <1>3, <2>1
    <3>2. QED
      BY <1>4, <1>5, <3>1
  <2>2. CASE ~Parses
    <3>1. n[o] = count[o] - Released(Cmd, o) + 0
      BY <1>3, <2>2
    <3>2. QED
      BY <1>4, <3>1
  <2>3. QED
    BY <2>1, <2>2
<1>7. \A o \in Peer : /\ IsFiniteSet(Places(o)') /\ Cardinality(Places(o)') \in Nat
                      /\ Times(o, Args(Cmd)) \in Nat
                      /\ Cardinality(Places(o)) = Cardinality(Places(o)') + Times(o, Args(Cmd))
  <2> SUFFICES ASSUME NEW o \in Peer
               PROVE  /\ IsFiniteSet(Places(o)') /\ Cardinality(Places(o)') \in Nat
                      /\ Times(o, Args(Cmd)) \in Nat
                      /\ Cardinality(Places(o))
                           = Cardinality(Places(o)') + Times(o, Args(Cmd))
    OBVIOUS
  <2>1. Places(o) = Among(o, py_ptr, p) /\ IsFiniteSet(Among(o, py_ptr, p))
    BY <1>1 DEF Places, PlacesFinite
  <2>2. Places(o)' = Among(o, py_ptr, p + 1)
    BY DEF Places, Among
  <2>3. /\ IsFiniteSet(Among(o, py_ptr, p + 1))
        /\ Cardinality(Among(o, py_ptr, p + 1)) \in Nat /\ Times(o, Args(py_ptr[p + 1])) \in Nat
        /\ Cardinality(Among(o, py_ptr, p))
             = Cardinality(Among(o, py_ptr, p + 1)) + Times(o, Args(py_ptr[p + 1]))
    BY <1>1, <1>2, <2>1, AmongPop DEF TypeOK
  <2>4. QED
    BY <2>1, <2>2, <2>3, Zenon DEF Cmd
<1>8. PeersCovered(n)'
  <2>1. ASSUME NEW o \in Peer, o \notin overdrawn'
        PROVE  n[o] >= If(o \in script) + Cardinality(Places(o)')
    <3>1. o \notin overdrawn /\ ~(Founded(Cmd) /\ o = Cmd.list[Len(Cmd.list)])
      BY <2>1 DEF Overdraw
    <3>2. count[o] >= If(o \in script) + Cardinality(Places(o))
      BY <3>1 DEF Inv, Counted, PeersCovered
    <3>3. Released(Cmd, o) <= Times(o, Args(Cmd))
      BY <1>2, <3>1, ReleasedBound
    <3>4. If(o \in script) \in Nat
      BY DEF If
    <3>5. o \in Obj
      OBVIOUS
    <3>6. QED
      BY <1>4, <1>6, <1>7, <3>2, <3>3, <3>4, <3>5
  <2>2. QED
    BY <2>1 DEF PeersCovered, If
<1>9. CallablesCovered(n)'
  <2>1. ASSUME NEW c \in Callable
        PROVE  n[c] >= One(c, on_loop) + One(c, running) + If(c \in Named) + If(Waiting(c)')
    <3>1. count[c] >= One(c, on_loop) + One(c, running) + If(c \in Named) + If(Waiting(c))
      BY DEF Inv, Counted, CallablesCovered
    <3>2. Released(Cmd, c) = 0
      BY <1>2, ReleasedBound
    <3>3. c \in Obj
      OBVIOUS
    <3>4. n[c] \in Int /\ n[c] >= count[c] /\ count[c] \in Int
      BY <1>4, <1>6, <3>2, <3>3
    <3>5. QED
      BY <3>1, <3>4 DEF One, If
  <2>2. QED
    BY <2>1 DEF CallablesCovered, If
<1>10. QED
  BY <1>6, <1>7, <1>8, <1>9 DEF PlacesFinite

(* The first call to come is the command at p, if it is a sound one. *)
LEMMA HeadIsCmd ==
  ASSUME TypeOK, InOrder, p < Len(py_ptr), Sound(Cmd)
  PROVE  due # <<>> /\ Len(due) >= 1 /\ due[1] = p + 1
<1>1. /\ Len(due) \in Nat /\ \A i \in 1 .. Len(due) : due[i] \in 1 .. Len(py_ptr)
      /\ p \in Nat /\ Len(py_ptr) \in Nat
  BY CommandTyped
<1>2. PICK i \in 1 .. Len(due) : due[i] = p + 1
  BY <1>1 DEF InOrder, Cmd
<1>3. 1 \in 1 .. Len(due)
  BY <1>1, <1>2
<1>4. due[1] > p
  BY <1>3 DEF InOrder
<1>5. i # 1 => due[1] < due[i]
  BY <1>1, <1>2, <1>3 DEF InOrder
<1>6. i = 1 /\ Len(due) >= 1
  BY <1>1, <1>2, <1>3, <1>4, <1>5
<1>7. QED
  BY <1>2, <1>6

LEMMA RestIs ==
  ASSUME TypeOK, Len(due) >= 1
  PROVE  /\ Rest \in Seq(1 .. Len(py_ptr)) /\ Len(Rest) = Len(due) - 1
         /\ \A j \in 1 .. Len(due) - 1 : Rest[j] = due[j + 1]
<1>1. Len(due) \in Nat /\ due \in Seq(1 .. Len(py_ptr))
  BY CommandTyped DEF TypeOK
<1>2. 2 \in 1 .. Len(due) + 1 /\ Len(due) \in 1 .. Len(due)
  BY <1>1
<1>3. Rest \in Seq(1 .. Len(py_ptr))
  BY <1>1, <1>2, SubSeqProperties DEF Rest
<1>4. Len(Rest) = Len(due) - 1
  <2>1. Len(Rest) = IF 2 <= Len(due) THEN Len(due) - 2 + 1 ELSE 0
    BY <1>1, <1>2, SubSeqProperties DEF Rest
  <2>2. \A m \in Nat : m >= 1 => (IF 2 <= m THEN m - 2 + 1 ELSE 0) = m - 1
    OBVIOUS
  <2>3. QED
    BY <1>1, <2>1, <2>2, Zenon
<1>5. \A j \in 1 .. Len(due) - 1 : Rest[j] = due[j + 1]
  BY <1>1, <1>2, SubSeqProperties DEF Rest
<1>6. QED
  BY <1>3, <1>4, <1>5

(* The calls to come go on in their order. *)
LEMMA DoneInOrder ==
  ASSUME TypeOK, InOrder, p < Len(py_ptr), p' = p + 1, py_ptr' = py_ptr,
         due' = IF Sound(Cmd) THEN Rest ELSE due
  PROVE  /\ InOrder' /\ due' \in Seq(1 .. Len(py_ptr))
         /\ Sound(Cmd) => due # <<>> /\ due[1] = p + 1
<1>1. /\ Len(due) \in Nat /\ \A i \in 1 .. Len(due) : due[i] \in 1 .. Len(py_ptr)
      /\ p \in Nat /\ Len(py_ptr) \in Nat /\ due \in Seq(1 .. Len(py_ptr))
  BY CommandTyped DEF TypeOK
<1>2. CASE ~Sound(Cmd)
  <2>1. due' = due
    BY <1>2
  <2>2. \A i \in 1 .. Len(due) : due[i] > p + 1
    BY <1>1, <1>2 DEF InOrder, Cmd
  <2>3. \A k \in (p + 1) + 1 .. Len(py_ptr) : k \in p + 1 .. Len(py_ptr)
    BY <1>1
  <2>4. InOrder'
    BY <2>1, <2>2, <2>3 DEF InOrder
  <2>5. QED
    BY <1>1, <1>2, <2>1, <2>4
<1>3. CASE Sound(Cmd)
  <2>1. due # <<>> /\ Len(due) >= 1 /\ due[1] = p + 1
    BY <1>3, HeadIsCmd
  <2>2. due' = Rest
    BY <1>3
  <2>3. /\ due' \in Seq(1 .. Len(py_ptr)) /\ Len(due') = Len(due) - 1
        /\ \A j \in 1 .. Len(due) - 1 : due'[j] = due[j + 1]
    BY <2>1, <2>2, RestIs
  <2>4. \A j \in 1 .. Len(due') : j + 1 \in 1 .. Len(due) /\ due'[j] = due[j + 1]
    BY <1>1, <2>3
  <2>5. \A j \in 1 .. Len(due') : due'[j] > p + 1 /\ Sound(py_ptr[due'[j]])
    <3>1. ASSUME NEW j \in 1 .. Len(due') PROVE due'[j] > p + 1 /\ Sound(py_ptr[due'[j]])
      <4>1. 1 \in 1 .. Len(due) /\ 1 < j + 1
        BY <1>1, <2>1, <2>3
      <4>2. due[1] < due[j + 1] /\ Sound(py_ptr[due[j + 1]])
        BY <2>4, <4>1 DEF InOrder
      <4>3. QED
        BY <2>1, <2>4, <4>2
    <3>2. QED
      BY <3>1
  <2>6. \A j, k \in 1 .. Len(due') : j < k => due'[j] < due'[k]
    <3>1. ASSUME NEW j \in 1 .. Len(due'), NEW k \in 1 .. Len(due'), j < k
          PROVE  due'[j] < due'[k]
      <4>1. j + 1 < k + 1
        BY <1>1, <2>3, <3>1
      <4>2. due[j + 1] < due[k + 1]
        BY <2>4, <4>1 DEF InOrder
      <4>3. QED
        BY <2>4, <4>2
    <3>2. QED
      BY <3>1
  <2>7. ASSUME NEW k \in (p + 1) + 1 .. Len(py_ptr), Sound(py_ptr[k])
        PROVE  \E j \in 1 .. Len(due') : due'[j] = k
    <3>1. k \in p + 1 .. Len(py_ptr) /\ k # p + 1
      BY <1>1
    <3>2. PICK j \in 1 .. Len(due) : due[j] = k
      BY <2>7, <3>1 DEF InOrder
    <3>3. j # 1
      BY <2>1, <3>1, <3>2
    <3>4. j - 1 \in 1 .. Len(due') /\ (j - 1) + 1 = j
      BY <1>1, <2>3, <3>2, <3>3
    <3>5. QED
      BY <2>4, <3>2, <3>4
  <2>8. InOrder'
    BY <2>5, <2>6, <2>7 DEF InOrder
  <2>9. QED
    BY <1>1, <1>3, <2>1, <2>3, <2>8
<1>4. QED
  BY <1>2, <1>3

LEMMA DoneInv ==
  ASSUME Inv, do_command \/ do_nothing
  PROVE  Inv'
<1> USE PyQueueAssumption DEF PyQueueAssumption, Obj
<1>1. /\ TypeOK /\ PlacesFinite /\ Phases /\ WaitersApart /\ InOrder
      /\ fault = "no" /\ pc = "do" /\ p < Len(py_ptr)
  BY DEF Inv, Counted, do_command, do_nothing, Doing
<1>2. PICK n : n = CleanedUp
  OBVIOUS
<1>3. /\ UNCHANGED <<py_ptr, pc, running, on_loop, script>>
      /\ p' = p + 1 /\ due' = (IF Sound(Cmd) THEN Rest ELSE due) /\ Overdraw /\ Release(n)
      /\ asked' = asked \/ (asked' = asked \cup {Call(Cmd)} /\ Cmd.cb # None)
  BY <1>2 DEF do_command, do_nothing, clean_up, Ask
<1>4. /\ p \in Nat /\ p + 1 \in 1 .. Len(py_ptr) /\ Len(py_ptr) \in Nat /\ Cmd \in Command
      /\ Cmd.cb \in Callable \cup {None} /\ p + 1 \in p + 1 .. Len(py_ptr)
  BY <1>1, CommandTyped DEF Cmd
<1>5. asked' \subseteq Request
  <2>1. Cmd.cb # None => Call(Cmd) \in Request
    BY <1>4 DEF Call, Request, Command
  <2>2. QED
    BY <1>1, <1>3, <2>1 DEF TypeOK
<1>6. (p + 1) + 1 .. Len(py_ptr) \subseteq p + 1 .. Len(py_ptr)
  BY <1>4
<1>7. \A c \in Callable : Waiting(c)' => Waiting(c)
  <2>1. Call(Cmd).extra = Cmd.cb
    BY DEF Call
  <2>2. Waiting(Cmd.cb)
    BY <1>4 DEF Waiting, Cmd
  <2>3. QED
    BY <1>3, <1>6, <2>1, <2>2 DEF Waiting
<1>8. PlacesFinite' /\ PeersCovered(n)' /\ CallablesCovered(n)' /\ \A o \in Obj : n[o] \in Int
  <2>1. \A o \in Obj : \/ n[o] = CleanedUp[o]
                       \/ Parses /\ n[o] = CleanedUp[o] - One(o, Cmd.cb)
    BY <1>2
  <2>2. /\ UNCHANGED <<py_ptr, on_loop, running, script>>
        /\ p' = p + 1 /\ Overdraw
    BY <1>3
  <2>3. QED
    BY <1>1, <1>7, <2>1, <2>2, DoneCovers
<1>9. n \in [Obj -> Int]
  BY <1>2, <1>8 DEF CleanedUp
<1>10. count' \in [Obj -> Int] /\ fault' \in {"no", "peer", "callable"}
  BY <1>1, <1>3, <1>9, ReleaseTyped
<1>11. InOrder' /\ due' \in Seq(1 .. Len(py_ptr))
  BY <1>1, <1>3, DoneInOrder
<1>12. TypeOK'
  <2>1. p' \in 0 .. Len(py_ptr')
    BY <1>3, <1>4
  <2>2. overdrawn' \subseteq Peer
    BY <1>1, <1>3 DEF Overdraw, TypeOK
  <2>3. QED
    BY <1>1, <1>3, <1>5, <1>10, <1>11, <2>1, <2>2 DEF TypeOK
<1>13. Counted' /\ fault' \in {"no", "peer"}
  BY <1>1, <1>3, <1>8, <1>9, <1>12, ReleaseKeeps
<1>14. WaitersApart'
  <2>1. Call(Cmd).extra = py_ptr[p + 1].cb
    BY DEF Call, Cmd
  <2>2. \A r \in asked : r.extra # py_ptr[p + 1].cb
    BY <1>1, <1>4 DEF WaitersApart
  <2>3. \A r, s \in asked' : r.extra = s.extra => r = s
    BY <1>1, <1>3, <2>1, <2>2 DEF WaitersApart
  <2>4. \A i \in (p + 1) + 1 .. Len(py_ptr) : i # p + 1
    BY <1>4
  <2>5. ASSUME NEW i \in (p + 1) + 1 .. Len(py_ptr), NEW r \in asked', py_ptr[i].cb = r.extra
        PROVE  FALSE
    <3>1. i \in p + 1 .. Len(py_ptr) /\ i # p + 1
      BY <1>6, <2>4
    <3>2. r \notin asked
      BY <1>1, <2>5, <3>1 DEF WaitersApart
    <3>3. r = Call(Cmd) /\ Cmd.cb # None
      BY <1>3, <3>2
    <3>4. QED
      BY <1>1, <1>4, <2>1, <2>5, <3>1, <3>3 DEF WaitersApart, Cmd
  <2>6. QED
    BY <1>1, <1>3, <1>6, <2>3, <2>5 DEF WaitersApart
<1>15. Phases' /\ CallablesKept'
  BY <1>1, <1>3, <1>13 DEF Phases, CallablesKept
<1>16. QED
  BY <1>11, <1>12, <1>13, <1>14, <1>15 DEF Inv

(* A command that is refused is asked for, and stays in its place until    *)
(* its callback returned.                                                  *)
LEMMA RefuseInv ==
  ASSUME Inv, do_refused
  PROVE  Inv'
<1> USE PyQueueAssumption DEF PyQueueAssumption, Obj
<1>1. /\ TypeOK /\ PlacesFinite /\ Phases /\ WaitersApart /\ InOrder
      /\ fault = "no" /\ pc = "do" /\ p < Len(py_ptr) /\ Sound(Cmd)
  BY DEF Inv, Counted, do_refused, Doing, Sound, Parses
<1>2. /\ UNCHANGED <<py_ptr, p, running, on_loop, script, count, overdrawn, due, fault>>
      /\ pc' = "cb" /\ asked' = asked \cup {Call(Cmd)}
  BY DEF do_refused, Ask
<1>3. /\ p + 1 \in p + 1 .. Len(py_ptr) /\ Cmd \in Command /\ Cmd.cb \in Callable
  BY <1>1, CommandTyped DEF Cmd, Sound
<1>4. TypeOK'
  <2>1. Call(Cmd) \in Request
    BY <1>3 DEF Call, Request, Command
  <2>2. QED
    BY <1>1, <1>2, <2>1 DEF TypeOK
<1>5. Call(Cmd).extra = py_ptr[p + 1].cb
  BY DEF Call, Cmd
<1>6. /\ \A x : Places(x)' = Places(x)
      /\ \A x : Waiting(x)' => Waiting(x)
  <2>1. Waiting(py_ptr[p + 1].cb)
    BY <1>3 DEF Waiting
  <2>2. QED
    BY <1>2, <1>5, <2>1 DEF Waiting, Places
<1>7. PeersCovered(count)' /\ PlacesFinite'
  BY <1>2, <1>6 DEF Inv, Counted, PeersCovered, PlacesFinite, If
<1>8. CallablesCovered(count)'
  <2>1. ASSUME NEW x \in Callable
        PROVE  count[x] >= One(x, on_loop) + One(x, running) + If(x \in Named) + If(Waiting(x)')
    <3>1. /\ count[x] \in Int
          /\ count[x] >= One(x, on_loop) + One(x, running) + If(x \in Named) + If(Waiting(x))
      BY <1>1 DEF Inv, Counted, CallablesCovered, TypeOK
    <3>2. Waiting(x)' => Waiting(x)
      BY <1>6
    <3>3. QED
      BY <3>1, <3>2 DEF One, If
  <2>2. QED
    BY <1>2, <2>1 DEF CallablesCovered, If
<1>9. WaitersApart'
  <2>1. \A r \in asked : r.extra # py_ptr[p + 1].cb
    BY <1>1, <1>3 DEF WaitersApart
  <2>2. \A r, s \in asked' : r.extra = s.extra => r = s
    BY <1>1, <1>2, <1>5, <2>1 DEF WaitersApart
  <2>3. ASSUME NEW i \in p + 1 .. Len(py_ptr), NEW r \in asked', py_ptr[i].cb = r.extra
        PROVE  i = p + 1
    <3>1. r = Call(Cmd)
      BY <1>1, <1>2, <2>3 DEF WaitersApart
    <3>2. py_ptr[i].cb = py_ptr[p + 1].cb /\ py_ptr[p + 1].cb # None
      BY <1>3, <1>5, <2>3, <3>1 DEF Cmd
    <3>3. QED
      BY <1>1, <1>3, <3>2 DEF WaitersApart
  <2>4. QED
    BY <1>1, <1>2, <2>2, <2>3 DEF WaitersApart
<1>10. InOrder' /\ Phases' /\ CallablesKept'
  BY <1>1, <1>2 DEF InOrder, Phases, CallablesKept, Cmd
<1>11. QED
  BY <1>4, <1>7, <1>8, <1>9, <1>10 DEF Inv, Counted

(* Its callback returns: either the callable was freed, because the        *)
(* reference of the tuple was its last, or the command is done.            *)
LEMMA RefusedInv ==
  ASSUME Inv, refused
  PROVE  Inv'
<1> USE PyQueueAssumption DEF PyQueueAssumption, Obj
<1>1. /\ TypeOK /\ PlacesFinite /\ Phases /\ WaitersApart /\ InOrder
      /\ fault = "no" /\ pc = "cb" /\ p < Len(py_ptr) /\ Sound(Cmd) /\ running = None
  BY DEF Inv, Counted, refused, Phases
<1>2. /\ UNCHANGED <<py_ptr, running, on_loop, script>>
      /\ asked' = {r \in asked : r.extra # Cmd.cb}
  BY DEF refused
<1>3. /\ p \in Nat /\ p + 1 \in p + 1 .. Len(py_ptr) /\ Len(py_ptr) \in Nat
      /\ Cmd \in Command /\ Cmd.cb \in Callable
  BY <1>1, CommandTyped DEF Cmd, Sound
<1>4. CASE count[Cmd.cb] = 1
  <2>1. fault' = "callable" /\ UNCHANGED <<p, pc, count, overdrawn, due>>
    BY <1>4 DEF refused
  <2>2. TypeOK'
    BY <1>1, <1>2, <2>1 DEF TypeOK
  <2>3. /\ \A x : Places(x)' = Places(x)
        /\ \A x : Waiting(x)' => Waiting(x)
    BY <1>2, <2>1 DEF Waiting, Places
  <2>4. PeersCovered(count)' /\ PlacesFinite'
    BY <1>2, <2>1, <2>3 DEF Inv, Counted, PeersCovered, PlacesFinite, If
  <2>5. CallablesCovered(count)'
    <3>1. ASSUME NEW x \in Callable
          PROVE  count[x] >= One(x, on_loop) + One(x, running) + If(x \in Named)
                               + If(Waiting(x)')
      <4>1. /\ count[x] \in Int
            /\ count[x] >= One(x, on_loop) + One(x, running) + If(x \in Named) + If(Waiting(x))
        BY <1>1 DEF Inv, Counted, CallablesCovered, TypeOK
      <4>2. Waiting(x)' => Waiting(x)
        BY <2>3
      <4>3. QED
        BY <4>1, <4>2 DEF One, If
    <3>2. QED
      BY <1>2, <2>1, <3>1 DEF CallablesCovered, If
  <2>6. WaitersApart' /\ InOrder' /\ Phases'
    BY <1>1, <1>2, <2>1 DEF WaitersApart, InOrder, Phases, Cmd
  <2>7. CallablesKept'
    <3>1. Waiting(Cmd.cb)
      BY <1>3 DEF Waiting, Cmd
    <3>2. 1 >= One(Cmd.cb, on_loop) + One(Cmd.cb, running) + If(Cmd.cb \in Named) + 1
      BY <1>3, <1>4, <3>1 DEF Inv, Counted, CallablesCovered, If
    <3>3. Cmd.cb \notin Named /\ Cmd.cb # on_loop
      BY <3>2 DEF One, If
    <3>4. Cmd' = Cmd
      BY <1>2, <2>1 DEF Cmd
    <3>5. QED
      BY <1>1, <1>2, <2>1, <3>3, <3>4 DEF CallablesKept
  <2>8. QED
    BY <2>2, <2>4, <2>5, <2>6, <2>7 DEF Inv, Counted
<1>5. CASE count[Cmd.cb] # 1
  <2>1. PICK n : n = [o \in Obj |-> CleanedUp[o] - One(o, Cmd.cb)]
    OBVIOUS
  <2>2. /\ pc' = "do" /\ p' = p + 1 /\ due' = (IF Sound(Cmd) THEN Rest ELSE due)
        /\ Overdraw /\ Release(n)
    BY <1>5, <2>1 DEF refused, clean_up
  <2>3. (p + 1) + 1 .. Len(py_ptr) \subseteq p + 1 .. Len(py_ptr)
    BY <1>3
  <2>4. \A c \in Callable : Waiting(c)' => Waiting(c)
    BY <1>2, <2>2, <2>3 DEF Waiting
  <2>5. Parses /\ \A o \in Obj : n[o] = CleanedUp[o] - One(o, Cmd.cb)
    BY <1>1, <2>1 DEF Sound, Parses
  <2>6. PlacesFinite' /\ PeersCovered(n)' /\ CallablesCovered(n)' /\ \A o \in Obj : n[o] \in Int
    BY <1>1, <1>2, <2>2, <2>4, <2>5, DoneCovers
  <2>7. n \in [Obj -> Int]
    BY <2>1, <2>6
  <2>8. count' \in [Obj -> Int] /\ fault' \in {"no", "peer", "callable"}
    BY <1>1, <2>2, <2>7, ReleaseTyped
  <2>9. InOrder' /\ due' \in Seq(1 .. Len(py_ptr))
    BY <1>1, <1>2, <2>2, DoneInOrder
  <2>10. TypeOK'
    <3>1. p' \in 0 .. Len(py_ptr')
      BY <1>1, <1>2, <1>3, <2>2
    <3>2. overdrawn' \subseteq Peer /\ asked' \subseteq Request
      BY <1>1, <1>2, <2>2 DEF Overdraw, TypeOK
    <3>3. QED
      BY <1>1, <1>2, <2>2, <2>8, <2>9, <3>1, <3>2 DEF TypeOK
  <2>11. Counted' /\ fault' \in {"no", "peer"}
    BY <1>1, <2>2, <2>6, <2>7, <2>10, ReleaseKeeps
  <2>12. WaitersApart'
    <3>1. \A i \in (p + 1) + 1 .. Len(py_ptr) : i # p + 1
      BY <1>3
    <3>2. QED
      BY <1>1, <1>2, <2>2, <2>3, <3>1 DEF WaitersApart
  <2>13. Phases' /\ CallablesKept'
    BY <1>1, <1>2, <2>2, <2>11 DEF Phases, CallablesKept
  <2>14. QED
    BY <2>9, <2>10, <2>11, <2>12, <2>13 DEF Inv
<1>6. QED
  BY <1>4, <1>5

-----------------------------------------------------------------------------
(* The theorems. *)
LEMMA InitInv == Init => Inv
<1> SUFFICES ASSUME Init PROVE Inv
  OBVIOUS
<1> USE PyQueueAssumption DEF PyQueueAssumption, Obj
<1>1. /\ py_ptr = <<>> /\ Len(py_ptr) = 0 /\ p = 0 /\ due = <<>> /\ Len(due) = 0
      /\ asked = {} /\ script = {} /\ overdrawn = {} /\ running = None /\ on_loop = None
      /\ pc = "script" /\ fault = "no"
      /\ count = [o \in Obj |-> IF o \in Named THEN 1 ELSE 0]
  BY DEF Init
<1>2. TypeOK
  BY <1>1 DEF TypeOK
<1>3. \A x : Places(x) = {}
  BY <1>1 DEF Places, Among
<1>4. \A x : ~Waiting(x)
  BY <1>1 DEF Waiting
<1>5. PlacesFinite /\ PeersCovered(count)
  <2>1. IsFiniteSet({}) /\ Cardinality({}) = 0
    BY FS_EmptySet
  <2>2. \A o \in Peer : o \notin script /\ count[o] = 0
    BY <1>1
  <2>3. \A o \in Peer : Cardinality(Places(o)) = 0
    BY <1>3, <2>1, Zenon
  <2>4. PlacesFinite
    BY <1>3, <2>1, Zenon DEF PlacesFinite
  <2>5. QED
    BY <2>2, <2>3, <2>4 DEF PeersCovered, If
<1>6. CallablesCovered(count)
  BY <1>1, <1>4 DEF CallablesCovered, One, If
<1>7. WaitersApart /\ InOrder /\ Phases /\ CallablesKept
  BY <1>1 DEF WaitersApart, InOrder, Phases, CallablesKept
<1>8. QED
  BY <1>2, <1>5, <1>6, <1>7 DEF Inv, Counted

LEMMA NextInv == Inv /\ [Next]_vars => Inv'
<1> SUFFICES ASSUME Inv, [Next]_vars PROVE Inv'
  OBVIOUS
<1>1. TypeOK
  BY DEF Inv
<1>2. CASE Script
  <2>1. CASE \E o \in Peer, kept \in {0, 1} : GetPeer(o, kept)
    BY <2>1, GetPeerInv
  <2>2. CASE \E c \in Callable : set_py_on_loop(c)
    BY <2>2, OnLoopInv
  <2>3. CASE \E o \in Peer : Forget(o)
    BY <2>3, ForgetInv
  <2>4. ASSUME NEW f \in Function, NEW cb \in Callable \cup {None}, NEW bad \in 0 .. 4,
               NEW list \in Lists \cup {<<>>}, NEW peers, call(f, peers, list, cb, bad)
        PROVE  Inv'
    <3>1. /\ Pushed(f) \in Functions /\ peers \in Seq(Peer) /\ list \in Seq(Peer)
          /\ bad \in Nat /\ Pushes(Pushed(f), peers, list, cb, bad)
      BY <1>1, <2>4, CallPushes
    <3>2. QED
      BY <3>1, PushInv
  <2>5. ASSUME NEW m, NEW cb \in Callable \cup {None}, NEW peers, method(m, peers, cb)
        PROVE  Inv'
    <3>1. PICK f \in Functions, c \in Callable \cup {None}, bad \in Nat :
            peers \in Seq(Peer) /\ Pushes(f, peers, <<>>, c, bad)
      BY <1>1, <2>5, MethodPushes
    <3>2. <<>> \in Seq(Peer)
      BY EmptySeq
    <3>3. QED
      BY <3>1, <3>2, PushInv
  <2>6. QED
    BY <1>2, <2>1, <2>2, <2>3, <2>4, <2>5 DEF Script
<1>3. CASE Update \/ py_do_all \/ py_on_loop_returns \/ do_unknown
  BY <1>3, MoveInv
<1>4. CASE do_command \/ do_nothing
  BY <1>4, DoneInv
<1>5. CASE do_refused
  BY <1>5, RefuseInv
<1>6. CASE refused
  BY <1>6, RefusedInv
<1>7. CASE py_do_all_end
  BY <1>7, EndInv
<1>8. CASE \E c \in Callable : py_cb(c)
  BY <1>8, AnswerInv
<1>9. CASE ScriptReturns
  BY <1>9, ScriptReturnsInv
<1>10. CASE UNCHANGED vars
  <2>1. /\ \A x : Places(x)' = Places(x)
        /\ \A x : Waiting(x)' <=> Waiting(x)
        /\ PlacesFinite' /\ WaitersApart' /\ InOrder'
    BY <1>10, QueueSame DEF vars
  <2>2. PeersCovered(count)' /\ CallablesCovered(count)'
    BY <1>10, <2>1 DEF vars, Inv, Counted, PeersCovered, CallablesCovered, If
  <2>3. TypeOK' /\ Phases' /\ CallablesKept'
    BY <1>10 DEF vars, Inv, TypeOK, Phases, CallablesKept, Cmd
  <2>4. QED
    BY <2>1, <2>2, <2>3 DEF Inv, Counted
<1>11. QED
  BY <1>2, <1>3, <1>4, <1>5, <1>6, <1>7, <1>8, <1>9, <1>10 DEF Next, Working, Stopped

(* What is counted covers who has an object, in every state: the           *)
(* bookkeeping of push_py_func, py_do_all and the callbacks.               *)
THEOREM InvCorrect == Spec => []Inv
<1>1. QED
  BY InitInv, NextInv, PTL DEF Spec

(* The queue never outgrows py_ptr, and holds what the table of functions  *)
(* allows.                                                                 *)
THEOREM TypeCorrect == Spec => []TypeOK
<1>1. Inv => TypeOK
  BY DEF Inv
<1>2. QED
  BY <1>1, InvCorrect, PTL

(* Whatever the script calls, keeps and drops, and whatever py_do_all      *)
(* releases of what it only borrowed, no object is freed that somebody     *)
(* has, but for the last member of a group chat and a literal callback     *)
(* that is called at once.                                                 *)
THEOREM ReferencesCorrect == Spec => []ReferencesKept
<1>1. Inv => ReferencesKept
  <2> SUFFICES ASSUME Inv PROVE ReferencesKept
    OBVIOUS
  <2>1. TypeOK /\ PlacesFinite /\ PeersCovered(count) /\ CallablesKept
    BY DEF Inv, Counted
  <2>2. PeersHeld
    BY <2>1, WhoHas
  <2>3. ASSUME NEW o \in Peer, o \notin overdrawn PROVE ~Dead(count[o], Held(o))
    <3>1. count[o] >= If(o \in script) + Cardinality(Places(o)) /\ count[o] \in Int
      BY <2>1, <2>3 DEF PeersCovered, TypeOK, Obj
    <3>2. Cardinality(Places(o)) \in Nat
      BY <2>1, FS_CardinalityType DEF PlacesFinite
    <3>3. Held(o) <=> (o \in script \/ Cardinality(Places(o)) # 0)
      BY <2>2 DEF PeersHeld
    <3>4. CASE Held(o)
      <4>1. count[o] >= 1
        BY <3>1, <3>2, <3>3, <3>4 DEF If
      <4>2. QED
        BY <3>1, <3>4, <4>1 DEF Dead
    <3>5. CASE ~Held(o)
      <4>1. count[o] >= 0
        BY <3>1, <3>2 DEF If
      <4>2. QED
        BY <3>1, <3>5, <4>1 DEF Dead
    <3>6. QED
      BY <3>4, <3>5
  <2>4. QED
    BY <2>1, <2>3 DEF ReferencesKept, PeersKept
<1>2. QED
  BY <1>1, InvCorrect, PTL

-----------------------------------------------------------------------------
(* The refinement: due lists the places of the calls that CallQueue calls  *)
(* to do, less the one whose callback runs.                                *)
Begun == IF pc = "cb" THEN 1 ELSE 0

QueuedAtDue ==
  /\ Len(due) \in Nat /\ Begun <= Len(due)
  /\ Queued \in Seq(Request) /\ Len(Queued) = Len(due) - Begun
  /\ \A i \in 1 .. Len(due) - Begun : Queued[i] = Call(py_ptr[due[i + Begun]])

LEMMA QueuedIs == Inv => QueuedAtDue
<1> SUFFICES ASSUME Inv PROVE QueuedAtDue
  OBVIOUS
<1>1. TypeOK /\ InOrder /\ Phases
  BY DEF Inv
<1>2. /\ Len(due) \in Nat /\ due \in Seq(1 .. Len(py_ptr)) /\ DOMAIN due = 1 .. Len(due)
      /\ \A i \in 1 .. Len(due) : due[i] \in 1 .. Len(py_ptr)
  BY <1>1, CommandTyped, LenProperties DEF TypeOK
<1>3. \A i \in 1 .. Len(due) : Call(py_ptr[due[i]]) \in Request
  <2> SUFFICES ASSUME NEW i \in 1 .. Len(due) PROVE Call(py_ptr[due[i]]) \in Request
    OBVIOUS
  <2>1. py_ptr[due[i]] \in Command /\ Sound(py_ptr[due[i]])
    BY <1>1, <1>2, CommandTyped DEF InOrder
  <2>2. QED
    BY <2>1 DEF Sound, Command, Call, Request
<1>4. Begun \in {0, 1} /\ Begun <= Len(due) /\ DOMAIN Open = 1 .. Len(due) - Begun
      /\ \A i \in 1 .. Len(due) - Begun : Open[i] = due[i + Begun]
  <2>1. CASE pc = "cb"
    <3>1. Len(due) >= 1
      BY <1>1, <2>1, HeadIsCmd DEF Phases
    <3>2. /\ DOMAIN Rest = 1 .. Len(due) - 1
          /\ \A i \in 1 .. Len(due) - 1 : Rest[i] = due[i + 1]
      BY <1>1, <3>1, RestIs, LenProperties
    <3>3. Begun = 1 /\ Open = Rest
      BY <2>1 DEF Begun, Open
    <3>4. QED
      BY <3>1, <3>2, <3>3
  <2>2. CASE pc # "cb"
    <3>1. Begun = 0 /\ Open = due
      BY <2>2 DEF Begun, Open
    <3>2. Len(due) - 0 = Len(due) /\ 0 <= Len(due) /\ \A i \in 1 .. Len(due) : i + 0 = i
      BY <1>2
    <3>3. QED
      BY <1>2, <3>1, <3>2
  <2>3. QED
    BY <2>1, <2>2
<1> DEFINE n == Len(due) - Begun
           Due(i) == Call(py_ptr[due[i + Begun]])
<1>5. n \in Nat
  BY <1>2, <1>4
<1>6. \A i \in 1 .. n : Due(i) \in Request
  <2> SUFFICES ASSUME NEW i \in 1 .. n PROVE Due(i) \in Request
    OBVIOUS
  <2>1. PICK j \in 1 .. Len(due) : j = i + Begun
    BY <1>2, <1>4
  <2>2. QED
    BY <1>3, <2>1
<1>7. Queued = [i \in 1 .. n |-> Due(i)]
  BY <1>4 DEF Queued
<1> HIDE DEF n, Due
<1>8. Queued \in Seq(Request) /\ Len(Queued) = n /\ \A i \in 1 .. n : Queued[i] = Due(i)
  BY <1>5, <1>6, <1>7
<1>9. QED
  BY <1>2, <1>4, <1>8 DEF QueuedAtDue, n, Due

LEMMA QueuedNext == Inv' => QueuedAtDue'
BY QueuedIs, PTL

(* The calls to come are the same if their places are, and their commands. *)
LEMMA QueuedStays ==
  ASSUME Inv, Inv', due' = due, pc' = "cb" <=> pc = "cb",
         \A i \in 1 .. Len(due) : py_ptr'[due[i]] = py_ptr[due[i]]
  PROVE  Queued' = Queued
<1>1. Begun' = Begun /\ Begun \in {0, 1}
  BY DEF Begun
<1>2. QueuedAtDue /\ QueuedAtDue'
  BY QueuedIs, QueuedNext
<1>3. /\ Queued \in Seq(Request) /\ Len(Queued) = Len(due) - Begun
      /\ \A i \in 1 .. Len(due) - Begun : Queued[i] = Call(py_ptr[due[i + Begun]])
      /\ Queued' \in Seq(Request) /\ Len(Queued') = Len(due) - Begun
      /\ \A i \in 1 .. Len(due) - Begun : Queued'[i] = Call(py_ptr'[due[i + Begun]])
  BY <1>1, <1>2 DEF QueuedAtDue, Request, Call
<1>4. \A i \in 1 .. Len(Queued) : Queued'[i] = Queued[i]
  <2> SUFFICES ASSUME NEW i \in 1 .. Len(due) - Begun PROVE Queued'[i] = Queued[i]
    BY <1>3
  <2>1. PICK j \in 1 .. Len(due) : j = i + Begun
    BY <1>1, <1>2 DEF QueuedAtDue
  <2>2. py_ptr'[due[j]] = py_ptr[due[j]]
    OBVIOUS
  <2>3. QED
    BY <1>3, <2>1, <2>2
<1>5. QED
  BY <1>3, <1>4, SeqEqual

LEMMA TailIs ==
  ASSUME NEW S, NEW q \in Seq(S), NEW r \in Seq(S), q # <<>>, Len(r) = Len(q) - 1,
         \A i \in 1 .. Len(r) : r[i] = q[i + 1]
  PROVE  r = Tail(q) /\ Head(q) = q[1]
<1>1. /\ Tail(q) \in Seq(S) /\ Len(Tail(q)) = Len(q) - 1
      /\ \A i \in 1 .. Len(Tail(q)) : Tail(q)[i] = q[i + 1]
      /\ Head(q) = q[1]
  BY HeadTailProperties
<1>2. QED
  BY <1>1, SeqEqual

LEMMA AppendIs ==
  ASSUME NEW S, NEW q \in Seq(S), NEW r \in Seq(S), NEW x \in S, Len(r) = Len(q) + 1,
         \A i \in 1 .. Len(q) : r[i] = q[i], r[Len(q) + 1] = x
  PROVE  r = Append(q, x)
<1>1. /\ Append(q, x) \in Seq(S) /\ Len(Append(q, x)) = Len(q) + 1
      /\ \A i \in 1 .. Len(q) : Append(q, x)[i] = q[i]
      /\ Append(q, x)[Len(q) + 1] = x
  BY AppendProperties
<1>2. Len(q) \in Nat
  BY LenProperties
<1>3. \A i \in 1 .. Len(r) : r[i] = Append(q, x)[i]
  BY <1>1, <1>2
<1>4. QED
  BY <1>1, <1>3, SeqEqual

(* The call of a sound command is accepted: nobody waits for its callback. *)
LEMMA PushAccepts ==
  ASSUME Inv, NEW f \in Functions, NEW peers \in Seq(Peer), NEW list \in Seq(Peer),
         NEW cb \in Callable \cup {None}, NEW bad \in Nat, Pushes(f, peers, list, cb, bad)
  PROVE  [Calls!Next]_(Calls!vars)
<1>1. TypeOK /\ InOrder /\ Inv' /\ UNCHANGED <<pc, asked, p>>
  BY PushInv DEF Inv, Pushes, push_py_func
<1>2. PICK c : c = [fun |-> f, peers |-> peers, list |-> list, cb |-> cb, bad |-> bad]
  OBVIOUS
<1>3. c \in Command /\ c.cb = cb /\ Call(c) = [fun |-> f, extra |-> cb]
  BY <1>2 DEF Command, Call
<1>4. /\ Len(py_ptr) \in Nat /\ Len(due) \in Nat /\ due \in Seq(1 .. Len(py_ptr))
      /\ \A i \in 1 .. Len(due) : due[i] \in 1 .. Len(py_ptr)
  BY <1>1, CommandTyped DEF TypeOK
<1>5. CASE ~Room
  <2>1. UNCHANGED <<py_ptr, due>>
    BY <1>5 DEF Pushes, push_py_func
  <2>2. QED
    BY <1>1, <2>1, QueuedStays DEF Calls!vars
<1>6. CASE Room
  <2>1. py_ptr' = Append(py_ptr, c) /\ due' = IF Sound(c) THEN Append(due, Len(py_ptr) + 1) ELSE due
    BY <1>2, <1>6 DEF Pushes, push_py_func
  <2>2. /\ \A i \in 1 .. Len(py_ptr) : py_ptr'[i] = py_ptr[i]
        /\ py_ptr'[Len(py_ptr) + 1] = c
    BY <1>1, <1>3, <2>1, AppendProperties DEF TypeOK
  <2>3. \A i \in 1 .. Len(due) : py_ptr'[due[i]] = py_ptr[due[i]]
    BY <1>4, <2>2
  <2>4. CASE ~Sound(c)
    BY <1>1, <2>1, <2>3, <2>4, QueuedStays DEF Calls!vars
  <2>5. CASE Sound(c)
    <3>1. /\ Len(due') = Len(due) + 1 /\ due'[Len(due) + 1] = Len(py_ptr) + 1
          /\ \A i \in 1 .. Len(due) : due'[i] = due[i]
      <4>1. due' = Append(due, Len(py_ptr) + 1) /\ due \in Seq(Nat) /\ Len(py_ptr) + 1 \in Nat
        <5>1. 1 .. Len(py_ptr) \subseteq Nat
          BY <1>4
        <5>2. QED
          BY <1>4, <2>1, <2>5, <5>1, SeqMonotonic
      <4>2. QED
        BY <4>1, AppendProperties
    <3>2. QueuedAtDue /\ QueuedAtDue' /\ Begun' = Begun /\ Begun \in {0, 1}
      BY <1>1, QueuedIs, QueuedNext DEF Begun
    <3>3. /\ Queued \in Seq(Request) /\ Len(Queued) = Len(due) - Begun /\ Begun <= Len(due)
          /\ \A i \in 1 .. Len(due) - Begun : Queued[i] = Call(py_ptr[due[i + Begun]])
          /\ Queued' \in Seq(Request) /\ Len(Queued') = Len(due') - Begun
          /\ \A i \in 1 .. Len(due') - Begun : Queued'[i] = Call(py_ptr'[due'[i + Begun]])
      BY <3>2 DEF QueuedAtDue, Request, Call
    <3>4. Len(Queued') = Len(Queued) + 1
      BY <1>4, <3>1, <3>2, <3>3
    <3>5. \A i \in 1 .. Len(Queued) : Queued'[i] = Queued[i]
      <4> SUFFICES ASSUME NEW i \in 1 .. Len(due) - Begun PROVE Queued'[i] = Queued[i]
        BY <3>3
      <4>1. PICK j \in 1 .. Len(due) : j = i + Begun
        BY <1>4, <3>2
      <4>2. i \in 1 .. Len(due') - Begun
        BY <1>4, <3>1, <3>2
      <4>3. due'[j] = due[j] /\ py_ptr'[due[j]] = py_ptr[due[j]]
        BY <2>3, <3>1
      <4>4. QED
        BY <3>3, <4>1, <4>2, <4>3
    <3>6. Queued'[Len(Queued) + 1] = Call(c)
      <4>1. PICK i : i = Len(Queued) + 1
        OBVIOUS
      <4>2. i \in 1 .. Len(due') - Begun /\ i + Begun = Len(due) + 1
        BY <1>4, <3>1, <3>2, <3>3, <4>1
      <4>3. Queued'[i] = Call(py_ptr'[due'[i + Begun]])
        BY <3>3, <4>2
      <4>4. py_ptr'[due'[i + Begun]] = c
        BY <2>2, <3>1, <4>2
      <4>5. QED
        BY <4>1, <4>3, <4>4
    <3>7. cb # None /\ cb \in Callable /\ Call(c) \in Request /\ ~Waiting(cb)
      BY <1>3, <2>5 DEF Sound, Request, Pushes
    <3>8. Queued' = Append(Queued, Call(c))
      BY <3>3, <3>4, <3>5, <3>6, <3>7, AppendIs
    <3>9. \A r \in Calls!Pending : r.extra # cb
      <4>1. ASSUME NEW i \in DOMAIN Queued PROVE Queued[i].extra # cb
        <5>1. DOMAIN Queued = 1 .. Len(due) - Begun
          BY <3>3, LenProperties
        <5>2. PICK j \in 1 .. Len(due) : j = i + Begun
          BY <1>4, <3>2, <5>1
        <5>3. Queued[i].extra = py_ptr[due[j]].cb
          BY <3>3, <5>1, <5>2 DEF Call
        <5>4. due[j] \in p + 1 .. Len(py_ptr)
          BY <1>1, <1>4 DEF InOrder, TypeOK
        <5>5. QED
          BY <3>7, <5>3, <5>4 DEF Waiting
      <4>2. \A r \in asked : r.extra # cb
        BY <3>7 DEF Waiting
      <4>3. QED
        BY <4>1, <4>2 DEF Calls!Pending
    <3>10. Calls!Accept(f, cb)
      BY <1>1, <1>3, <3>8, <3>9 DEF Calls!Accept
    <3>11. QED
      BY <3>7, <3>10 DEF Calls!Next
  <2>6. QED
    BY <2>4, <2>5
<1>7. QED
  BY <1>5, <1>6

(* The command at p begins, whether it is refused or not. *)
LEMMA CommandBegins ==
  ASSUME Inv, Inv', pc = "do", p < Len(py_ptr), Sound(Cmd), py_ptr' = py_ptr,
         asked' = asked \cup {Call(Cmd)},
         (pc' = "do" /\ due' = Rest) \/ (pc' = "cb" /\ due' = due)
  PROVE  Calls!Begin
<1>1. TypeOK /\ InOrder
  BY DEF Inv
<1>2. Len(due) \in Nat /\ Len(due) >= 1 /\ due[1] = p + 1
  BY <1>1, HeadIsCmd, CommandTyped
<1>3. QueuedAtDue /\ QueuedAtDue' /\ Begun = 0
  BY QueuedIs, QueuedNext DEF Begun
<1>4. /\ Queued \in Seq(Request) /\ Len(Queued) = Len(due)
      /\ \A i \in 1 .. Len(due) : Queued[i] = Call(py_ptr[due[i]])
  <2>1. Len(due) - 0 = Len(due) /\ \A i \in 1 .. Len(due) : i + 0 = i
    BY <1>2
  <2>2. QED
    BY <1>3, <2>1 DEF QueuedAtDue
<1>5. /\ Queued' \in Seq(Request) /\ Len(Queued') = Len(due') - Begun'
      /\ \A i \in 1 .. Len(due') - Begun' : Queued'[i] = Call(py_ptr[due'[i + Begun']])
  BY <1>3 DEF QueuedAtDue, Request, Call
<1>6. /\ Len(Queued') = Len(due) - 1
      /\ \A i \in 1 .. Len(due) - 1 : Queued'[i] = Call(py_ptr[due[i + 1]])
  <2>1. CASE pc' = "do" /\ due' = Rest
    <3>1. /\ Begun' = 0 /\ Len(due') = Len(due) - 1
          /\ \A i \in 1 .. Len(due) - 1 : due'[i] = due[i + 1]
      BY <1>1, <1>2, <2>1, RestIs DEF Begun
    <3>2. Len(due') - 0 = Len(due) - 1 /\ \A i \in 1 .. Len(due) - 1 : i + 0 = i
      BY <1>2, <3>1
    <3>3. QED
      BY <1>5, <3>1, <3>2
  <2>2. CASE pc' = "cb" /\ due' = due
    <3>1. Begun' = 1
      BY <2>2 DEF Begun
    <3>2. QED
      BY <1>5, <2>2, <3>1
  <2>3. QED
    BY <2>1, <2>2
<1>7. Queued # <<>>
  BY <1>2, <1>4
<1>8. \A i \in 1 .. Len(Queued') : Queued'[i] = Queued[i + 1]
  <2> SUFFICES ASSUME NEW i \in 1 .. Len(due) - 1 PROVE Queued'[i] = Queued[i + 1]
    BY <1>6
  <2>1. i + 1 \in 1 .. Len(due)
    BY <1>2
  <2>2. QED
    BY <1>4, <1>6, <2>1
<1>9. Queued' = Tail(Queued) /\ Head(Queued) = Queued[1]
  BY <1>4, <1>5, <1>6, <1>7, <1>8, TailIs
<1>10. Head(Queued) = Call(Cmd)
  <2>1. 1 \in 1 .. Len(due)
    BY <1>2
  <2>2. QED
    BY <1>2, <1>4, <1>9, <2>1 DEF Cmd
<1>11. QED
  BY <1>7, <1>9, <1>10 DEF Calls!Begin

(* One request waits for each callable: those that remain when a callable  *)
(* was called are all but that one.                                        *)
LEMMA OneIsAnswered ==
  ASSUME Inv, NEW r \in asked
  PROVE  {s \in asked : s.extra # r.extra} = asked \ {r}
BY DEF Inv, WaitersApart

(* The refused command is called back; the calls to come do not move,      *)
(* whether its callable was freed or not.                                  *)
LEMMA RefusedCallsBack ==
  ASSUME Inv, refused
  PROVE  Calls!CallBack(Call(Cmd)) /\ Call(Cmd) \in Request
<1>1. /\ TypeOK /\ InOrder /\ Inv' /\ p < Len(py_ptr) /\ Sound(Cmd)
      /\ pc = "cb" /\ py_ptr' = py_ptr /\ Call(Cmd) \in asked
  BY RefusedInv DEF Inv, refused, Phases
<1>2. asked' = asked \ {Call(Cmd)} /\ Call(Cmd) \in Request
  <2>1. asked' = {r \in asked : r.extra # Call(Cmd).extra}
    BY DEF refused, Call
  <2>2. QED
    BY <1>1, <2>1, OneIsAnswered DEF TypeOK
<1>3. Queued' = Queued
  <2>1. CASE count[Cmd.cb] = 1
    <3>1. UNCHANGED <<pc, due>>
      BY <2>1 DEF refused
    <3>2. QED
      BY <1>1, <3>1, QueuedStays
  <2>2. CASE count[Cmd.cb] # 1
    <3>1. pc' = "do" /\ due' = Rest
      BY <1>1, <2>2 DEF refused, clean_up
    <3>2. QueuedAtDue /\ QueuedAtDue' /\ Begun = 1 /\ Begun' = 0
      BY <1>1, <3>1, QueuedIs, QueuedNext DEF Begun
    <3>3. /\ Len(due') = Len(due) - 1 /\ Len(due) \in Nat
          /\ \A i \in 1 .. Len(due) - 1 : due'[i] = due[i + 1]
      BY <1>1, <3>1, HeadIsCmd, RestIs, CommandTyped
    <3>4. /\ Queued \in Seq(Request) /\ Len(Queued) = Len(due) - 1
          /\ \A i \in 1 .. Len(due) - 1 : Queued[i] = Call(py_ptr[due[i + 1]])
      BY <3>2 DEF QueuedAtDue
    <3>5. Len(due') - 0 = Len(due) - 1 /\ \A i \in 1 .. Len(due) - 1 : i + 0 = i
      BY <3>3
    <3>6. /\ Queued' \in Seq(Request) /\ Len(Queued') = Len(due) - 1
          /\ \A i \in 1 .. Len(due) - 1 : Queued'[i] = Call(py_ptr[due'[i]])
      BY <1>1, <3>2, <3>5 DEF QueuedAtDue, Request, Call
    <3>7. \A i \in 1 .. Len(Queued) : Queued'[i] = Queued[i]
      BY <3>3, <3>4, <3>6
    <3>8. QED
      BY <3>4, <3>6, <3>7, SeqEqual
  <2>3. QED
    BY <2>1, <2>2
<1>4. QED
  BY <1>1, <1>2, <1>3 DEF Calls!CallBack

LEMMA StepRefines ==
  ASSUME Inv, [Next]_vars
  PROVE  [Calls!Next]_(Calls!vars)
<1>1. TypeOK /\ InOrder /\ Phases /\ Inv'
  BY NextInv DEF Inv
<1>2. ASSUME due' = due, asked' = asked, pc' = "cb" <=> pc = "cb",
             \A i \in 1 .. Len(due) : py_ptr'[due[i]] = py_ptr[due[i]]
      PROVE  [Calls!Next]_(Calls!vars)
  BY <1>1, <1>2, QueuedStays DEF Calls!vars
<1>3. CASE Script
  <2>1. CASE \/ \E o \in Peer, kept \in {0, 1} : GetPeer(o, kept)
             \/ \E c \in Callable : set_py_on_loop(c)
             \/ \E o \in Peer : Forget(o)
    <3>1. UNCHANGED <<py_ptr, pc, asked, due>>
      BY <2>1 DEF GetPeer, set_py_on_loop, Forget
    <3>2. QED
      BY <1>2, <3>1
  <2>2. ASSUME NEW f \in Function, NEW cb \in Callable \cup {None}, NEW bad \in 0 .. 4,
               NEW list \in Lists \cup {<<>>}, NEW peers, call(f, peers, list, cb, bad)
        PROVE  [Calls!Next]_(Calls!vars)
    <3>1. /\ Pushed(f) \in Functions /\ peers \in Seq(Peer) /\ list \in Seq(Peer)
          /\ bad \in Nat /\ Pushes(Pushed(f), peers, list, cb, bad)
      BY <1>1, <2>2, CallPushes
    <3>2. QED
      BY <3>1, PushAccepts
  <2>3. ASSUME NEW m, NEW cb \in Callable \cup {None}, NEW peers, method(m, peers, cb)
        PROVE  [Calls!Next]_(Calls!vars)
    <3>1. PICK f \in Functions, c \in Callable \cup {None}, bad \in Nat :
            peers \in Seq(Peer) /\ Pushes(f, peers, <<>>, c, bad)
      BY <1>1, <2>3, MethodPushes
    <3>2. <<>> \in Seq(Peer)
      BY EmptySeq
    <3>3. QED
      BY <3>1, <3>2, PushAccepts
  <2>4. QED
    BY <1>3, <2>1, <2>2, <2>3 DEF Script
<1>4. CASE Update \/ ScriptReturns \/ py_do_all \/ py_on_loop_returns \/ do_unknown \/ UNCHANGED vars
  <2>1. UNCHANGED <<py_ptr, asked, due>> /\ (pc' = pc \/ (pc # "cb" /\ pc' # "cb"))
    BY <1>4 DEF Update, ScriptReturns, py_do_all, py_on_loop_returns, do_unknown, Doing, vars
  <2>2. QED
    BY <1>2, <2>1
<1>5. CASE do_nothing \/ (do_command /\ ~Sound(Cmd))
  <2>1. ~Sound(Cmd) /\ pc = "do" /\ UNCHANGED <<py_ptr, pc>> /\ due' = due
    BY <1>5 DEF do_nothing, do_command, Doing, Sound, Parses, clean_up
  <2>2. asked' = asked
    BY <1>5 DEF do_nothing, do_command, Sound, Parses, Ask
  <2>3. QED
    BY <1>2, <2>1, <2>2
<1>6. CASE do_command /\ Sound(Cmd)
  <2>1. /\ pc = "do" /\ p < Len(py_ptr) /\ py_ptr' = py_ptr /\ pc' = "do" /\ due' = Rest
        /\ asked' = asked \cup {Call(Cmd)}
    BY <1>6 DEF do_command, Doing, Ask, clean_up, Sound
  <2>2. Calls!Begin
    BY <1>1, <1>6, <2>1, CommandBegins
  <2>3. QED
    BY <2>2 DEF Calls!Next
<1>7. CASE do_refused
  <2>1. /\ pc = "do" /\ p < Len(py_ptr) /\ py_ptr' = py_ptr /\ pc' = "cb" /\ due' = due
        /\ asked' = asked \cup {Call(Cmd)} /\ Sound(Cmd)
    BY <1>7 DEF do_refused, Doing, Ask, Sound, Parses
  <2>2. Calls!Begin
    BY <1>1, <2>1, CommandBegins
  <2>3. QED
    BY <2>2 DEF Calls!Next
<1>8. CASE refused
  <2>1. Calls!CallBack(Call(Cmd)) /\ Call(Cmd) \in Calls!Request
    BY <1>8, RefusedCallsBack DEF Request, Calls!Request
  <2>2. QED
    BY <2>1 DEF Calls!Next
<1>9. CASE py_do_all_end
  <2>1. UNCHANGED <<due, asked>> /\ pc' # "cb" /\ pc # "cb" /\ p = Len(py_ptr)
    BY <1>9 DEF py_do_all_end
  <2>2. \A i \in 1 .. Len(due) : FALSE
    <3>1. \A i \in 1 .. Len(due) : due[i] \in 1 .. Len(py_ptr) /\ due[i] > p
      BY <1>1, CommandTyped DEF InOrder
    <3>2. QED
      BY <1>1, <2>1, <3>1, CommandTyped
  <2>3. QED
    BY <1>2, <2>1, <2>2
<1>10. ASSUME NEW c \in Callable, py_cb(c)
       PROVE  [Calls!Next]_(Calls!vars)
  <2>1. PICK r \in asked : r.extra = c
    BY <1>10 DEF py_cb
  <2>2. /\ asked' = asked \ {r} /\ r \in Calls!Request
        /\ UNCHANGED <<py_ptr, due>> /\ pc # "cb" /\ pc' # "cb"
    BY <1>1, <1>10, <2>1, OneIsAnswered DEF py_cb, TypeOK, Request, Calls!Request
  <2>3. Queued' = Queued
    BY <1>1, <2>2, QueuedStays
  <2>4. Calls!CallBack(r)
    BY <2>2, <2>3 DEF Calls!CallBack
  <2>5. QED
    BY <2>2, <2>4 DEF Calls!Next
<1>11. QED
  BY <1>3, <1>4, <1>5, <1>6, <1>7, <1>8, <1>9, <1>10 DEF Next, Working, Stopped

(* The slots of py_ptr implement the sequence of calls of CallQueue        *)
(* (README-PY.md:3): every call whose arguments are right is begun once,   *)
(* in its turn, and called back once, whatever bad calls are between them, *)
(* and whatever callbacks and on_loop push in the middle of the turn.      *)
THEOREM Refines == Spec => CallsSpec
<1>1. Init => Calls!Init
  <2> SUFFICES ASSUME Init PROVE Calls!Init
    OBVIOUS
  <2>1. QueuedAtDue
    BY InitInv, QueuedIs
  <2>2. Len(due) = 0 /\ Begun = 0 /\ asked = {}
    BY DEF Init, Begun
  <2>3. Queued \in Seq(Request) /\ Len(Queued) = 0
    BY <2>1, <2>2 DEF QueuedAtDue
  <2>4. Queued = <<>>
    BY <2>3, EmptySeq
  <2>5. QED
    BY <2>2, <2>4 DEF Calls!Init
<1>2. Inv /\ [Next]_vars => [Calls!Next]_(Calls!vars)
  BY StepRefines
<1>3. QED
  BY <1>1, <1>2, InvCorrect, PTL DEF Spec, CallsSpec, Calls!Spec
=============================================================================
