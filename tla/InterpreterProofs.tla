-------------------------- MODULE InterpreterProofs -------------------------
(***************************************************************************)
(* Theorems of Interpreter for every bound on the tokens, every size of    *)
(* the array args and every set of counts: the types, the strings that are *)
(* freed, and that each handler of the table reads what was stored for it; *)
(* then that the loop over the pattern takes the lines that fit it and no  *)
(* others, that the arguments are the tokens of the line, and that a line  *)
(* is refused once or its handler called count times.                      *)
(***************************************************************************)
EXTENDS Interpreter, FiniteSetTheorems, SequenceTheorems, WellFoundedInduction, TLAPS

(* The elements of a pattern; those that take one token. *)
Operators == Typed \cup {"string", "string_end", "period"}
Element == [op : Operators, opt : BOOLEAN]
Single == {e \in Element : e.op # "period"}
Ways == {"none", "now", "query", "refused", "leak"}

(* An element followed by a period is a list. *)
List(q, k) == k + 1 \in DOMAIN q /\ q[k + 1].op = "period"

(* What can be stored for an element. *)
Value(e) == IF e.opt /\ e.op # "string_end"
              THEN {Found(MemberOf(e.op)), Absent(MemberOf(e.op))}
              ELSE {Found(MemberOf(e.op))}

(* The pattern of a row: a period is behind a typed element, and only the  *)
(* rest of the line is behind a period.                                    *)
Ordered(q) ==
  /\ \A k \in DOMAIN q : q[k].op = "period" =>
       k > 1 /\ (k + 1 \in DOMAIN q => q[k + 1].op = "string_end")
  /\ \A k \in DOMAIN q : List(q, k) => q[k].op \in Typed

RowTyped(c) == c.args \in Seq(Element) /\ Ordered(c.args) /\ c.ways \subseteq Ways

(* What can be stored for each element is what the handler reads there. *)
ReadsFit(c) ==
  LET q == c.args
      r == c.reads
  IN  /\ Len(r.head) \in Nat
      /\ r.more = {} => r.least = Len(r.head)
      /\ r.last = {}
      /\ \A k \in DOMAIN q : q[k].op # "period" =>
           IF List(q, k) THEN /\ k > Len(r.head) /\ k + 1 = Len(q)
                              /\ Found(MemberOf(q[k].op)) \in r.more
           ELSE IF k <= Len(r.head) THEN Value(q[k]) \subseteq r.head[k]
           ELSE r.more = {} \/ Value(q[k]) \subseteq r.more

(* Rows without a list, by the number of their elements. *)
LEMMA Row0 ==
  ASSUME NEW w \in SUBSET Ways
  PROVE  RowTyped(Cmd(<<>>, Reads(<<>>), w)) /\ ReadsFit(Cmd(<<>>, Reads(<<>>), w))
BY DEF RowTyped, ReadsFit, Ordered, List, Cmd, Reads

LEMMA Plain ==
  ASSUME NEW q \in Seq(Single), NEW r, NEW w \in SUBSET Ways,
         Len(r.head) \in Nat, r.more = {} => r.least = Len(r.head), r.last = {},
         \A k \in 1 .. Len(q) : IF k <= Len(r.head) THEN Value(q[k]) \subseteq r.head[k]
                                ELSE r.more = {} \/ Value(q[k]) \subseteq r.more
  PROVE  RowTyped(Cmd(q, r, w)) /\ ReadsFit(Cmd(q, r, w))
<1>1. DOMAIN q = 1 .. Len(q) /\ \A k \in DOMAIN q : q[k] \in Element /\ q[k].op # "period"
  BY ElementOfSeq, LenProperties DEF Single
<1>2. q \in Seq(Element)
  BY SeqMonotonic DEF Single
<1>3. PICK c : c = Cmd(q, r, w)
  OBVIOUS
<1>4. c.args = q /\ c.reads = r /\ c.ways = w
  BY <1>3 DEF Cmd
<1>5. \A k : ~List(q, k)
  BY <1>1 DEF List
<1>6. RowTyped(c)
  BY <1>1, <1>2, <1>4, <1>5 DEF RowTyped, Ordered
<1>7. ReadsFit(c)
  BY <1>1, <1>4, <1>5 DEF ReadsFit
<1>8. QED
  BY <1>3, <1>6, <1>7

LEMMA Tuples ==
  ASSUME NEW X, NEW a \in X, NEW b \in X, NEW c \in X, NEW d \in X, NEW e \in X, NEW f \in X
  PROVE  /\ <<a>> \in Seq(X) /\ <<a, b>> \in Seq(X) /\ <<a, b, c>> \in Seq(X)
         /\ <<a, b, c, d>> \in Seq(X) /\ <<a, b, c, d, e, f>> \in Seq(X)
OBVIOUS

LEMMA Row1 ==
  ASSUME NEW a \in Single, NEW x, NEW w \in SUBSET Ways, Value(a) \subseteq x
  PROVE  RowTyped(Cmd(<<a>>, Reads(<<x>>), w)) /\ ReadsFit(Cmd(<<a>>, Reads(<<x>>), w))
<1>1. <<a>> \in Seq(Single)
  BY Tuples
<1>2. PICK q \in Seq(Single) : q = <<a>>
  BY <1>1
<1>3. PICK r : r = Reads(<<x>>)
  OBVIOUS
<1>4. Len(q) = 1 /\ q[1] = a /\ Len(r.head) = 1 /\ r.head[1] = x /\ r.least = 1 /\ r.last = {} /\ Len(r.head) \in Nat
  BY <1>2, <1>3 DEF Reads
<1>5. \A k \in 1 .. Len(q) : k <= Len(r.head) /\ Value(q[k]) \subseteq r.head[k]
  BY <1>4
<1>6. QED
  BY <1>2, <1>3, <1>4, <1>5, Plain

LEMMA Row2 ==
  ASSUME NEW a \in Single, NEW b \in Single, NEW x, NEW y, NEW w \in SUBSET Ways,
         Value(a) \subseteq x, Value(b) \subseteq y
  PROVE  RowTyped(Cmd(<<a, b>>, Reads(<<x, y>>), w)) /\ ReadsFit(Cmd(<<a, b>>, Reads(<<x, y>>), w))
<1>1. <<a, b>> \in Seq(Single)
  BY Tuples
<1>2. PICK q \in Seq(Single) : q = <<a, b>>
  BY <1>1
<1>3. PICK r : r = Reads(<<x, y>>)
  OBVIOUS
<1>4. /\ Len(q) = 2 /\ q[1] = a /\ q[2] = b
      /\ Len(r.head) = 2 /\ r.head[1] = x /\ r.head[2] = y /\ r.least = 2 /\ r.last = {}
      /\ Len(r.head) \in Nat
  BY <1>2, <1>3 DEF Reads
<1>5. \A k \in 1 .. Len(q) : k <= Len(r.head) /\ Value(q[k]) \subseteq r.head[k]
  <2>1. \A k \in 1 .. 2 : k = 1 \/ k = 2
    OBVIOUS
  <2>2. QED
    BY <1>4, <2>1
<1>6. QED
  BY <1>2, <1>3, <1>4, <1>5, Plain

LEMMA Row3 ==
  ASSUME NEW a \in Single, NEW b \in Single, NEW c \in Single, NEW x, NEW y, NEW z,
         NEW w \in SUBSET Ways,
         Value(a) \subseteq x, Value(b) \subseteq y, Value(c) \subseteq z
  PROVE  /\ RowTyped(Cmd(<<a, b, c>>, Reads(<<x, y, z>>), w))
         /\ ReadsFit(Cmd(<<a, b, c>>, Reads(<<x, y, z>>), w))
<1>1. <<a, b, c>> \in Seq(Single)
  BY Tuples
<1>2. PICK q \in Seq(Single) : q = <<a, b, c>>
  BY <1>1
<1>3. PICK r : r = Reads(<<x, y, z>>)
  OBVIOUS
<1>4. /\ Len(q) = 3 /\ q[1] = a /\ q[2] = b /\ q[3] = c /\ Len(r.head) = 3
      /\ r.head[1] = x /\ r.head[2] = y /\ r.head[3] = z /\ r.least = 3 /\ r.last = {}
      /\ Len(r.head) \in Nat
  BY <1>2, <1>3 DEF Reads
<1>5. \A k \in 1 .. Len(q) : k <= Len(r.head) /\ Value(q[k]) \subseteq r.head[k]
  <2>1. \A k \in 1 .. 3 : k = 1 \/ k = 2 \/ k = 3
    OBVIOUS
  <2>2. QED
    BY <1>4, <2>1
<1>6. QED
  BY <1>2, <1>3, <1>4, <1>5, Plain

LEMMA Row4 ==
  ASSUME NEW a \in Single, NEW b \in Single, NEW c \in Single, NEW d \in Single,
         NEW x, NEW y, NEW z, NEW u, NEW w \in SUBSET Ways,
         Value(a) \subseteq x, Value(b) \subseteq y, Value(c) \subseteq z, Value(d) \subseteq u
  PROVE  /\ RowTyped(Cmd(<<a, b, c, d>>, Reads(<<x, y, z, u>>), w))
         /\ ReadsFit(Cmd(<<a, b, c, d>>, Reads(<<x, y, z, u>>), w))
<1>1. <<a, b, c, d>> \in Seq(Single)
  BY Tuples
<1>2. PICK q \in Seq(Single) : q = <<a, b, c, d>>
  BY <1>1
<1>3. PICK r : r = Reads(<<x, y, z, u>>)
  OBVIOUS
<1>4. /\ Len(q) = 4 /\ q[1] = a /\ q[2] = b /\ q[3] = c /\ q[4] = d /\ Len(r.head) = 4
      /\ r.head[1] = x /\ r.head[2] = y /\ r.head[3] = z /\ r.head[4] = u
      /\ r.least = 4 /\ r.last = {}
      /\ Len(r.head) \in Nat
  BY <1>2, <1>3 DEF Reads
<1>5. \A k \in 1 .. Len(q) : k <= Len(r.head) /\ Value(q[k]) \subseteq r.head[k]
  <2>1. \A k \in 1 .. 4 : k = 1 \/ k = 2 \/ k = 3 \/ k = 4
    OBVIOUS
  <2>2. QED
    BY <1>4, <2>1
<1>6. QED
  BY <1>2, <1>3, <1>4, <1>5, Plain

(* The elements, and what can be stored for them. *)
LEMMA Elements ==
  /\ Peer \in Single /\ Value(Peer) = P /\ Number \in Single /\ Value(Number) = N
  /\ Double \in Single /\ Value(Double) = D /\ Msg \in Single /\ Value(Msg) = M
  /\ Text \in Single /\ Value(Text) = S /\ Rest \in Single /\ Value(Rest) = S
  /\ Opt("string") \in Single /\ Value(Opt("string")) = S0
  /\ Opt("number") \in Single /\ Value(Opt("number")) = N0
  /\ Opt("peer") \in Single /\ Value(Opt("peer")) = P0
  /\ Opt("string_end") \in Single /\ Value(Opt("string_end")) = S
<1> USE DEF Value, Single, Element, Operators, Typed, MemberOf, Found, Absent,
            P, N, D, M, S, P0, N0, S0
<1>1. Peer \in Single /\ Value(Peer) = P /\ Number \in Single /\ Value(Number) = N
  BY DEF Peer, Number, Arg
<1>2. Double \in Single /\ Value(Double) = D /\ Msg \in Single /\ Value(Msg) = M
  BY DEF Double, Msg, Arg
<1>3. Text \in Single /\ Value(Text) = S /\ Rest \in Single /\ Value(Rest) = S
  BY DEF Text, Rest, Arg
<1>4. Opt("string") \in Single /\ Value(Opt("string")) = S0
  BY DEF Opt
<1>5. Opt("number") \in Single /\ Value(Opt("number")) = N0
  BY DEF Opt
<1>6. Opt("peer") \in Single /\ Value(Opt("peer")) = P0
  BY DEF Opt
<1>7. Opt("string_end") \in Single /\ Value(Opt("string_end")) = S
  BY DEF Opt
<1>8. QED
  BY <1>1, <1>2, <1>3, <1>4, <1>5, <1>6, <1>7

LEMMA Caption ==
  ASSUME NEW a \in Single, NEW b \in Single, NEW c \in Single, NEW x, NEW y, NEW z,
         NEW w \in SUBSET Ways, Value(a) \subseteq x, Value(b) \subseteq y, Value(c) \subseteq z
  PROVE  /\ RowTyped(Cmd(<<a, b>>, ReadsList(<<x, y>>, z, 2), w))
         /\ ReadsFit(Cmd(<<a, b>>, ReadsList(<<x, y>>, z, 2), w))
         /\ RowTyped(Cmd(<<a, b, c>>, ReadsList(<<x, y>>, z, 2), w))
         /\ ReadsFit(Cmd(<<a, b, c>>, ReadsList(<<x, y>>, z, 2), w))
<1>1. PICK r : r = ReadsList(<<x, y>>, z, 2)
  OBVIOUS
<1>2. /\ Len(r.head) = 2 /\ r.head[1] = x /\ r.head[2] = y /\ r.more = z
      /\ r.least = 2 /\ r.last = {}
      /\ Len(r.head) \in Nat
  BY <1>1 DEF ReadsList
<1>3. <<a, b>> \in Seq(Single) /\ <<a, b, c>> \in Seq(Single)
  BY Tuples
<1>4. ASSUME NEW q \in Seq(Single), q = <<a, b>> \/ q = <<a, b, c>>
      PROVE  RowTyped(Cmd(q, r, w)) /\ ReadsFit(Cmd(q, r, w))
  <2>1. /\ Len(q) = 2 \/ Len(q) = 3
        /\ q[1] = a /\ q[2] = b /\ (Len(q) = 3 => q[3] = c)
    <3>1. CASE q = <<a, b>>
      BY <3>1
    <3>2. CASE q = <<a, b, c>>
      BY <3>2
    <3>3. QED
      BY <1>4, <3>1, <3>2
  <2>2. \A k \in 1 .. Len(q) : k = 1 \/ k = 2 \/ (k = 3 /\ Len(q) = 3)
    <3>1. /\ \A k \in 1 .. 2 : k = 1 \/ k = 2
          /\ \A k \in 1 .. 3 : k = 1 \/ k = 2 \/ k = 3
      OBVIOUS
    <3>2. QED
      BY <2>1, <3>1
  <2>3. \A k \in 1 .. Len(q) : IF k <= Len(r.head) THEN Value(q[k]) \subseteq r.head[k]
                               ELSE Value(q[k]) \subseteq r.more
    BY <1>2, <2>1, <2>2
  <2>4. QED
    BY <1>2, <2>3, Plain
<1>5. QED
  BY <1>1, <1>3, <1>4

(* A list at place n, the last but one of the pattern. *)
LEMMA Listed ==
  ASSUME NEW q \in Seq(Element), NEW r, NEW w \in SUBSET Ways, NEW n \in Nat,
         Len(q) = n + 1, n >= 1, Len(r.head) \in 0 .. n - 1, r.more # {}, r.last = {},
         q[n + 1].op = "period", q[n].op \in Typed, Found(MemberOf(q[n].op)) \in r.more,
         \A k \in 1 .. n - 1 : /\ q[k].op # "period" /\ k <= Len(r.head)
                               /\ Value(q[k]) \subseteq r.head[k]
  PROVE  RowTyped(Cmd(q, r, w)) /\ ReadsFit(Cmd(q, r, w))
<1>1. DOMAIN q = 1 .. n + 1
  BY LenProperties
<1>2. q[n].op # "period"
  BY DEF Typed
<1>3. \A k \in DOMAIN q : (q[k].op = "period" <=> k = n + 1) /\ (List(q, k) <=> k = n)
  <2>1. \A k \in 1 .. n + 1 : k \in 1 .. n - 1 \/ k = n \/ k = n + 1
    OBVIOUS
  <2>2. \A k \in 1 .. n + 1 : q[k].op = "period" <=> k = n + 1
    BY <1>2, <2>1
  <2>3. \A k \in 1 .. n + 1 : k + 1 \in 1 .. n + 1 /\ k + 1 = n + 1 <=> k = n
    OBVIOUS
  <2>4. QED
    BY <1>1, <2>2, <2>3 DEF List
<1>4. PICK c : c = Cmd(q, r, w)
  OBVIOUS
<1>5. c.args = q /\ c.reads = r /\ c.ways = w
  BY <1>4 DEF Cmd
<1>6. RowTyped(c)
  <2>1. \A k \in DOMAIN q : q[k].op = "period" => k > 1 /\ k + 1 \notin DOMAIN q
    BY <1>1, <1>3
  <2>2. \A k \in DOMAIN q : List(q, k) => q[k].op \in Typed
    BY <1>3
  <2>3. QED
    BY <1>5, <2>1, <2>2 DEF RowTyped, Ordered
<1>7. ReadsFit(c)
  <2>1. ASSUME NEW k \in DOMAIN q, q[k].op # "period"
        PROVE  IF List(q, k) THEN /\ k > Len(r.head) /\ k + 1 = Len(q)
                                  /\ Found(MemberOf(q[k].op)) \in r.more
               ELSE k <= Len(r.head) /\ Value(q[k]) \subseteq r.head[k]
    <3>1. k \in 1 .. n - 1 \/ k = n
      BY <1>1, <1>3, <2>1
    <3>2. CASE k = n
      BY <1>3, <3>2
    <3>3. CASE k \in 1 .. n - 1
      BY <1>3, <3>3
    <3>4. QED
      BY <3>1, <3>2, <3>3
  <2>2. QED
    BY <1>5, <2>1 DEF ReadsFit
<1>8. QED
  BY <1>4, <1>6, <1>7

LEMMA Row6 ==
  ASSUME NEW a \in Single, NEW b \in Single, NEW c \in Single, NEW x, NEW y, NEW z,
         NEW w \in SUBSET Ways,
         Value(a) \subseteq x, Value(b) \subseteq y, Value(c) \subseteq z
  PROVE  /\ RowTyped(Cmd(<<a, b, b, b, b, c>>, Reads(<<x, y, y, y, y, z>>), w))
         /\ ReadsFit(Cmd(<<a, b, b, b, b, c>>, Reads(<<x, y, y, y, y, z>>), w))
<1>1. <<a, b, b, b, b, c>> \in Seq(Single)
  BY Tuples
<1>2. PICK q \in Seq(Single) : q = <<a, b, b, b, b, c>>
  BY <1>1
<1>3. PICK r : r = Reads(<<x, y, y, y, y, z>>)
  OBVIOUS
<1>4. /\ Len(q) = 6 /\ q[1] = a /\ q[2] = b /\ q[3] = b /\ q[4] = b /\ q[5] = b /\ q[6] = c
      /\ Len(r.head) = 6 /\ r.head[1] = x /\ r.head[2] = y /\ r.head[3] = y
      /\ r.head[4] = y /\ r.head[5] = y /\ r.head[6] = z /\ r.least = 6 /\ r.last = {}
      /\ Len(r.head) \in Nat
  BY <1>2, <1>3 DEF Reads
<1>5. \A k \in 1 .. Len(q) : k <= Len(r.head) /\ Value(q[k]) \subseteq r.head[k]
  <2>1. \A k \in 1 .. 6 : k = 1 \/ k = 2 \/ k = 3 \/ k = 4 \/ k = 5 \/ k = 6
    OBVIOUS
  <2>2. QED
    BY <1>4, <2>1
<1>6. QED
  BY <1>2, <1>3, <1>4, <1>5, Plain

LEMMA Periods ==
  /\ Period \in Element /\ Period.op = "period" /\ Single \subseteq Element
  /\ Peer.op = "peer" /\ Msg.op = "msg_id" /\ Opt("peer").op = "peer" /\ Rest.op = "string_end"
  /\ \A e \in Single : e.op # "period"
  /\ {"peer", "msg_id"} \subseteq Typed
  /\ MemberOf("peer") = "peer" /\ MemberOf("msg_id") = "msg_id"
BY DEF Period, Element, Operators, Single, Peer, Msg, Opt, Rest, Arg, Typed, MemberOf

(* The rows with a list. *)
LEMMA Lists ==
  /\ RowTyped(Replying["fwd"]) /\ ReadsFit(Replying["fwd"])
  /\ RowTyped(Chats["create_group_chat"]) /\ ReadsFit(Chats["create_group_chat"])
  /\ RowTyped(Channels["create_channel"]) /\ ReadsFit(Channels["create_channel"])
<1> USE Elements, Periods
<1>0. Query \in SUBSET Ways
  BY DEF Query, Ways
<1>1. RowTyped(Replying["fwd"]) /\ ReadsFit(Replying["fwd"])
  <2>1. <<Peer, Msg, Period>> \in Seq(Element)
    BY Tuples
  <2>2. PICK q \in Seq(Element) : q = <<Peer, Msg, Period>>
    BY <2>1
  <2>3. PICK r : r = ReadsList(<<P>>, M, 2)
    OBVIOUS
  <2>4. /\ Len(q) = 3 /\ q[1] = Peer /\ q[2] = Msg /\ q[3] = Period
        /\ Len(r.head) = 1 /\ r.head[1] = P /\ r.more = M /\ r.last = {}
    BY <2>2, <2>3 DEF ReadsList
  <2>5. Found("msg_id") \in r.more /\ r.more # {}
    BY <2>4 DEF M
  <2>6. \A k \in 1 .. 2 - 1 : q[k].op # "period" /\ k <= Len(r.head) /\ Value(q[k]) \subseteq r.head[k]
    <3>1. \A k \in 1 .. 2 - 1 : k = 1
      OBVIOUS
    <3>2. QED
      BY <2>4, <3>1
  <2>7. RowTyped(Cmd(q, r, Query)) /\ ReadsFit(Cmd(q, r, Query))
    <3>1. PICK n \in Nat : n = 2
      OBVIOUS
    <3>2. /\ Len(q) = n + 1 /\ n >= 1 /\ Len(r.head) \in 0 .. n - 1
          /\ q[n + 1].op = "period" /\ q[n].op \in Typed
          /\ Found(MemberOf(q[n].op)) \in r.more
      BY <2>4, <2>5, <3>1
    <3>3. QED
      BY <1>0, <2>4, <2>5, <2>6, <3>1, <3>2, Listed
  <2>8. QED
    BY <2>2, <2>3, <2>7 DEF Replying
<1>2. RowTyped(Chats["create_group_chat"]) /\ ReadsFit(Chats["create_group_chat"])
  <2>1. <<Text, Peer, Period>> \in Seq(Element)
    BY Tuples
  <2>2. PICK q \in Seq(Element) : q = <<Text, Peer, Period>>
    BY <2>1
  <2>3. PICK r : r = ReadsList(<<S>>, P, 1)
    OBVIOUS
  <2>4. /\ Len(q) = 3 /\ q[1] = Text /\ q[2] = Peer /\ q[3] = Period
        /\ Len(r.head) = 1 /\ r.head[1] = S /\ r.more = P /\ r.last = {}
    BY <2>2, <2>3 DEF ReadsList
  <2>5. Found("peer") \in r.more /\ r.more # {}
    BY <2>4 DEF P
  <2>6. \A k \in 1 .. 2 - 1 : q[k].op # "period" /\ k <= Len(r.head) /\ Value(q[k]) \subseteq r.head[k]
    <3>1. \A k \in 1 .. 2 - 1 : k = 1
      OBVIOUS
    <3>2. QED
      BY <2>4, <3>1
  <2>7. RowTyped(Cmd(q, r, Query)) /\ ReadsFit(Cmd(q, r, Query))
    <3>1. PICK n \in Nat : n = 2
      OBVIOUS
    <3>2. /\ Len(q) = n + 1 /\ n >= 1 /\ Len(r.head) \in 0 .. n - 1
          /\ q[n + 1].op = "period" /\ q[n].op \in Typed
          /\ Found(MemberOf(q[n].op)) \in r.more
      BY <2>4, <2>5, <3>1
    <3>3. QED
      BY <1>0, <2>4, <2>5, <2>6, <3>1, <3>2, Listed
  <2>8. QED
    BY <2>2, <2>3, <2>7 DEF Chats
<1>3. RowTyped(Channels["create_channel"]) /\ ReadsFit(Channels["create_channel"])
  <2>1. <<Text, Text, Opt("peer"), Period>> \in Seq(Element)
    BY Tuples
  <2>2. PICK q \in Seq(Element) : q = <<Text, Text, Opt("peer"), Period>>
    BY <2>1
  <2>3. PICK r : r = ReadsList(<<S, S>>, P, 2)
    OBVIOUS
  <2>4. /\ Len(q) = 4 /\ q[1] = Text /\ q[2] = Text /\ q[3] = Opt("peer") /\ q[4] = Period
        /\ Len(r.head) = 2 /\ r.head[1] = S /\ r.head[2] = S /\ r.more = P /\ r.last = {}
    BY <2>2, <2>3 DEF ReadsList
  <2>5. Found("peer") \in r.more /\ r.more # {}
    BY <2>4 DEF P
  <2>6. \A k \in 1 .. 3 - 1 : q[k].op # "period" /\ k <= Len(r.head) /\ Value(q[k]) \subseteq r.head[k]
    <3>1. \A k \in 1 .. 3 - 1 : k = 1 \/ k = 2
      OBVIOUS
    <3>2. QED
      BY <2>4, <3>1
  <2>7. RowTyped(Cmd(q, r, Query)) /\ ReadsFit(Cmd(q, r, Query))
    <3>1. PICK n \in Nat : n = 3
      OBVIOUS
    <3>2. /\ Len(q) = n + 1 /\ n >= 1 /\ Len(r.head) \in 0 .. n - 1
          /\ q[n + 1].op = "period" /\ q[n].op \in Typed
          /\ Found(MemberOf(q[n].op)) \in r.more
      BY <2>4, <2>5, <3>1
    <3>3. QED
      BY <1>0, <2>4, <2>5, <2>6, <3>1, <3>2, Listed
  <2>8. QED
    BY <2>2, <2>3, <2>7 DEF Channels
<1>4. QED
  BY <1>1, <1>2, <1>3

(* A broadcast, whose list is behind no other element and before a text. *)
Broadcast(c) ==
  /\ Len(c.args) = 3 /\ c.args[1] = Peer /\ c.args[2] = Period /\ c.args[3] = Rest
  /\ c.reads = [head |-> <<>>, more |-> P, last |-> S, least |-> 1]

(* reply_audio, which runs the handler of send_audio, and broadcast. *)
LEMMA TwoExceptions ==
  /\ RowTyped(Replying["reply_audio"])
  /\ RowTyped(Replying["broadcast"]) /\ Broadcast(Replying["broadcast"])
<1> USE Elements, Periods
<1>0. Query \in SUBSET Ways
  BY DEF Query, Ways
<1>1. RowTyped(Replying["reply_audio"])
  <2>1. RowTyped(Cmd(<<Msg, Text>>, Reads(<<M, S>>), Query))
    BY <1>0, Row2
  <2>2. QED
    BY <2>1 DEF Replying, RowTyped, Cmd
<1>2. RowTyped(Replying["broadcast"]) /\ Broadcast(Replying["broadcast"])
  <2>1. <<Peer, Period, Rest>> \in Seq(Element)
    BY Tuples
  <2>2. PICK q \in Seq(Element) : q = <<Peer, Period, Rest>>
    BY <2>1
  <2>3. Len(q) = 3 /\ q[1] = Peer /\ q[2] = Period /\ q[3] = Rest
    BY <2>2
  <2>4. \A k \in DOMAIN q : k = 1 \/ k = 2 \/ k = 3
    BY <2>3
  <2>5. Ordered(q)
    <3>1. \A k \in DOMAIN q : q[k].op = "period" => k = 2
      BY <2>3, <2>4
    <3>2. 2 > 1 /\ 2 + 1 = 3
      OBVIOUS
    <3>3. \A k \in DOMAIN q : List(q, k) => k = 1
      <4>1. \A k \in DOMAIN q : k + 1 \in DOMAIN q /\ q[k + 1].op = "period" => k + 1 = 2
        BY <3>1
      <4>2. QED
        BY <2>4, <4>1 DEF List
    <3>4. QED
      BY <2>3, <3>1, <3>2, <3>3 DEF Ordered
  <2>6. PICK c : c = Replying["broadcast"]
    OBVIOUS
  <2>7. /\ c.args = q /\ c.ways = Query
        /\ c.reads = [head |-> <<>>, more |-> P, last |-> S, least |-> 1]
    BY <2>2, <2>6 DEF Replying, Cmd
  <2>8. QED
    BY <1>0, <2>3, <2>5, <2>6, <2>7 DEF RowTyped, Broadcast
<1>3. QED
  BY <1>1, <1>2

LEMMA Answers ==
  /\ Query \in SUBSET Ways /\ Now \in SUBSET Ways /\ Quiet \in SUBSET Ways
  /\ {"query", "refused"} \in SUBSET Ways /\ {"query", "now"} \in SUBSET Ways
  /\ {"query", "none"} \in SUBSET Ways /\ {"query", "now", "none", "leak"} \in SUBSET Ways
BY DEF Query, Now, Quiet, Ways

(* The table, row by row. *)
Fit(c) == RowTyped(c) /\ ReadsFit(c)

Good(k, c) == /\ k # "none" /\ RowTyped(c)
              /\ k \notin {"reply_audio", "broadcast"} => ReadsFit(c)
              /\ k = "broadcast" => Broadcast(c)

LEMMA InformationGood == \A k \in DOMAIN Information : Good(k, Information[k])
<1>1. Fit(Information["help"])
  BY Answers, Elements, Row1 DEF Information, Fit
<1>2. Fit(Information["terms"])
  BY Answers, Elements, Row0 DEF Information, Fit
<1>3. Fit(Information["stats"])
  BY Answers, Elements, Row0 DEF Information, Fit
<1>4. DOMAIN Information = {"help", "terms", "stats"}
  BY DEF Information
<1>5. QED
  BY <1>1, <1>2, <1>3, <1>4
     DEF Fit, Good

LEMMA ControlGood == \A k \in DOMAIN Control : Good(k, Control[k])
<1>1. Fit(Control["quit"])
  BY Answers, Elements, Row0 DEF Control, Fit
<1>2. Fit(Control["set"])
  BY Answers, Elements, Row2 DEF Control, Fit
<1>3. Fit(Control["chat_with_peer"])
  BY Answers, Elements, Row1 DEF Control, Fit
<1>4. DOMAIN Control = {"quit", "set", "chat_with_peer"}
  BY DEF Control
<1>5. QED
  BY <1>1, <1>2, <1>3, <1>4
     DEF Fit, Good

LEMMA SendingGood == \A k \in DOMAIN Sending : Good(k, Sending[k])
<1>1. Fit(Sending["msg"])
  BY Answers, Elements, Row2 DEF Sending, Fit
<1>2. Fit(Sending["reply"])
  BY Answers, Elements, Row2 DEF Sending, Fit
<1>3. Fit(Sending["msg_kbd"])
  BY Answers, Elements, Row3 DEF Sending, Fit
<1>4. Fit(Sending["send"])
  BY Answers, Elements, Caption DEF Sending, Fit
<1>5. Fit(Sending["post"])
  BY Answers, Elements, Caption DEF Sending, Fit
<1>6. DOMAIN Sending = {"msg", "msg_kbd", "reply", "send", "post"}
  BY DEF Sending
<1>7. QED
  BY <1>1, <1>2, <1>3, <1>4, <1>5, <1>6
     DEF Fit, Good

LEMMA ReplyingGood == \A k \in DOMAIN Replying : Good(k, Replying[k])
<1>1. Fit(Replying["reply_photo"])
  BY Answers, Elements, Caption DEF Replying, Fit
<1>2. Fit(Replying["reply_file"])
  BY Answers, Elements, Caption DEF Replying, Fit
<1>3. Fit(Replying["fwd"])
  BY Lists DEF Fit
<1>4. Fit(Replying["fwd_media"])
  BY Answers, Elements, Row2 DEF Replying, Fit
<1>5. Fit(Replying["send_contact"])
  BY Answers, Elements, Row4 DEF Replying, Fit
<1>6. Fit(Replying["reply_contact"])
  BY Answers, Elements, Row4 DEF Replying, Fit
<1>7. Fit(Replying["send_location"])
  BY Answers, Elements, Row3 DEF Replying, Fit
<1>8. Fit(Replying["reply_location"])
  BY Answers, Elements, Row3 DEF Replying, Fit
<1>9. DOMAIN Replying = {"reply_photo", "reply_file", "reply_audio", "fwd",
                         "fwd_media", "send_contact", "reply_contact",
                         "send_location", "reply_location", "broadcast"}
  BY DEF Replying
<1>10. QED
  BY <1>1, <1>2, <1>3, <1>4, <1>5, <1>6, <1>7, <1>8, <1>9, TwoExceptions
     DEF Fit, Good

LEMMA ProfileGood == \A k \in DOMAIN Profile : Good(k, Profile[k])
<1>1. Fit(Profile["set_password"])
  BY Answers, Elements, Row1 DEF Profile, Fit
<1>2. Fit(Profile["set_profile_photo"])
  BY Answers, Elements, Row1 DEF Profile, Fit
<1>3. Fit(Profile["set_username"])
  BY Answers, Elements, Row1 DEF Profile, Fit
<1>4. Fit(Profile["get_self"])
  BY Answers, Elements, Row0 DEF Profile, Fit
<1>5. Fit(Profile["set_profile_name"])
  BY Answers, Elements, Row2 DEF Profile, Fit
<1>6. DOMAIN Profile = {"set_password", "get_self", "set_profile_photo",
                        "set_profile_name", "set_username"}
  BY DEF Profile
<1>7. QED
  BY <1>1, <1>2, <1>3, <1>4, <1>5, <1>6
     DEF Fit, Good

LEMMA ChatsGood == \A k \in DOMAIN Chats : Good(k, Chats[k])
<1>1. Fit(Chats["rename_chat"])
  BY Answers, Elements, Row2 DEF Chats, Fit
<1>2. Fit(Chats["chat_del_user"])
  BY Answers, Elements, Row2 DEF Chats, Fit
<1>3. Fit(Chats["chat_info"])
  BY Answers, Elements, Row1 DEF Chats, Fit
<1>4. Fit(Chats["import_chat_link"])
  BY Answers, Elements, Row1 DEF Chats, Fit
<1>5. Fit(Chats["chat_add_user"])
  BY Answers, Elements, Row3 DEF Chats, Fit
<1>6. Fit(Chats["channel_get_members"])
  BY Answers, Elements, Row3 DEF Chats, Fit
<1>7. Fit(Chats["create_group_chat"])
  BY Lists DEF Fit
<1>8. DOMAIN Chats = {"rename_chat", "chat_info", "chat_add_user", "chat_del_user",
                      "create_group_chat", "import_chat_link",
                      "channel_get_members"}
  BY DEF Chats
<1>9. QED
  BY <1>1, <1>2, <1>3, <1>4, <1>5, <1>6, <1>7, <1>8
     DEF Fit, Good

LEMMA ContactsGood == \A k \in DOMAIN Contacts : Good(k, Contacts[k])
<1>1. Fit(Contacts["user_info"])
  BY Answers, Elements, Row1 DEF Contacts, Fit
<1>2. Fit(Contacts["import_card"])
  BY Answers, Elements, Row1 DEF Contacts, Fit
<1>3. Fit(Contacts["add_contact"])
  BY Answers, Elements, Row3 DEF Contacts, Fit
<1>4. Fit(Contacts["rename_contact"])
  BY Answers, Elements, Row3 DEF Contacts, Fit
<1>5. DOMAIN Contacts = {"user_info", "add_contact", "rename_contact",
                         "import_card"}
  BY DEF Contacts
<1>6. QED
  BY <1>1, <1>2, <1>3, <1>4, <1>5
     DEF Fit, Good

LEMMA SecretChatsGood == \A k \in DOMAIN SecretChats : Good(k, SecretChats[k])
<1>1. Fit(SecretChats["accept_secret_chat"])
  BY Answers, Elements, Row1 DEF SecretChats, Fit
<1>2. Fit(SecretChats["visualize_key"])
  BY Answers, Elements, Row1 DEF SecretChats, Fit
<1>3. Fit(SecretChats["create_secret_chat"])
  BY Answers, Elements, Row1 DEF SecretChats, Fit
<1>4. Fit(SecretChats["set_ttl"])
  BY Answers, Elements, Row2 DEF SecretChats, Fit
<1>5. DOMAIN SecretChats = {"accept_secret_chat", "set_ttl", "visualize_key",
                            "create_secret_chat"}
  BY DEF SecretChats
<1>6. QED
  BY <1>1, <1>2, <1>3, <1>4, <1>5
     DEF Fit, Good

LEMMA ChannelsGood == \A k \in DOMAIN Channels : Good(k, Channels[k])
<1>1. Fit(Channels["rename_channel"])
  BY Answers, Elements, Row2 DEF Channels, Fit
<1>2. Fit(Channels["channel_set_about"])
  BY Answers, Elements, Row2 DEF Channels, Fit
<1>3. Fit(Channels["channel_set_admin"])
  BY Answers, Elements, Row3 DEF Channels, Fit
<1>4. Fit(Channels["create_channel"])
  BY Lists DEF Fit
<1>5. Fit(Channels["channel_join"])
  BY Answers, Elements, Row1 DEF Channels, Fit
<1>6. DOMAIN Channels = {"rename_channel", "channel_set_about",
                         "channel_set_admin", "create_channel", "channel_join"}
  BY DEF Channels
<1>7. QED
  BY <1>1, <1>2, <1>3, <1>4, <1>5, <1>6
     DEF Fit, Good

LEMMA DialogsGood == \A k \in DOMAIN Dialogs : Good(k, Dialogs[k])
<1>1. Fit(Dialogs["dialog_list"])
  BY Answers, Elements, Row2 DEF Dialogs, Fit
<1>2. Fit(Dialogs["send_typing"])
  BY Answers, Elements, Row2 DEF Dialogs, Fit
<1>3. Fit(Dialogs["resolve_username"])
  BY Answers, Elements, Row1 DEF Dialogs, Fit
<1>4. Fit(Dialogs["mark_read"])
  BY Answers, Elements, Row1 DEF Dialogs, Fit
<1>5. Fit(Dialogs["contact_list"])
  BY Answers, Elements, Row0 DEF Dialogs, Fit
<1>6. Fit(Dialogs["history"])
  BY Answers, Elements, Row3 DEF Dialogs, Fit
<1>7. DOMAIN Dialogs = {"dialog_list", "resolve_username", "contact_list",
                        "mark_read", "history", "send_typing"}
  BY DEF Dialogs
<1>8. QED
  BY <1>1, <1>2, <1>3, <1>4, <1>5, <1>6, <1>7
     DEF Fit, Good

LEMMA MediaGood == \A k \in DOMAIN Media : Good(k, Media[k])
<1>1. Fit(Media["load"])
  BY Answers, Elements, Row1 DEF Media, Fit
<1>2. Fit(Media["load_thumb"])
  BY Answers, Elements, Row1 DEF Media, Fit
<1>3. Fit(Media["load_user_photo"])
  BY Answers, Elements, Row1 DEF Media, Fit
<1>4. DOMAIN Media = {"load", "load_thumb", "load_user_photo"}
  BY DEF Media
<1>5. QED
  BY <1>1, <1>2, <1>3, <1>4
     DEF Fit, Good

LEMMA MessagesGood == \A k \in DOMAIN Messages : Good(k, Messages[k])
<1>1. Fit(Messages["search"])
  BY Answers, Elements, Row6 DEF Messages, Fit
<1>2. Fit(Messages["delete_msg"])
  BY Answers, Elements, Row1 DEF Messages, Fit
<1>3. Fit(Messages["start_bot"])
  BY Answers, Elements, Row3 DEF Messages, Fit
<1>4. DOMAIN Messages = {"search", "delete_msg", "start_bot"}
  BY DEF Messages
<1>5. QED
  BY <1>1, <1>2, <1>3, <1>4
     DEF Fit, Good

(* Every command of the table. *)
LEMMA Table ==
  ASSUME NEW c \in DOMAIN commands
  PROVE  Good(c, commands[c])
<1>1. /\ DOMAIN commands = UNION {DOMAIN s : s \in Sections}
      /\ commands[c] = (CHOOSE s \in Sections : c \in DOMAIN s)[c]
  BY Zenon DEF commands
<1>2. \E s \in Sections : c \in DOMAIN s
  BY <1>1, Zenon
<1>3. PICK s \in Sections : c \in DOMAIN s /\ commands[c] = s[c]
  BY <1>1, <1>2, Zenon
<1>4. \A t \in Sections : \A k \in DOMAIN t : Good(k, t[k])
  BY InformationGood, ControlGood, SendingGood, ReplyingGood, ProfileGood, ChatsGood,
     ContactsGood, SecretChatsGood, ChannelsGood, DialogsGood, MediaGood, MessagesGood, Zenon
     DEF Sections
<1>5. QED
  BY <1>3, <1>4

-----------------------------------------------------------------------------
(* The inductive invariant.  The pointer stands at the element of the next *)
(* argument, at the period of a list, or behind that.                      *)
Place ==
  \/ at = Len(args) + 1 /\ Elem(at).op # "period"
  \/ at \in 2 .. Len(args) + 1 /\ Elem(at).op = "period"
  \/ /\ at \in 2 .. MaxArgs + 2 /\ Elem(at - 1).op = "period"
     /\ Elem(at).op \in {"none", "string_end"}

(* The element of the pattern that a stored argument is of. *)
Of(i, k) ==
  /\ k \in DOMAIN pattern /\ pattern[k].op # "period"
  /\ IF List(pattern, k) THEN i >= k /\ args[i] = Found(MemberOf(pattern[k].op))
     ELSE i = k /\ args[i] \in Value(pattern[k])

(* A quoted token where an optional peer may come again is given back and  *)
(* read again until args is full (create_channel).                         *)
Stuck == opt /\ op \in Typed /\ repeated /\ ahead \in {"quoted", "open"}

Stored == Stuck \/ \A i \in 1 .. Len(args) : \E k \in DOMAIN pattern : Of(i, k)

(* Between two elements of the pattern. *)
Parsing ==
  /\ calls = 0 /\ fails = 0 /\ flags[Len(args)] = 0
  /\ Place /\ Stored
  /\ command = "broadcast" => \A i \in 1 .. Len(args) : args[i] = Found("peer")

Inv == /\ TypeOK
       /\ pc = "idle" => args = <<>> /\ command = "none" /\ calls = 0 /\ fails = 0 /\ at = 1
       /\ pc = "args" => Parsing
       /\ StringsFreedOnce
       /\ HandlerReadsWhatIsStored

-----------------------------------------------------------------------------
(* Reading a token keeps the types of what is known of the line. *)
LEMMA WordIsToken == "word" \in Tokens /\ "quoted" \in Tokens /\ "open" \in Tokens
BY DEF Tokens, Unquoted, Parses

LEMMA ComingTyped ==
  ASSUME TypeOK, NEW t \in Coming
  PROVE  t \in Tokens \cup {"end"}
BY DEF TypeOK, Coming

LineTyped == seen \in Seq(Tokens) /\ ended \in BOOLEAN /\ ahead \in Tokens \cup {"none"}

LEMMA NoteTyped ==
  ASSUME TypeOK, NEW t \in Coming, Take(t) \/ GiveBack(t)
  PROVE  LineTyped'
<1>1. t \in Tokens \cup {"end"}
  BY ComingTyped
<1>2. Note(t) /\ ahead' \in {"none", t} /\ (t = "end" => ahead' = "none")
  BY DEF Take, GiveBack
<1>3. seen \in Seq(Tokens) /\ ended \in BOOLEAN
  BY DEF TypeOK
<1>4. seen' \in Seq(Tokens)
  <2>1. CASE New(t)
    <3>1. t \in Tokens
      BY <1>1, <2>1 DEF New
    <3>2. QED
      BY <1>2, <1>3, <2>1, <3>1, AppendProperties DEF Note
  <2>2. CASE ~New(t)
    BY <1>2, <1>3, <2>2 DEF Note
  <2>3. QED
    BY <2>1, <2>2
<1>5. ended' \in BOOLEAN
  BY <1>2, <1>3 DEF Note
<1>6. QED
  BY <1>1, <1>2, <1>4, <1>5 DEF LineTyped

(* The pattern that is being parsed, and the element it has come to. *)
LEMMA PatternGood ==
  ASSUME TypeOK
  PROVE  /\ pattern \in Seq(Element) /\ DOMAIN pattern = 1 .. Len(pattern) /\ Len(pattern) \in Nat
         /\ \A k \in DOMAIN pattern : pattern[k] \in Element
         /\ Ordered(pattern)
         /\ command # "none" => /\ command \in DOMAIN commands
                                /\ pattern = commands[command].args
                                /\ Good(command, commands[command])
<1>1. command \in DOMAIN commands \cup {"none"}
      /\ pattern = (IF command = "none" THEN <<>> ELSE commands[command].args)
  BY DEF TypeOK
<1>2. CASE command = "none"
  <2>1. pattern = <<>>
    BY <1>1, <1>2
  <2>2. pattern \in Seq(Element) /\ Ordered(pattern)
    BY <2>1 DEF Ordered, List
  <2>3. QED
    BY <1>2, <2>2, ElementOfSeq, LenProperties
<1>3. CASE command # "none"
  <2>1. Good(command, commands[command])
    BY <1>1, <1>3, Table
  <2>2. pattern = commands[command].args
    BY <1>1, <1>3
  <2>3. pattern \in Seq(Element) /\ Ordered(pattern)
    BY <2>1, <2>2 DEF Good, RowTyped
  <2>4. QED
    BY <1>1, <1>3, <2>1, <2>2, <2>3, ElementOfSeq, LenProperties
<1>4. QED
  BY <1>2, <1>3

LEMMA Here ==
  ASSUME TypeOK, Place, op \in Typed \cup {"string"}
  PROVE  /\ here \in DOMAIN pattern /\ here \in 1 .. Len(args) + 1
         /\ pattern[here].op = op /\ pattern[here].opt = opt /\ op # "period"
         /\ repeated <=> List(pattern, here)
         /\ ~repeated => here = Len(args) + 1
         /\ repeated => op \in Typed /\ Elem(here + 2).op \in {"none", "string_end"}
<1>1. /\ DOMAIN pattern = 1 .. Len(pattern) /\ Len(pattern) \in Nat /\ Ordered(pattern)
      /\ \A k \in DOMAIN pattern : pattern[k] \in Element
  BY PatternGood
<1>2. at \in Nat /\ Len(args) \in Nat
  BY BoundsAssumption, LenProperties DEF BoundsAssumption, TypeOK
<1>3. op # "none" /\ op # "string_end" /\ op # "period"
  BY DEF Typed
<1>4. None.op = "none" /\ \A i : i \notin DOMAIN pattern => Elem(i) = None
  BY DEF None, Arg, Elem
<1>5. here \in DOMAIN pattern /\ Elem(here) = pattern[here]
  BY <1>3, <1>4 DEF op, Elem
<1>6. pattern[here].op = op /\ pattern[here].opt = opt
  BY <1>5 DEF op, opt
<1>7. repeated <=> List(pattern, here)
  BY <1>4 DEF repeated, List, Elem
<1>8. /\ here \in 1 .. Len(args) + 1
      /\ ~repeated => here = Len(args) + 1
  <2>1. CASE at = Len(args) + 1 /\ Elem(at).op # "period"
    <3>1. here = at
      BY <2>1 DEF here
    <3>2. QED
      BY <1>2, <2>1, <3>1
  <2>2. CASE at \in 2 .. Len(args) + 1 /\ Elem(at).op = "period"
    <3>1. here = at - 1
      BY <2>2 DEF here
    <3>2. here + 1 = at
      BY <1>2, <3>1
    <3>3. repeated
      BY <2>2, <3>2 DEF repeated
    <3>4. QED
      BY <1>2, <2>2, <3>1, <3>3
  <2>3. CASE Elem(at).op \in {"none", "string_end"}
    <3>1. here = at
      BY <2>3 DEF here
    <3>2. QED
      BY <1>3, <2>3, <3>1 DEF op
  <2>4. QED
    BY <2>1, <2>2, <2>3 DEF Place
<1>9. ASSUME repeated PROVE op \in Typed /\ Elem(here + 2).op \in {"none", "string_end"}
  <2>1. List(pattern, here)
    BY <1>7, <1>9
  <2>2. here + 1 \in DOMAIN pattern /\ pattern[here + 1].op = "period"
    BY <2>1 DEF List
  <2>3. (here + 1) + 1 = here + 2
    BY <1>8
  <2>4. here + 2 \in DOMAIN pattern => pattern[here + 2].op = "string_end"
    BY <1>1, <2>2, <2>3 DEF Ordered
  <2>5. op \in Typed
    BY <1>1, <1>5, <1>6, <2>1 DEF Ordered
  <2>6. QED
    BY <1>4, <2>4, <2>5 DEF Elem
<1>10. QED
  BY <1>3, <1>5, <1>6, <1>7, <1>8, <1>9

-----------------------------------------------------------------------------
(* A line ends: its strings are freed, and no others were allocated. *)
ArgsTyped(as, fl) ==
  /\ as \in Seq(SlotValues) /\ Len(as) <= MaxArgs /\ fl \in [Slots -> {0, 1}]

LEMMA FreedInSlots ==
  ASSUME NEW as, NEW fl, ArgsTyped(as, fl)
  PROVE  Freed(as, fl) \subseteq Slots
<1>1. Len(as) \in Nat /\ MaxArgs \in Nat /\ Len(as) <= MaxArgs
  BY BoundsAssumption, LenProperties DEF BoundsAssumption, ArgsTyped
<1>2. PICK n \in Nat : n = Len(as)
  BY <1>1
<1>3. MaxArgs \in Nat /\ n <= MaxArgs
  BY <1>1, <1>2
<1>4. \A i \in 0 .. n - 1 : i \in 0 .. MaxArgs
  BY <1>3
<1>5. QED
  BY <1>2, <1>4 DEF Freed, Slots

LEMMA FinishTyped ==
  ASSUME Inv, pc = "args", NEW as, NEW fl, ArgsTyped(as, fl), Finish(as, fl, Freed(as, fl)),
         LineTyped', calls' \in Nat, fails' \in {0, 1}, way' \in Ways
  PROVE  TypeOK' /\ pc' = "done" /\ StringsFreedOnce' /\ args' = as
<1>1. /\ pc' = "done" /\ owned' = {} /\ args' = as /\ flags' = fl /\ in_readline' = FALSE
      /\ UNCHANGED <<command, pattern, count, at>>
  BY DEF Finish
<1>2. TypeOK'
  BY <1>1 DEF Inv, TypeOK, ArgsTyped, LineTyped, Ways
<1>3. StringsFreedOnce'
  BY <1>1 DEF StringsFreedOnce
<1>4. QED
  BY <1>1, <1>2, <1>3

LEMMA BreakKept ==
  ASSUME Inv, pc = "args", NEW as, NEW fl, ArgsTyped(as, fl), LineTyped',
         Break(as, fl, Freed(as, fl)) \/ Fail(as, fl, Freed(as, fl))
  PROVE  Inv'
<1>1. /\ calls = 0 /\ fails = 0 /\ way \in Ways
  BY DEF Inv, Parsing, TypeOK, Ways
<1>2. /\ Finish(as, fl, Freed(as, fl)) /\ calls' = 0 /\ fails' \in {0, 1} /\ way' = way
  <2>1. CASE Break(as, fl, Freed(as, fl))
    BY <1>1, <2>1 DEF Break
  <2>2. CASE Fail(as, fl, Freed(as, fl))
    BY <1>1, <2>2 DEF Fail, fail_interface
  <2>3. QED
    BY <2>1, <2>2
<1>3. TypeOK' /\ pc' = "done" /\ StringsFreedOnce'
  BY <1>1, <1>2, FinishTyped
<1>4. HandlerReadsWhatIsStored'
  BY <1>2 DEF HandlerReadsWhatIsStored, Called
<1>5. QED
  BY <1>3, <1>4 DEF Inv

(* The handler of the command can read the arguments as. *)
Readable(as) ==
  \/ \A i \in DOMAIN as : as[i] \in ReadsOf(command, Len(as), i)
  \/ command = "reply_audio"
  \/ command = "broadcast" /\ as[Len(as)] = Found("peer")

LEMMA FunKept ==
  ASSUME Inv, pc = "args", NEW as, NEW fl, ArgsTyped(as, fl), LineTyped',
         Fun(as, fl, Freed(as, fl)), Enough(as) => Readable(as),
         Freed(as, flags) = owned
  PROVE  Inv'
<1>1. /\ calls = 0 /\ fails = 0 /\ way \in Ways /\ count \in Nat /\ command # "none"
      /\ command \in DOMAIN commands
  <2>1. TypeOK /\ calls = 0 /\ fails = 0
    BY DEF Inv, Parsing
  <2>2. way \in Ways /\ count \in Counts \cup {1} /\ command # "none"
        /\ command \in DOMAIN commands \cup {"none"}
    BY <2>1 DEF TypeOK, Ways
  <2>3. QED
    BY <2>1, <2>2, BoundsAssumption DEF BoundsAssumption
<1>2. CASE Enough(as) \/ count = 0
  <2>1. /\ Finish(as, fl, Freed(as, fl)) /\ calls' = count /\ fails' = 0
        /\ IF count = 0 THEN way' = way ELSE way' \in commands[command].ways
    BY <1>1, <1>2 DEF Fun
  <2>2. commands[command].ways \subseteq Ways
    BY <1>1, Table DEF Good, RowTyped
  <2>3. TypeOK' /\ pc' = "done" /\ StringsFreedOnce' /\ args' = as
    BY <1>1, <2>1, <2>2, FinishTyped
  <2>4. command' = command
    BY <2>1 DEF Finish
  <2>5. HandlerReadsWhatIsStored'
    <3>1. CASE count = 0
      BY <2>1, <3>1 DEF HandlerReadsWhatIsStored, Called
    <3>2. CASE Readable(as)
      BY <2>3, <2>4, <3>2 DEF HandlerReadsWhatIsStored, Readable, ReadsOf
    <3>3. QED
      BY <1>2, <3>1, <3>2
  <2>6. QED
    BY <2>3, <2>5 DEF Inv
<1>3. CASE ~(Enough(as) \/ count = 0)
  <2>1. /\ pc' = "dead" /\ args' = as
        /\ UNCHANGED <<in_readline, command, pattern, count, at, flags, owned, calls, fails, way>>
    BY <1>3 DEF Fun, Assertion
  <2>2. TypeOK'
    BY <2>1 DEF Inv, TypeOK, ArgsTyped, LineTyped
  <2>3. StringsFreedOnce'
    BY <2>1 DEF StringsFreedOnce, Freed
  <2>4. HandlerReadsWhatIsStored'
    BY <2>1 DEF HandlerReadsWhatIsStored, Called, Over
  <2>5. QED
    BY <2>1, <2>2, <2>3, <2>4 DEF Inv
<1>4. QED
  BY <1>2, <1>3

(* The string that is duplicated is the one slot more that is freed. *)
LEMMA StrdupFreed ==
  ASSUME Inv, pc = "args", Room, NEW x \in SlotValues
  PROVE  /\ Append(args, x) \in Seq(SlotValues) /\ Len(Append(args, x)) = Len(args) + 1
         /\ Len(args) + 1 <= MaxArgs /\ Len(args) \in Slots /\ Len(args) + 1 \in Slots
         /\ ArgsTyped(args, flags) /\ Freed(args, flags) = owned
         /\ ArgsTyped(Append(args, x), flags) /\ Freed(Append(args, x), flags) = owned
         /\ ArgsTyped(Append(args, x), Strdup)
         /\ Freed(Append(args, x), Strdup) = owned \cup {Len(args)}
<1>1. /\ args \in Seq(SlotValues) /\ flags \in [Slots -> {0, 1}] /\ flags[Len(args)] = 0
      /\ owned = Freed(args, flags) /\ Len(args) \in Nat /\ MaxArgs \in Nat
      /\ Len(args) < MaxArgs
  BY BoundsAssumption, LenProperties
     DEF BoundsAssumption, Inv, TypeOK, Parsing, StringsFreedOnce, Room
<1>2. PICK as : as = Append(args, x)
  OBVIOUS
<1>3. as \in Seq(SlotValues) /\ Len(as) = Len(args) + 1
  BY <1>1, <1>2, AppendProperties
<1>4. Len(args) + 1 <= MaxArgs /\ Len(args) \in Slots /\ Len(args) + 1 \in Slots
  BY <1>1 DEF Slots
<1>5. PICK n \in Nat : n = Len(args)
  BY <1>1
<1>6. Strdup = [flags EXCEPT ![n] = 1] /\ Strdup \in [Slots -> {0, 1}]
  BY <1>1, <1>4, <1>5 DEF Strdup
<1>7. 0 .. Len(as) - 1 = (0 .. n - 1) \cup {n}
  BY <1>3, <1>5
<1>8. 0 .. n - 1 \subseteq Slots \ {n}
  BY <1>1, <1>5 DEF Slots
<1>9. Freed(as, flags) = owned
  <2>1. flags[n] # 1
    BY <1>1, <1>5
  <2>2. owned = {i \in 0 .. n - 1 : flags[i] = 1}
    BY <1>1, <1>5 DEF Freed
  <2>3. Freed(as, flags) = {i \in (0 .. n - 1) \cup {n} : flags[i] = 1}
    BY <1>7 DEF Freed
  <2>4. QED
    BY <2>1, <2>2, <2>3
<1>10. Freed(as, Strdup) = owned \cup {n}
  <2>1. \A i \in 0 .. n - 1 : Strdup[i] = flags[i]
    BY <1>1, <1>6, <1>8
  <2>2. Strdup[n] = 1
    BY <1>1, <1>4, <1>5, <1>6
  <2>3. QED
    BY <1>1, <1>5, <1>7, <2>1, <2>2 DEF Freed
<1>11. /\ ArgsTyped(args, flags) /\ ArgsTyped(as, flags) /\ ArgsTyped(as, Strdup)
       /\ Freed(args, flags) = owned
  <2>1. ArgsTyped(args, flags)
    BY <1>1, <1>5 DEF ArgsTyped
  <2>2. ArgsTyped(as, flags)
    BY <1>1, <1>3, <1>4 DEF ArgsTyped
  <2>3. ArgsTyped(as, Strdup)
    BY <1>3, <1>4, <1>6 DEF ArgsTyped
  <2>4. QED
    BY <1>1, <2>1, <2>2, <2>3
<1>12. QED
  BY <1>2, <1>3, <1>4, <1>5, <1>9, <1>10, <1>11

LEMMA StringTyped ==
  /\ Found("str") \in SlotValues /\ Absent("str") \in SlotValues
  /\ \A m \in Typed : Found(m) \in SlotValues /\ Absent(m) \in SlotValues
BY DEF SlotValues

-----------------------------------------------------------------------------
(* What was stored for the pattern of a command other than the exceptions  *)
(* is what its handler reads.                                              *)
LEMMA RowRead ==
  ASSUME TypeOK, command # "none", command \notin {"reply_audio", "broadcast"},
         NEW as \in Seq(SlotValues), Enough(as),
         \A i \in 1 .. Len(as) : \E k \in DOMAIN pattern :
           /\ pattern[k].op # "period"
           /\ IF List(pattern, k) THEN i >= k /\ as[i] = Found(MemberOf(pattern[k].op))
              ELSE i = k /\ as[i] \in Value(pattern[k])
  PROVE  \A i \in DOMAIN as : as[i] \in ReadsOf(command, Len(as), i)
<1>1. PICK r : r = commands[command].reads
  OBVIOUS
<1>2. /\ pattern = commands[command].args /\ ReadsFit(commands[command])
      /\ DOMAIN pattern = 1 .. Len(pattern) /\ Len(pattern) \in Nat
  BY PatternGood DEF Good
<1>3. /\ Len(r.head) \in Nat
      /\ r.more = {} => r.least = Len(r.head)
      /\ r.last = {}
      /\ \A k \in DOMAIN pattern : pattern[k].op # "period" =>
           IF List(pattern, k) THEN /\ k > Len(r.head) /\ k + 1 = Len(pattern)
                                    /\ Found(MemberOf(pattern[k].op)) \in r.more
           ELSE IF k <= Len(r.head) THEN Value(pattern[k]) \subseteq r.head[k]
           ELSE r.more = {} \/ Value(pattern[k]) \subseteq r.more
  BY <1>1, <1>2 DEF ReadsFit
<1>4. r.more = {} => Len(as) = Len(r.head)
  BY <1>1, <1>3 DEF Enough
<1>5. DOMAIN as = 1 .. Len(as) /\ Len(as) \in Nat
  BY LenProperties
<1>6. ASSUME NEW i \in 1 .. Len(as)
      PROVE  as[i] \in ReadsOf(command, Len(as), i)
  <2>1. PICK k \in DOMAIN pattern :
           /\ pattern[k].op # "period"
           /\ IF List(pattern, k) THEN i >= k /\ as[i] = Found(MemberOf(pattern[k].op))
              ELSE i = k /\ as[i] \in Value(pattern[k])
    OBVIOUS
  <2>2. ReadsOf(command, Len(as), i) = IF i <= Len(r.head) THEN r.head[i] ELSE r.more
    BY <1>1, <1>3 DEF ReadsOf
  <2>3. CASE List(pattern, k)
    <3>1. k > Len(r.head) /\ Found(MemberOf(pattern[k].op)) \in r.more
      BY <1>3, <2>1, <2>3
    <3>2. i >= k /\ as[i] = Found(MemberOf(pattern[k].op))
      BY <2>1, <2>3
    <3>3. ~(i <= Len(r.head))
      BY <1>2, <1>3, <3>1, <3>2
    <3>4. QED
      BY <2>2, <3>1, <3>2, <3>3
  <2>4. CASE ~List(pattern, k)
    <3>1. i = k /\ as[i] \in Value(pattern[k])
      BY <2>1, <2>4
    <3>2. CASE i <= Len(r.head)
      BY <1>3, <2>1, <2>2, <2>4, <3>1, <3>2
    <3>3. CASE ~(i <= Len(r.head))
      <4>1. PICK n \in Nat, m \in Nat : n = Len(r.head) /\ m = Len(as)
        BY <1>3, <1>5
      <4>2. Len(as) # Len(r.head)
        <5>1. i \in 1 .. m /\ ~(i <= n)
          BY <1>6, <3>3, <4>1
        <5>2. n # m
          BY <5>1
        <5>3. QED
          BY <4>1, <5>2
      <4>3. r.more # {}
        BY <1>4, <4>2
      <4>4. QED
        BY <1>3, <2>1, <2>2, <2>4, <3>1, <3>3, <4>3
    <3>4. QED
      BY <3>2, <3>3
  <2>5. QED
    BY <2>3, <2>4
<1>7. QED
  BY <1>5, <1>6

LEMMA ArgsReadable ==
  ASSUME Inv, pc = "args", ~Stuck, Enough(args)
  PROVE  Readable(args)
<1>1. TypeOK /\ Parsing /\ command # "none" /\ args \in Seq(SlotValues)
  BY DEF Inv, TypeOK
<1>2. DOMAIN args = 1 .. Len(args) /\ Len(args) \in Nat
  BY <1>1, LenProperties
<1>3. CASE command = "broadcast"
  <2>1. \A i \in 1 .. Len(args) : args[i] = Found("peer")
    BY <1>1, <1>3 DEF Parsing
  <2>2. CASE Len(args) = 0
    BY <1>2, <2>2 DEF Readable
  <2>3. CASE Len(args) # 0
    <3>1. Len(args) \in 1 .. Len(args)
      BY <1>2, <2>3
    <3>2. QED
      BY <1>3, <2>1, <3>1 DEF Readable
  <2>4. QED
    BY <2>2, <2>3
<1>4. CASE command = "reply_audio"
  BY <1>4 DEF Readable
<1>5. CASE command \notin {"reply_audio", "broadcast"}
  <2>1. \A i \in 1 .. Len(args) : \E k \in DOMAIN pattern : Of(i, k)
    BY <1>1 DEF Parsing, Stored
  <2>2. \A i \in DOMAIN args : args[i] \in ReadsOf(command, Len(args), i)
    BY <1>1, <1>5, <2>1, RowRead DEF Of
  <2>3. QED
    BY <2>2 DEF Readable
<1>6. QED
  BY <1>3, <1>4, <1>5

(* The pointer at a text that takes the rest of the line. *)
LEMMA HereText ==
  ASSUME TypeOK, Place, op = "string_end"
  PROVE  /\ at \in DOMAIN pattern /\ pattern[at].op = "string_end" /\ ~List(pattern, at)
         /\ at = Len(args) + 1 \/ (at - 1 \in DOMAIN pattern /\ pattern[at - 1].op = "period")
<1>1. /\ DOMAIN pattern = 1 .. Len(pattern) /\ Len(pattern) \in Nat /\ Ordered(pattern)
  BY PatternGood
<1>2. None.op = "none" /\ \A i : i \notin DOMAIN pattern => Elem(i) = None
  BY DEF None, Arg, Elem
<1>3. at \in Nat /\ Len(args) \in Nat
  BY BoundsAssumption, LenProperties DEF BoundsAssumption, TypeOK
<1>4. Elem(at).op # "period"
  <2> SUFFICES ASSUME Elem(at).op = "period" PROVE FALSE
    OBVIOUS
  <2>1. here = at - 1 /\ here + 1 = at
    BY <1>3 DEF here
  <2>2. at \in DOMAIN pattern /\ pattern[at].op = "period"
    BY <1>2 DEF Elem
  <2>3. here \in DOMAIN pattern /\ pattern[here].op = "string_end"
    BY <1>2 DEF op, Elem
  <2>4. List(pattern, here)
    BY <2>1, <2>2 DEF List
  <2>5. pattern[here].op \in Typed
    BY <1>1, <2>3, <2>4 DEF Ordered
  <2>6. QED
    BY <2>3, <2>5 DEF Typed
<1>5. here = at
  BY <1>4 DEF here
<1>6. at \in DOMAIN pattern /\ pattern[at].op = "string_end"
  BY <1>2, <1>5 DEF op, Elem
<1>7. ~List(pattern, at)
  BY <1>1, <1>6 DEF Ordered, Typed
<1>8. at = Len(args) + 1 \/ Elem(at - 1).op = "period"
  BY <1>4 DEF Place
<1>9. QED
  BY <1>2, <1>6, <1>7, <1>8 DEF Elem

LEMMA TextReadable ==
  ASSUME Inv, pc = "args", op = "string_end",
         NEW as, as = Append(args, Found("str")), Enough(as)
  PROVE  Readable(as)
<1>1. TypeOK /\ Parsing /\ Place /\ command # "none" /\ args \in Seq(SlotValues)
  BY DEF Inv, TypeOK, Parsing
<1>2. PICK n \in Nat : n = Len(args)
  BY <1>1, LenProperties
<1>3. /\ as \in Seq(SlotValues) /\ Len(as) = n + 1 /\ DOMAIN as = 1 .. n + 1
      /\ as[n + 1] = Found("str") /\ \A i \in 1 .. n : as[i] = args[i]
  BY <1>1, <1>2, StringTyped, AppendProperties, LenProperties
<1>4. \A i \in 1 .. n + 1 : i \in 1 .. n \/ i = n + 1
  OBVIOUS
<1>5. CASE command = "broadcast"
  <2>1. \A i \in 1 .. n : as[i] = Found("peer")
    BY <1>1, <1>2, <1>3, <1>5 DEF Parsing
  <2>2. Broadcast(commands[command])
    BY <1>1, <1>5, PatternGood DEF Good
  <2>3. PICK r : r = commands[command].reads
    OBVIOUS
  <2>4. r.head = <<>> /\ r.more = P /\ r.last = S
    BY <2>2, <2>3 DEF Broadcast
  <2>5. Len(r.head) = 0 /\ r.last # {}
    BY <2>4 DEF S
  <2>6. \A i \in 1 .. n + 1 : ReadsOf(command, n + 1, i) = IF i = n + 1 THEN S ELSE P
    BY <2>3, <2>4, <2>5 DEF ReadsOf
  <2>7. \A i \in DOMAIN as : as[i] \in ReadsOf(command, Len(as), i)
    <3>1. Found("str") \in S /\ Found("peer") \in P
      BY DEF S, P
    <3>2. \A i \in 1 .. n : i \in 1 .. n + 1 /\ i # n + 1
      OBVIOUS
    <3>3. QED
      BY <1>3, <1>4, <2>1, <2>6, <3>1, <3>2
  <2>8. QED
    BY <2>7 DEF Readable
<1>6. CASE command = "reply_audio"
  BY <1>6 DEF Readable
<1>7. CASE command \notin {"reply_audio", "broadcast"}
  <2>1. /\ at \in DOMAIN pattern /\ pattern[at].op = "string_end" /\ ~List(pattern, at)
        /\ at = n + 1 \/ (at - 1 \in DOMAIN pattern /\ pattern[at - 1].op = "period")
    BY <1>1, <1>2, HereText
  <2>2. at = n + 1
    <3> SUFFICES ASSUME at - 1 \in DOMAIN pattern, pattern[at - 1].op = "period" PROVE FALSE
      BY <2>1
    <3>1. /\ DOMAIN pattern = 1 .. Len(pattern) /\ Len(pattern) \in Nat /\ Ordered(pattern)
          /\ ReadsFit(commands[command]) /\ pattern = commands[command].args
      BY <1>1, <1>7, PatternGood DEF Good
    <3>2. PICK j \in 1 .. Len(pattern) : j = at - 1
      BY <3>1
    <3>3. j > 1 /\ pattern[j].op = "period"
      BY <3>1, <3>2 DEF Ordered
    <3>4. PICK k \in 1 .. Len(pattern) : k + 1 = j
      BY <3>1, <3>3
    <3>5. List(pattern, k)
      BY <3>1, <3>3, <3>4 DEF List
    <3>6. pattern[k].op # "period"
      BY <3>1, <3>5 DEF Ordered, Typed
    <3>7. k + 1 = Len(pattern)
      BY <3>1, <3>5, <3>6 DEF ReadsFit
    <3>8. QED
      BY <2>1, <3>1, <3>2, <3>4, <3>7
  <2>3. ~Stuck
    BY DEF Stuck, Typed
  <2>4. ASSUME NEW i \in 1 .. n + 1
        PROVE  \E k \in DOMAIN pattern :
                 /\ pattern[k].op # "period"
                 /\ IF List(pattern, k) THEN i >= k /\ as[i] = Found(MemberOf(pattern[k].op))
                    ELSE i = k /\ as[i] \in Value(pattern[k])
    <3>1. CASE i \in 1 .. n
      <4>1. \E k \in DOMAIN pattern : Of(i, k)
        BY <1>1, <1>2, <2>3, <3>1 DEF Parsing, Stored
      <4>2. QED
        BY <1>3, <3>1, <4>1 DEF Of
    <3>2. CASE i = n + 1
      <4>1. Value(pattern[at]) = {Found("str")}
        BY <2>1 DEF Value, MemberOf, Typed
      <4>2. QED
        BY <1>3, <2>1, <2>2, <3>2, <4>1
    <3>3. QED
      BY <1>4, <3>1, <3>2
  <2>5. \A i \in DOMAIN as : as[i] \in ReadsOf(command, Len(as), i)
    BY <1>1, <1>3, <1>7, <2>4, RowRead
  <2>6. QED
    BY <2>5 DEF Readable
<1>8. QED
  BY <1>5, <1>6, <1>7

-----------------------------------------------------------------------------
(* The loop goes on with the next element. *)
OnlyPeers == command = "broadcast" => \A i \in 1 .. Len(args) : args[i] = Found("peer")

Cleared(as, fl, own) == /\ ArgsTyped(as, fl) /\ fl[Len(as)] = 0 /\ own = Freed(as, fl)

Same == UNCHANGED <<pc, in_readline, command, pattern, count, calls, fails, way>>

LEMMA GoesOn ==
  ASSUME Inv, pc = "args", Same, Cleared(args', flags', owned'), LineTyped',
         at' \in 1 .. MaxArgs + 2, Place', Stored', OnlyPeers'
  PROVE  Inv'
<1>1. TypeOK /\ Parsing
  BY DEF Inv
<1>2. args' \in Seq(SlotValues) /\ Len(args') <= MaxArgs /\ flags' \in [Slots -> {0, 1}]
  BY DEF Cleared, ArgsTyped
<1>3. owned' \subseteq Slots
  BY FreedInSlots DEF Cleared
<1>4. TypeOK'
  BY <1>1, <1>2, <1>3 DEF TypeOK, Same, LineTyped
<1>5. Parsing'
  BY <1>1 DEF Parsing, Same, Cleared, OnlyPeers
<1>6. StringsFreedOnce'
  BY DEF StringsFreedOnce, Same, Cleared
<1>7. HandlerReadsWhatIsStored'
  BY DEF HandlerReadsWhatIsStored, Called, Over, Same
<1>8. QED
  BY <1>4, <1>5, <1>6, <1>7 DEF Inv, Same

LEMMA ContinueCleared ==
  ASSUME NEW as, NEW i, ArgsTyped(as, flags), Freed(as, flags) = owned, Continue(i, as)
  PROVE  Same /\ at' = i /\ args' = as /\ Cleared(args', flags', owned')
<1>1. /\ Len(as) \in Nat /\ MaxArgs \in Nat /\ Len(as) <= MaxArgs
      /\ flags \in [Slots -> {0, 1}]
  BY BoundsAssumption, LenProperties DEF BoundsAssumption, ArgsTyped
<1>2. PICK n \in Nat : n = Len(as)
  BY <1>1
<1>3. n \in Slots
  BY <1>1, <1>2 DEF Slots
<1>4. flags' = [flags EXCEPT ![n] = 0] /\ args' = as /\ owned' = owned
  BY <1>2 DEF Continue
<1>5. flags' \in [Slots -> {0, 1}] /\ flags'[n] = 0
  BY <1>1, <1>3, <1>4
<1>6. \A j \in 0 .. n - 1 : flags'[j] = flags[j]
  <2>1. \A j \in 0 .. n - 1 : j # n /\ j \in Slots
    BY <1>1, <1>2 DEF Slots
  <2>2. QED
    BY <1>1, <1>4, <2>1
<1>7. Freed(as, flags') = Freed(as, flags)
  BY <1>2, <1>6 DEF Freed
<1>8. QED
  BY <1>2, <1>4, <1>5, <1>7 DEF Continue, Same, Cleared, ArgsTyped

LEMMA BroadcastHere ==
  ASSUME TypeOK, Place, op \in Typed \cup {"string"}, command = "broadcast"
  PROVE  op = "peer" /\ ~opt /\ repeated
<1>1. Broadcast(commands[command]) /\ pattern = commands[command].args
  BY PatternGood DEF Good
<1>2. /\ Len(pattern) = 3 /\ pattern[1] = Peer /\ pattern[2] = Period /\ pattern[3] = Rest
      /\ DOMAIN pattern = 1 .. Len(pattern)
  BY <1>1, PatternGood DEF Broadcast
<1>3. /\ here \in DOMAIN pattern /\ pattern[here].op = op /\ pattern[here].opt = opt
      /\ op # "period" /\ (repeated <=> List(pattern, here))
  BY Here
<1>4. op # "string_end"
  BY DEF Typed
<1>5. here = 1 \/ here = 2 \/ here = 3
  BY <1>2, <1>3
<1>6. here = 1
  BY <1>2, <1>3, <1>4, <1>5, Periods
<1>7. List(pattern, 1)
  <2>1. 1 + 1 \in DOMAIN pattern /\ pattern[1 + 1] = Period
    BY <1>2
  <2>2. QED
    BY <2>1, Periods DEF List
<1>8. QED
  BY <1>2, <1>3, <1>6, <1>7, Periods DEF Peer, Arg

(* One more argument of the element the pointer is at. *)
LEMMA OneMore ==
  ASSUME Inv, pc = "args", Room, ~Stuck, op \in Typed \cup {"string"}, NEW x \in SlotValues,
         IF repeated THEN x = Found(MemberOf(op)) ELSE x \in Value(pattern[here]),
         command = "broadcast" => x = Found("peer"),
         Same, at' = here + 1, args' = Append(args, x)
  PROVE  Place' /\ Stored' /\ OnlyPeers' /\ at' \in 1 .. MaxArgs + 2
<1>1. TypeOK /\ Place /\ args \in Seq(SlotValues) /\ pattern' = pattern /\ command' = command
  BY DEF Inv, Parsing, TypeOK, Same
<1>0. /\ here \in DOMAIN pattern /\ here \in 1 .. Len(args) + 1
      /\ pattern[here].op = op /\ op # "period"
      /\ repeated <=> List(pattern, here)
      /\ ~repeated => here = Len(args) + 1
  BY <1>1, Here
<1>2. PICK h \in DOMAIN pattern :
        /\ h = here /\ h \in 1 .. Len(args) + 1
        /\ pattern[h].op = op /\ op # "period"
        /\ repeated <=> List(pattern, h)
        /\ ~repeated => h = Len(args) + 1
  BY <1>0
<1>3. PICK n \in Nat : n = Len(args)
  BY <1>1, LenProperties
<1>4. n < MaxArgs /\ MaxArgs \in Nat /\ h \in 1 .. n + 1
  BY <1>2, <1>3, BoundsAssumption DEF BoundsAssumption, Room
<1>5. /\ Len(args') = n + 1 /\ args'[n + 1] = x /\ \A i \in 1 .. n : args'[i] = args[i]
  BY <1>1, <1>3, AppendProperties
<1>6. \A i \in 1 .. n + 1 : i \in 1 .. n \/ i = n + 1
  OBVIOUS
<1>7. Elem(at)' = Elem(here + 1)
  BY <1>1 DEF Elem
<1>8. Place'
  <2>1. CASE repeated
    <3>1. Elem(at)'.op = "period"
      BY <1>7, <2>1 DEF repeated
    <3>2. at' \in 2 .. Len(args') + 1
      BY <1>2, <1>4, <1>5
    <3>3. QED
      BY <3>1, <3>2 DEF Place
  <2>2. CASE ~repeated
    <3>1. Elem(at)'.op # "period"
      BY <1>7, <2>2 DEF repeated
    <3>2. at' = Len(args') + 1
      BY <1>2, <1>3, <1>5, <2>2
    <3>3. QED
      BY <3>1, <3>2 DEF Place
  <2>3. QED
    BY <2>1, <2>2
<1>9. ASSUME NEW i \in 1 .. n + 1
      PROVE  \E k \in DOMAIN pattern' : Of(i, k)'
  <2>1. CASE i \in 1 .. n
    <3>1. PICK k \in DOMAIN pattern : Of(i, k)
      BY <1>3, <2>1 DEF Inv, Parsing, Stored
    <3>2. Of(i, k)'
      BY <1>1, <1>5, <2>1, <3>1 DEF Of
    <3>3. QED
      BY <1>1, <3>1, <3>2
  <2>2. CASE i = n + 1
    <3>1. i >= h /\ (~repeated => i = h)
      BY <1>2, <1>3, <1>4, <2>2
    <3>2. Of(i, h)'
      BY <1>1, <1>2, <1>5, <2>2, <3>1 DEF Of
    <3>3. QED
      BY <1>1, <1>2, <3>2
  <2>3. QED
    BY <1>6, <2>1, <2>2
<1>10. Stored'
  BY <1>5, <1>9 DEF Stored
<1>11. OnlyPeers'
  BY <1>1, <1>3, <1>5, <1>6 DEF OnlyPeers, Inv, Parsing
<1>12. at' \in 1 .. MaxArgs + 2
  BY <1>2, <1>4
<1>13. QED
  BY <1>8, <1>10, <1>11, <1>12

(* A list is over. *)
LEMMA SkipListKept ==
  ASSUME Inv, pc = "args", Room, ~Stuck, op \in Typed \cup {"string"}, repeated,
         NEW t \in Coming, SkipList(t)
  PROVE  Inv'
<1>1. TypeOK /\ Place /\ Stored /\ Parsing
  BY DEF Inv, Parsing
<1>2. LineTyped'
  BY <1>1, NoteTyped DEF SkipList
<1>3. ArgsTyped(args, flags) /\ Freed(args, flags) = owned
  BY StrdupFreed, StringTyped
<1>4. Same /\ at' = here + 2 /\ args' = args /\ Cleared(args', flags', owned')
  BY <1>3, ContinueCleared DEF SkipList
<1>5. pattern' = pattern /\ command' = command
  BY <1>4 DEF Same
<1>6. here \in 1 .. Len(args) + 1 /\ Elem(here + 2).op \in {"none", "string_end"}
  BY <1>1, Here
<1>7. PICK h \in 1 .. Len(args) + 1 : h = here
  BY <1>6
<1>8. Len(args) \in Nat /\ MaxArgs \in Nat /\ Len(args) < MaxArgs
  BY <1>1, BoundsAssumption, LenProperties DEF BoundsAssumption, Room, TypeOK
<1>9. at' \in 2 .. MaxArgs + 2 /\ at' - 1 = h + 1 /\ at' = h + 2
  BY <1>4, <1>7, <1>8
<1>10. Elem(h + 1).op = "period" /\ Elem(h + 2).op \in {"none", "string_end"}
  BY <1>6, <1>7 DEF repeated
<1>11. Elem(at - 1)'.op = "period" /\ Elem(at)'.op \in {"none", "string_end"}
  BY <1>5, <1>9, <1>10 DEF Elem
<1>12. Place'
  BY <1>9, <1>11 DEF Place
<1>13. Stored'
  <2>1. \A i \in 1 .. Len(args) : \E k \in DOMAIN pattern : Of(i, k)
    BY <1>1 DEF Stored
  <2>2. \A i, k : Of(i, k) => Of(i, k)'
    BY <1>4, <1>5 DEF Of
  <2>3. QED
    BY <1>4, <1>5, <2>1, <2>2 DEF Stored
<1>14. OnlyPeers'
  BY <1>1, <1>4, <1>5 DEF Parsing, OnlyPeers
<1>15. at' \in 1 .. MaxArgs + 2
  BY <1>8, <1>9
<1>16. QED
  BY <1>2, <1>4, <1>12, <1>13, <1>14, <1>15, GoesOn

(* An argument that is read, or absent, and the loop goes on behind it. *)
LEMMA AppendKept ==
  ASSUME Inv, pc = "args", Room, ~Stuck, op \in Typed \cup {"string"}, NEW x \in SlotValues,
         IF repeated THEN x = Found(MemberOf(op)) ELSE x \in Value(pattern[here]),
         command = "broadcast" => x = Found("peer"),
         LineTyped', Continue(here + 1, Append(args, x))
  PROVE  Inv'
<1>1. /\ ArgsTyped(Append(args, x), flags) /\ Freed(Append(args, x), flags) = owned
  BY StrdupFreed
<1>2. Same /\ at' = here + 1 /\ args' = Append(args, x) /\ Cleared(args', flags', owned')
  BY <1>1, ContinueCleared
<1>3. Place' /\ Stored' /\ OnlyPeers' /\ at' \in 1 .. MaxArgs + 2
  BY <1>2, OneMore
<1>4. QED
  BY <1>2, <1>3, GoesOn

(* An optional argument that is absent; if it could come again, as many as *)
(* there is room for.                                                      *)
LEMMA SkipOptKept ==
  ASSUME Inv, pc = "args", Room, op \in Typed, opt, NEW t \in Coming, SkipOpt(t),
         repeated => t \in {"quoted", "open"}, ~repeated => ~Stuck
  PROVE  Inv'
<1>1. TypeOK /\ Place /\ Parsing
  BY DEF Inv, Parsing
<1>2. LineTyped' /\ ahead' = (IF t = "end" THEN "none" ELSE t)
  BY <1>1, NoteTyped DEF SkipOpt, GiveBack
<1>3. Absent(op) \in SlotValues
  BY StringTyped
<1>4. command # "broadcast"
  BY <1>1, BroadcastHere
<1>5. CASE ~repeated
  <2>1. MemberOf(op) = op /\ op # "string_end"
    BY DEF MemberOf, Typed
  <2>2. pattern[here].op = op /\ pattern[here].opt = opt
    BY <1>1, Here
  <2>3. Absent(op) \in Value(pattern[here])
    BY <2>1, <2>2 DEF Value
  <2>4. QED
    BY <1>2, <1>3, <1>4, <1>5, <2>3, AppendKept DEF SkipOpt
<1>6. CASE repeated
  <2>1. /\ ArgsTyped(Append(args, Absent(op)), flags)
        /\ Freed(Append(args, Absent(op)), flags) = owned
        /\ Len(Append(args, Absent(op))) = Len(args) + 1
    BY <1>3, StrdupFreed
  <2>2. /\ Same /\ at' = here + 1 /\ args' = Append(args, Absent(op))
        /\ Cleared(args', flags', owned')
    BY <2>1, ContinueCleared DEF SkipOpt
  <2>3. pattern' = pattern /\ command' = command /\ Len(args') = Len(args) + 1
    BY <2>1, <2>2 DEF Same
  <2>4. here \in 1 .. Len(args) + 1
    BY <1>1, Here
  <2>5. PICK h \in 1 .. Len(args) + 1 : h = here
    BY <2>4
  <2>6. Len(args) \in Nat /\ MaxArgs \in Nat /\ Len(args) < MaxArgs
    BY <1>1, BoundsAssumption, LenProperties DEF BoundsAssumption, Room, TypeOK
  <2>7. /\ at' = h + 1 /\ at' - 1 = h /\ at' \in 2 .. Len(args') + 1
        /\ at' \in 1 .. MaxArgs + 2
    BY <2>2, <2>3, <2>5, <2>6
  <2>8. Elem(h + 1).op = "period" /\ Elem(h).op = op /\ Elem(h).opt = opt
    BY <1>6, <2>5 DEF repeated, op, opt
  <2>9. Elem(at)'.op = "period"
    BY <2>3, <2>7, <2>8 DEF Elem
  <2>10. here' = h
    BY <2>7, <2>9 DEF here
  <2>11. op' = op /\ opt' = opt /\ repeated'
    BY <2>3, <2>8, <2>10 DEF op, opt, repeated, Elem
  <2>12. Place'
    BY <2>7, <2>9 DEF Place
  <2>13. Stored'
    BY <1>2, <1>6, <2>11 DEF Stored, Stuck
  <2>14. OnlyPeers'
    BY <1>4, <2>3 DEF OnlyPeers
  <2>15. QED
    BY <1>2, <2>2, <2>7, <2>12, <2>13, <2>14, GoesOn
<1>7. QED
  BY <1>5, <1>6

(* A token that can be parsed was not given back by a stuck list. *)
LEMMA Unstuck ==
  /\ Stuck => Coming = {ahead} /\ ahead \in {"quoted", "open"}
  /\ Unquoted \cap {"quoted", "open", "end"} = {}
BY DEF Stuck, Coming, Unquoted, Parses

LEMMA TypedAbsentKept ==
  ASSUME Inv, TypedAbsent
  PROVE  Inv'
<1>1. pc = "args" /\ Room /\ op \in Typed /\ TypeOK
  BY DEF TypedAbsent, Looping, Inv
<1>2. PICK t \in Coming \ Unquoted :
        /\ More(t)
        /\ IF opt THEN SkipOpt(t)
           ELSE IF repeated THEN SkipList(t)
           ELSE Take(t) /\ Break(args, flags, owned)
  BY DEF TypedAbsent
<1>3. t \in {"quoted", "open", "end"}
  BY <1>1, <1>2, ComingTyped DEF Tokens
<1>4. CASE opt
  <2>1. repeated => t \in {"quoted", "open"}
    BY <1>2, <1>3 DEF More
  <2>2. ~repeated => ~Stuck
    BY DEF Stuck
  <2>3. QED
    BY <1>1, <1>2, <1>4, <2>1, <2>2, SkipOptKept
<1>5. CASE ~opt /\ repeated
  <2>1. ~Stuck
    BY <1>5 DEF Stuck
  <2>2. QED
    BY <1>1, <1>2, <1>5, <2>1, SkipListKept
<1>6. CASE ~opt /\ ~repeated
  <2>1. Take(t) /\ Break(args, flags, owned)
    BY <1>2, <1>6
  <2>2. LineTyped'
    BY <1>1, <1>2, <2>1, NoteTyped
  <2>3. ArgsTyped(args, flags) /\ Freed(args, flags) = owned
    BY <1>1, StrdupFreed, StringTyped
  <2>4. QED
    BY <1>1, <2>1, <2>2, <2>3, BreakKept
<1>7. QED
  BY <1>4, <1>5, <1>6

LEMMA TypedParsedKept ==
  ASSUME Inv, TypedParsed
  PROVE  Inv'
<1>1. pc = "args" /\ Room /\ op \in Typed /\ TypeOK /\ Place
  BY DEF TypedParsed, Looping, Inv, Parsing
<1>2. PICK t \in Coming \cap Unquoted :
        IF op \in Parses[t] THEN Take(t) /\ Continue(here + 1, Append(args, Found(op)))
        ELSE IF repeated THEN SkipList(t)
        ELSE IF opt THEN SkipOpt(t)
        ELSE Take(t) /\ Fail(Append(args, Absent(op)), flags, owned)
  BY DEF TypedParsed
<1>3. ~Stuck
  BY <1>2, Unstuck
<1>4. CASE op \in Parses[t]
  <2>1. Take(t) /\ Continue(here + 1, Append(args, Found(op)))
    BY <1>2, <1>4
  <2>2. LineTyped'
    BY <1>1, <1>2, <2>1, NoteTyped
  <2>3. MemberOf(op) = op /\ Found(op) \in SlotValues
    BY <1>1, StringTyped DEF MemberOf
  <2>4. Found(op) \in Value(pattern[here])
    BY <1>1, <2>3, Here DEF Value
  <2>5. command = "broadcast" => Found(op) = Found("peer")
    BY <1>1, BroadcastHere
  <2>6. QED
    BY <1>1, <1>3, <2>1, <2>2, <2>3, <2>4, <2>5, AppendKept
<1>5. CASE op \notin Parses[t] /\ repeated
  BY <1>1, <1>2, <1>3, <1>5, SkipListKept
<1>6. CASE op \notin Parses[t] /\ ~repeated /\ opt
  BY <1>1, <1>2, <1>3, <1>6, SkipOptKept
<1>7. CASE op \notin Parses[t] /\ ~repeated /\ ~opt
  <2>1. Take(t) /\ Fail(Append(args, Absent(op)), flags, owned)
    BY <1>2, <1>7
  <2>2. LineTyped'
    BY <1>1, <1>2, <2>1, NoteTyped
  <2>3. /\ ArgsTyped(Append(args, Absent(op)), flags)
        /\ Freed(Append(args, Absent(op)), flags) = owned
    BY <1>1, StrdupFreed, StringTyped
  <2>4. QED
    BY <1>1, <2>1, <2>2, <2>3, BreakKept
<1>8. QED
  BY <1>4, <1>5, <1>6, <1>7

LEMMA StringKept ==
  ASSUME Inv, String
  PROVE  Inv'
<1>1. pc = "args" /\ Room /\ op = "string" /\ TypeOK /\ Place
  BY DEF String, Looping, Inv, Parsing
<1>2. PICK t \in Coming :
        /\ Take(t)
        /\ IF t \notin {"end", "open"}
             THEN /\ at' = here + 1 /\ args' = Append(args, Found("str"))
                  /\ flags' = [Strdup EXCEPT ![Len(args) + 1] = 0]
                  /\ owned' = owned \cup {Len(args)}
                  /\ UNCHANGED <<pc, in_readline, command, pattern, count, calls, fails, way>>
             ELSE IF opt THEN Continue(here + 1, Append(args, Absent("str")))
             ELSE Fail(args, flags, owned)
  BY DEF String
<1>3. LineTyped'
  BY <1>1, <1>2, NoteTyped
<1>4. op \notin Typed /\ ~Stuck
  BY <1>1 DEF Typed, Stuck
<1>5. ~repeated /\ pattern[here].op = "string" /\ pattern[here].opt = opt
  BY <1>1, <1>4, Here
<1>6. command # "broadcast"
  BY <1>1, BroadcastHere
<1>7. /\ Found("str") \in Value(pattern[here])
      /\ opt => Absent("str") \in Value(pattern[here])
  BY <1>5 DEF Value, MemberOf, Typed
<1>8. CASE t \notin {"end", "open"}
  <2>1. PICK as : as = Append(args, Found("str"))
    OBVIOUS
  <2>2. PICK n : n = Len(args) + 1
    OBVIOUS
  <2>3. /\ ArgsTyped(as, Strdup) /\ Freed(as, Strdup) = owned \cup {Len(args)}
        /\ Len(as) = n /\ n \in Slots
    BY <1>1, <2>1, <2>2, StrdupFreed, StringTyped
  <2>4. /\ Same /\ at' = here + 1 /\ args' = as /\ flags' = [Strdup EXCEPT ![n] = 0]
        /\ owned' = Freed(as, Strdup)
    BY <1>2, <1>8, <2>1, <2>2, <2>3 DEF Same
  <2>5. Cleared(args', flags', owned')
    <3>1. n \in Nat /\ \A j \in 0 .. n - 1 : j # n
      BY <2>3 DEF Slots
    <3>2. /\ flags' \in [Slots -> {0, 1}] /\ flags'[n] = 0
          /\ \A j \in Slots : j # n => flags'[j] = Strdup[j]
      BY <2>3, <2>4 DEF ArgsTyped
    <3>3. \A j \in 0 .. n - 1 : j \in Slots
      BY <2>3, BoundsAssumption DEF BoundsAssumption, Slots
    <3>4. Freed(as, flags') = Freed(as, Strdup)
      BY <2>3, <3>1, <3>2, <3>3 DEF Freed
    <3>5. QED
      BY <2>3, <2>4, <3>2, <3>4 DEF Cleared, ArgsTyped
  <2>6. Place' /\ Stored' /\ OnlyPeers' /\ at' \in 1 .. MaxArgs + 2
    BY <1>1, <1>4, <1>5, <1>6, <1>7, <2>1, <2>4, OneMore, StringTyped
  <2>7. QED
    BY <1>1, <1>3, <2>4, <2>5, <2>6, GoesOn
<1>9. CASE t \in {"end", "open"} /\ opt
  BY <1>1, <1>2, <1>3, <1>4, <1>5, <1>6, <1>7, <1>9, AppendKept, StringTyped
<1>10. CASE t \in {"end", "open"} /\ ~opt
  <2>1. ArgsTyped(args, flags) /\ Freed(args, flags) = owned
    BY <1>1, StrdupFreed, StringTyped
  <2>2. QED
    BY <1>1, <1>2, <1>3, <1>10, <2>1, BreakKept
<1>11. QED
  BY <1>8, <1>9, <1>10

LEMMA NoneLeftKept ==
  ASSUME Inv, NoneLeft
  PROVE  Inv'
<1>1. pc = "args" /\ Room /\ op = "none" /\ TypeOK
  BY DEF NoneLeft, Looping, Inv
<1>2. PICK t \in Coming :
        Take(t) /\ IF t = "end" THEN Fun(args, flags, owned) ELSE Fail(args, flags, owned)
  BY DEF NoneLeft
<1>3. LineTyped'
  BY <1>1, <1>2, NoteTyped
<1>4. ArgsTyped(args, flags) /\ Freed(args, flags) = owned
  BY <1>1, StrdupFreed, StringTyped
<1>5. ~Stuck
  BY <1>1 DEF Stuck, Typed
<1>6. CASE t = "end"
  BY <1>1, <1>2, <1>3, <1>4, <1>5, <1>6, ArgsReadable, FunKept
<1>7. CASE t # "end"
  BY <1>1, <1>2, <1>3, <1>4, <1>7, BreakKept
<1>8. QED
  BY <1>6, <1>7

LEMMA EndOfListKept ==
  ASSUME Inv, EndOfList
  PROVE  Inv'
<1>1. pc = "args" /\ Room /\ TypeOK /\ "end" \in Coming /\ Take("end")
      /\ Fun(args, flags, owned)
  BY DEF EndOfList, Looping, Inv
<1>2. LineTyped'
  BY <1>1, NoteTyped
<1>3. ArgsTyped(args, flags) /\ Freed(args, flags) = owned
  BY <1>1, StrdupFreed, StringTyped
<1>4. ~Stuck
  BY <1>1, Unstuck
<1>5. QED
  BY <1>1, <1>2, <1>3, <1>4, ArgsReadable, FunKept

LEMMA StringEndKept ==
  ASSUME Inv, StringEnd
  PROVE  Inv'
<1>1. pc = "args" /\ Room /\ op = "string_end" /\ TypeOK
  BY DEF StringEnd, Looping, Inv
<1>2. PICK t \in Coming :
       \/ /\ t # "open"
          /\ Take(t)
          /\ Fun(Append(args, Found("str")), Strdup, owned \cup {Len(args)})
       \/ /\ t = "open"
          /\ Take(t) /\ Fail(args, flags, owned)
       \/ /\ t = "quoted" /\ Len(seen) < MaxTokens
          /\ ahead' = "none" /\ ended' = TRUE
          /\ seen' = (IF New(t) THEN Append(seen, t) ELSE seen) \o <<"word">>
          /\ Fail(args, flags, owned)
  BY DEF StringEnd
<1>3. PICK as : as = Append(args, Found("str"))
  OBVIOUS
<1>4. /\ ArgsTyped(args, flags) /\ Freed(args, flags) = owned
      /\ ArgsTyped(as, Strdup) /\ Freed(as, Strdup) = owned \cup {Len(args)}
      /\ Freed(as, flags) = owned
  BY <1>1, <1>3, StrdupFreed, StringTyped
<1>5. CASE Take(t) /\ Fun(as, Strdup, owned \cup {Len(args)})
  <2>1. LineTyped'
    BY <1>1, <1>5, NoteTyped
  <2>2. Enough(as) => Readable(as)
    BY <1>1, <1>3, TextReadable
  <2>3. QED
    BY <1>1, <1>4, <1>5, <2>1, <2>2, FunKept
<1>6. CASE Take(t) /\ Fail(args, flags, owned)
  <2>1. LineTyped'
    BY <1>1, <1>6, NoteTyped
  <2>2. QED
    BY <1>1, <1>4, <1>6, <2>1, BreakKept
<1>7. CASE /\ t = "quoted" /\ ahead' = "none" /\ ended' = TRUE
           /\ seen' = (IF New(t) THEN Append(seen, t) ELSE seen) \o <<"word">>
           /\ Fail(args, flags, owned)
  <2>1. seen \in Seq(Tokens) /\ Append(seen, t) \in Seq(Tokens)
    BY <1>1, <1>7, WordIsToken, AppendProperties DEF TypeOK
  <2>2. PICK w \in Seq(Tokens) : w = <<"word">>
    <3>1. PICK x \in Tokens : x = "word"
      BY WordIsToken
    <3>2. <<x>> \in Seq(Tokens)
      BY Tuples
    <3>3. QED
      BY <3>1, <3>2
  <2>3. seen' \in Seq(Tokens)
    BY <1>7, <2>1, <2>2, ConcatProperties
  <2>4. LineTyped'
    BY <1>7, <2>3 DEF LineTyped
  <2>5. QED
    BY <1>1, <1>4, <1>7, <2>4, BreakKept
<1>8. QED
  BY <1>2, <1>3, <1>5, <1>6, <1>7

(* The line is parsed, or an assertion stops the process. *)
LEMMA ParseKept ==
  ASSUME Inv, Parse
  PROVE  Inv'
<1>1. CASE TooManyArgs
  <2>1. pc = "args" /\ pc' = "dead" /\ UNCHANGED <<line, in_readline, flags, owned>>
    BY <1>1 DEF TooManyArgs, Assertion
  <2>2. TypeOK'
    BY <2>1 DEF Inv, TypeOK, line
  <2>3. StringsFreedOnce'
    BY <2>1 DEF Inv, StringsFreedOnce, Freed, line
  <2>4. HandlerReadsWhatIsStored'
    BY <2>1 DEF HandlerReadsWhatIsStored, Called, Over
  <2>5. QED
    BY <2>1, <2>2, <2>3, <2>4 DEF Inv
<1>2. QED
  BY <1>1, NoneLeftKept, StringEndKept, EndOfListKept, TypedAbsentKept, TypedParsedKept,
     StringKept DEF Parse

LEMMA LineKept ==
  ASSUME Inv, Line
  PROVE  Inv'
<1>1. /\ TypeOK /\ pc = "idle" /\ args = <<>> /\ calls = 0 /\ fails = 0 /\ at = 1
      /\ owned = {} /\ Len(args) = 0
  BY DEF Line, Inv, StringsFreedOnce
<1>2. CASE in_readline
  <2>1. pc' = "dead" /\ UNCHANGED <<line, in_readline, flags, owned>>
    BY <1>2 DEF Line, Assertion
  <2>2. TypeOK'
    BY <1>1, <2>1 DEF TypeOK, line
  <2>3. StringsFreedOnce'
    <3>1. args' = <<>> /\ owned' = {} /\ Len(args') = 0
      BY <1>1, <2>1 DEF line
    <3>2. Freed(args, flags)' = {}
      BY <3>1 DEF Freed
    <3>3. QED
      BY <3>1, <3>2 DEF StringsFreedOnce
  <2>4. HandlerReadsWhatIsStored'
    BY <2>1 DEF HandlerReadsWhatIsStored, Called, Over
  <2>5. QED
    BY <2>1, <2>2, <2>3, <2>4 DEF Inv
<1>3. CASE ~in_readline
  <2>1. /\ pc' = "args" /\ in_readline' = TRUE
        /\ command' \in DOMAIN commands /\ count' \in Counts
        /\ pattern' = commands[command'].args
        /\ flags' = [flags EXCEPT ![0] = 0]
        /\ UNCHANGED <<at, args, owned, ahead, ended, seen, calls, fails, way>>
    BY <1>3 DEF Line
  <2>2. Good(command', commands[command'])
    BY <2>1, Table
  <2>3. 0 \in Slots
    BY BoundsAssumption DEF BoundsAssumption, Slots
  <2>4. flags' \in [Slots -> {0, 1}] /\ flags'[0] = 0
    BY <1>1, <2>1, <2>3 DEF TypeOK
  <2>5. TypeOK'
    BY <1>1, <2>1, <2>2, <2>4 DEF TypeOK, Good
  <2>6. Elem(at)'.op # "period"
    <3>1. Ordered(pattern')
      BY <2>1, <2>2 DEF Good, RowTyped
    <3>2. 1 \in DOMAIN pattern' => pattern'[1].op # "period"
      BY <3>1 DEF Ordered
    <3>3. QED
      BY <1>1, <2>1, <3>2 DEF Elem, None, Arg
  <2>7. Place'
    BY <1>1, <2>1, <2>6 DEF Place
  <2>8. Parsing'
    BY <1>1, <2>1, <2>4, <2>7 DEF Parsing, Stored
  <2>9. StringsFreedOnce'
    <3>1. Freed(args, flags)' = {}
      BY <1>1, <2>1 DEF Freed
    <3>2. QED
      BY <1>1, <2>1, <3>1 DEF StringsFreedOnce
  <2>10. HandlerReadsWhatIsStored'
    BY <2>1 DEF HandlerReadsWhatIsStored, Called, Over
  <2>11. QED
    BY <2>1, <2>5, <2>8, <2>9, <2>10 DEF Inv
<1>4. QED
  BY <1>2, <1>3

LEMMA OtherLineKept ==
  ASSUME Inv, LineWithoutCommand \/ Return
  PROVE  Inv'
<1>1. TypeOK
  BY DEF Inv
<1>2. CASE LineWithoutCommand
  <2>1. /\ pc = "idle" /\ pc' = "done" /\ command = "none" /\ calls' \in {calls, 1}
        /\ fails' \in {0, 1} /\ way' \in {way, "query", "none"}
        /\ UNCHANGED <<in_readline, command, pattern, count, at, args, flags, owned, ahead,
                       ended, seen>>
    BY <1>2 DEF LineWithoutCommand, Inv
  <2>2. TypeOK'
    BY <1>1, <2>1 DEF TypeOK
  <2>3. StringsFreedOnce'
    BY <2>1 DEF StringsFreedOnce, Inv
  <2>4. HandlerReadsWhatIsStored'
    BY <2>1 DEF HandlerReadsWhatIsStored, Called, Over
  <2>5. QED
    BY <2>1, <2>2, <2>3, <2>4 DEF Inv
<1>3. CASE Return
  <2>1. /\ pc = "done" /\ pc' = "idle" /\ Forget /\ UNCHANGED <<in_readline, flags, owned>>
    BY <1>3 DEF Return
  <2>2. TypeOK'
    <3>1. args' \in Seq(SlotValues) /\ Len(args') = 0 /\ seen' \in Seq(Tokens)
      BY <2>1 DEF Forget
    <3>2. at' \in 1 .. MaxArgs + 2 /\ 0 <= MaxArgs
      BY <2>1, BoundsAssumption DEF BoundsAssumption, Forget
    <3>3. QED
      BY <1>1, <2>1, <3>1, <3>2 DEF TypeOK, Forget
  <2>3. StringsFreedOnce'
    BY <2>1 DEF StringsFreedOnce, Inv
  <2>4. HandlerReadsWhatIsStored'
    BY <2>1 DEF HandlerReadsWhatIsStored, Called, Over
  <2>5. QED
    BY <2>1, <2>2, <2>3, <2>4 DEF Inv, Forget
<1>4. QED
  BY <1>2, <1>3

LEMMA InitInv == Init => Inv
<1> SUFFICES ASSUME Init PROVE Inv
  OBVIOUS
<1>1. args \in Seq(SlotValues) /\ Len(args) = 0 /\ seen \in Seq(Tokens)
  BY DEF Init
<1>2. 1 \in 1 .. MaxArgs + 2 /\ 0 <= MaxArgs
  BY BoundsAssumption DEF BoundsAssumption
<1>3. TypeOK
  BY <1>1, <1>2 DEF Init, TypeOK
<1>4. StringsFreedOnce /\ HandlerReadsWhatIsStored
  BY DEF Init, StringsFreedOnce, HandlerReadsWhatIsStored, Called, Over
<1>5. QED
  BY <1>3, <1>4 DEF Init, Inv

-----------------------------------------------------------------------------
(* The inductive invariant: where the pointer stands, which element of the *)
(* pattern each argument is of, and which slots have a string.             *)
THEOREM InvCorrect == Spec => []Inv
<1>1. Inv /\ [Next]_vars => Inv'
  <2> SUFFICES ASSUME Inv, [Next]_vars PROVE Inv'
    OBVIOUS
  <2>1. CASE UNCHANGED vars
    <3>1. TypeOK' /\ StringsFreedOnce' /\ HandlerReadsWhatIsStored'
      BY <2>1 DEF vars, Inv, TypeOK, StringsFreedOnce, Freed, HandlerReadsWhatIsStored, Called,
                  Over, ReadsOf
    <3>2. pc = "args" => Parsing'
      <4>1. Place' <=> Place
        BY <2>1 DEF vars, Place, Elem
      <4>2. Stuck' <=> Stuck
        BY <2>1 DEF vars, Stuck, opt, op, repeated, here, Elem
      <4>3. \A i, k : Of(i, k) => Of(i, k)'
        BY <2>1 DEF vars, Of
      <4>4. Stored => Stored'
        BY <2>1, <4>2, <4>3 DEF vars, Stored
      <4>5. QED
        BY <2>1, <4>1, <4>4 DEF vars, Inv, Parsing
    <3>3. QED
      BY <2>1, <3>1, <3>2 DEF vars, Inv
  <2>2. QED
    BY <2>1, ParseKept, LineKept, OtherLineKept DEF Next
<1>2. QED
  BY <1>1, InitInv, PTL DEF Spec

(* The array of arguments and its flags keep their types, for every bound  *)
(* on the tokens and every size of the array (interface.c:3424).           *)
THEOREM TypeCorrect == Spec => []TypeOK
<1>1. Inv => TypeOK
  BY DEF Inv
<1>2. QED
  BY <1>1, InvCorrect, PTL

(* Each string that was duplicated for a line is freed exactly once, when  *)
(* the line is over, whatever the flags of the static array say of earlier *)
(* lines (interface.c:3688).                                               *)
THEOREM StringsCorrect == Spec => []StringsFreedOnce
<1>1. Inv => StringsFreedOnce
  BY DEF Inv
<1>2. QED
  BY <1>1, InvCorrect, PTL

(* The handlers read the member of the union that the loop stored, for the *)
(* whole table of commands, lines of any length and any number of slots.   *)
THEOREM ReadsCorrect == Spec => []HandlerReadsWhatIsStored
<1>1. Inv => HandlerReadsWhatIsStored
  BY DEF Inv
<1>2. QED
  BY <1>1, InvCorrect, PTL

-----------------------------------------------------------------------------
(* Induction, from the order of the natural numbers. *)
LEMMA Induction ==
  ASSUME NEW X, 0 \in X, \A n \in Nat : n \in X => n + 1 \in X
  PROVE  Nat \subseteq X
<1> DEFINE T == Nat \ X
<1> SUFFICES ASSUME T # {} PROVE FALSE
  BY Zenon
<1>1. PICK i \in T : \A j \in T : ~(<<j, i>> \in OpToRel(<, Nat))
  <2>1. T \subseteq Nat
    BY Zenon
  <2>2. QED
    BY <2>1, NatLessThanWellFounded, WFMin, Zenon
<1>2. \A j \in T : ~(j < i)
  BY <1>1 DEF OpToRel
<1>3. i \in Nat /\ i # 0 /\ i - 1 \in Nat /\ i - 1 < i /\ (i - 1) + 1 = i
  OBVIOUS
<1>4. i - 1 \in X
  BY <1>2, <1>3
<1>5. QED
  BY <1>3, <1>4

(* Induction along the numbers up to L. *)
LEMMA Along ==
  ASSUME NEW L \in Nat, NEW X, 0 \in X, \A i \in 1 .. L : i - 1 \in X => i \in X
  PROVE  \A i \in 0 .. L : i \in X
<1> DEFINE T == {k \in Nat : k <= L => k \in X}
<1>1. 0 \in T
  OBVIOUS
<1>2. ASSUME NEW k \in Nat, k \in T PROVE k + 1 \in T
  <2>1. CASE k + 1 <= L
    <3>1. k + 1 \in 1 .. L /\ (k + 1) - 1 = k /\ k <= L
      BY <2>1
    <3>2. k \in X
      BY <1>2, <3>1
    <3>3. QED
      BY <3>1, <3>2
  <2>2. CASE ~(k + 1 <= L)
    BY <2>2
  <2>3. QED
    BY <2>1, <2>2
<1>3. Nat \subseteq T
  <2> HIDE DEF T
  <2> QED BY <1>1, <1>2, Induction
<1>4. QED
  BY <1>3

(* The function f is a at 0, and G leads from each of its values to the    *)
(* next.                                                                   *)
Recursive(f, L, V, a, G) ==
  /\ f \in [0 .. L -> V] /\ f[0] = a
  /\ \A i \in 1 .. L : f[i] = G[<<i, f[i - 1]>>]

(* Such a function exists. *)
LEMMA Recursion ==
  ASSUME NEW L \in Nat, NEW V, NEW a \in V, NEW G \in [(1 .. L) \X V -> V]
  PROVE  \E f : Recursive(f, L, V, a, G)
<1> DEFINE Works(f, n) == f[0] = a /\ \A i \in 1 .. n : f[i] = G[<<i, f[i - 1]>>]
           Defined(n) == n <= L => \E f \in [0 .. n -> V] : Works(f, n)
           X == {n \in Nat : Defined(n)}
<1>1. Defined(0)
  <2> DEFINE f == [i \in 0 .. 0 |-> a]
  <2>1. f \in [0 .. 0 -> V] /\ Works(f, 0)
    OBVIOUS
  <2> QED
    BY <2>1
<1>2. ASSUME NEW n \in Nat, Defined(n) PROVE Defined(n + 1)
  <2> SUFFICES ASSUME n + 1 <= L
               PROVE  \E f \in [0 .. n + 1 -> V] : Works(f, n + 1)
    OBVIOUS
  <2>1. PICK g \in [0 .. n -> V] : Works(g, n)
    BY <1>2
  <2> DEFINE m == n + 1
             f == [i \in 0 .. m |-> IF i = m THEN G[<<m, g[n]>>] ELSE g[i]]
  <2>2. G[<<m, g[n]>>] \in V
    OBVIOUS
  <2>3. f \in [0 .. m -> V]
    BY <2>2
  <2>4. ASSUME NEW i \in 1 .. m PROVE f[i] = G[<<i, f[i - 1]>>]
    <3>1. CASE i = m
      <4>1. i - 1 = n /\ n \in 0 .. m /\ n # m /\ i \in 0 .. m
        BY <3>1
      <4>2. f[i] = G[<<m, g[n]>>] /\ f[n] = g[n]
        BY <3>1, <4>1
      <4>3. QED
        BY <3>1, <4>1, <4>2
    <3>2. CASE i # m
      <4>1. i \in 1 .. n /\ i - 1 \in 0 .. m /\ i - 1 # m /\ i \in 0 .. m
        BY <3>2
      <4>2. f[i] = g[i] /\ f[i - 1] = g[i - 1]
        BY <3>2, <4>1
      <4>3. QED
        BY <2>1, <4>1, <4>2
    <3>3. QED
      BY <3>1, <3>2
  <2>5. f[0] = a
    BY <2>1
  <2>6. QED
    <3> HIDE DEF f
    <3> QED BY <2>3, <2>4, <2>5
<1>3. Nat \subseteq X
  <2> HIDE DEF Defined
  <2>1. 0 \in X /\ \A k \in Nat : k \in X => k + 1 \in X
    BY <1>1, <1>2
  <2> HIDE DEF X
  <2>2. QED
    BY <2>1, Induction
<1>4. Defined(L)
  <2> HIDE DEF Defined
  <2> QED BY <1>3
<1>5. QED
  BY <1>4 DEF Recursive

(* Where element i can end when the one before it ends at one of ms. *)
After(p, ts, i, ms) ==
  {n \in 0 .. Len(ts) : \E m \in ms : /\ m <= n
                                      /\ Takes(p[i], List(p, i), SubSeq(ts, m + 1, n))}

(* The recursion of Ends, as an equation for each element. *)
LEMMA EndsRecursion ==
  ASSUME NEW p \in Seq(Element), NEW ts \in Seq(Tokens)
  PROVE  /\ Ends(p, ts) \in [0 .. Len(p) -> SUBSET (0 .. Len(ts))]
         /\ Ends(p, ts)[0] = {0}
         /\ \A i \in 1 .. Len(p) : Ends(p, ts)[i] = After(p, ts, i, Ends(p, ts)[i - 1])
<1> DEFINE n == Len(p)
           V == SUBSET (0 .. Len(ts))
           a == {0}
           G == [x \in (1 .. n) \X V |-> After(p, ts, x[1], x[2])]
           Eq(h) == h = [i \in 0 .. n |->
                          IF i = 0 THEN {0}
                          ELSE {k \in 0 .. Len(ts) : \E m \in h[i - 1] :
                             /\ m <= k
                             /\ Takes(p[i], i < n /\ p[i + 1].op = "period",
                                      SubSeq(ts, m + 1, k))}]
           A == CHOOSE h : Eq(h)
<1>1. n \in Nat /\ Len(ts) \in Nat /\ a \in V /\ DOMAIN p = 1 .. n
  BY LenProperties
<1>2. Ends(p, ts) = A
  BY DEF Ends
<1>3. \A i \in 1 .. n : List(p, i) <=> i < n /\ p[i + 1].op = "period"
  BY <1>1 DEF List
<1>4. \A i \in 1 .. n, ms \in V : After(p, ts, i, ms) \in V
  BY DEF After
<1> HIDE DEF V, a, n
<1>5. G \in [(1 .. n) \X V -> V] /\ \A i \in 1 .. n, r \in V : G[<<i, r>>] = After(p, ts, i, r)
  BY <1>4
<1> HIDE DEF G
<1>6. PICK f : Recursive(f, n, V, a, G)
  BY <1>1, <1>5, Recursion
<1>7. \A i \in 1 .. n : \A h : {k \in 0 .. Len(ts) : \E m \in h[i - 1] :
                             /\ m <= k
                             /\ Takes(p[i], i < n /\ p[i + 1].op = "period",
                                      SubSeq(ts, m + 1, k))} = After(p, ts, i, h[i - 1])
  <2> TAKE i \in 1 .. n
  <2>1. List(p, i) <=> i < n /\ p[i + 1].op = "period"
    BY <1>3
  <2>2. CASE List(p, i)
    <3>1. List(p, i) = TRUE /\ (i < n /\ p[i + 1].op = "period") = TRUE
      BY <2>1, <2>2
    <3>2. QED
      BY <3>1 DEF After
  <2>3. CASE ~List(p, i)
    <3>1. List(p, i) = FALSE /\ (i < n /\ p[i + 1].op = "period") = FALSE
      BY <2>1, <2>3 DEF List
    <3>2. QED
      BY <3>1 DEF After
  <2>4. QED
    BY <2>2, <2>3
<1>8. Eq(f)
  <2>1. f \in [0 .. n -> V] /\ f[0] = a /\ \A i \in 1 .. n : f[i] = G[<<i, f[i - 1]>>]
    BY <1>6 DEF Recursive
  <2>2. ASSUME NEW i \in 0 .. n
        PROVE  f[i] = IF i = 0 THEN a ELSE After(p, ts, i, f[i - 1])
    <3>1. CASE i = 0
      BY <2>1, <3>1
    <3>2. CASE i # 0
      <4>1. i \in 1 .. n /\ i - 1 \in 0 .. n
        BY <1>1, <3>2
      <4>2. f[i - 1] \in V
        BY <2>1, <4>1
      <4>3. QED
        BY <1>5, <2>1, <3>2, <4>1, <4>2
    <3>3. QED
      BY <3>1, <3>2
  <2>3. \A i \in 0 .. n : i # 0 => i \in 1 .. n
    BY <1>1
  <2>4. QED
    BY <1>7, <2>1, <2>2, <2>3 DEF a
<1>9. Eq(A)
  <2> HIDE DEF Eq
  <2> QED BY <1>8, Zenon DEF A
<1> HIDE DEF A
<1>10. A[0] = {0} /\ A = [i \in 0 .. n |-> A[i]]
  BY <1>1, <1>9
<1>11. \A i \in 1 .. n : A[i] = After(p, ts, i, A[i - 1])
  <2> TAKE i \in 1 .. n
  <2>1. i \in 0 .. n /\ i # 0
    BY <1>1
  <2>2. QED
    BY <1>7, <1>9, <2>1
<1>12. \A i \in 0 .. n : A[i] \in V
  <2> DEFINE T == {i \in 0 .. n : A[i] \in V}
  <2>1. 0 \in T
    BY <1>1, <1>10 DEF a
  <2>2. \A i \in 1 .. n : i - 1 \in T => i \in T
    BY <1>4, <1>11
  <2>3. \A i \in 0 .. n : i \in T
    <3> HIDE DEF T
    <3> QED BY <1>1, <2>1, <2>2, Along
  <2>4. QED
    BY <2>3
<1>13. QED
  BY <1>2, <1>10, <1>11, <1>12 DEF n, V

-----------------------------------------------------------------------------
(* A part of a line. *)
LEMMA PartOf ==
  ASSUME NEW ts \in Seq(Tokens), NEW n \in 0 .. Len(ts), NEW m \in 0 .. n
  PROVE  /\ SubSeq(ts, m + 1, n) \in Seq(Tokens) /\ Len(SubSeq(ts, m + 1, n)) = n - m
         /\ \A j \in 1 .. n - m : SubSeq(ts, m + 1, n)[j] = ts[m + j]
<1>1. m + 1 \in 1 .. n + 1 /\ n <= Len(ts) /\ (n + 1) - (m + 1) = n - m
      /\ \A j \in 1 .. n - m : (m + 1) + j - 1 = m + j
  OBVIOUS
<1>2. \A j \in 1 .. n - m : m + j \in 1 .. Len(ts)
  OBVIOUS
<1>3. SubSeq(ts, m + 1, n) = [j \in 1 .. (1 + n - (m + 1)) |-> ts[j + (m + 1) - 1]]
  OBVIOUS
<1>4. 1 + n - (m + 1) = n - m /\ \A j \in 1 .. n - m : j + (m + 1) - 1 = m + j
  OBVIOUS
<1>5. SubSeq(ts, m + 1, n) = [j \in 1 .. n - m |-> ts[m + j]]
  BY <1>3, <1>4
<1>6. \A j \in 1 .. n - m : ts[m + j] \in Tokens
  BY <1>2, ElementOfSeq
<1>7. n - m \in Nat
  OBVIOUS
<1>8. QED
  BY <1>5, <1>6, <1>7

(* Where element i ends. *)
EndsAt(p, ts, i, m, n) == m <= n /\ Takes(p[i], List(p, i), SubSeq(ts, m + 1, n))

(* The places where element i can end, one at a time. *)
LEMMA EndsStep ==
  ASSUME NEW p \in Seq(Element), NEW ts \in Seq(Tokens), NEW i \in 1 .. Len(p), NEW n \in Nat
  PROVE  /\ n \in Ends(p, ts)[i] <=>
              n <= Len(ts) /\ \E m \in Ends(p, ts)[i - 1] : EndsAt(p, ts, i, m, n)
         /\ \A k \in 0 .. Len(p) : Ends(p, ts)[k] \subseteq 0 .. Len(ts)
         /\ i - 1 \in 0 .. Len(p) /\ Ends(p, ts)[i - 1] \subseteq Nat
<1>1. Ends(p, ts)[i] = After(p, ts, i, Ends(p, ts)[i - 1])
  BY EndsRecursion
<1>2. \A k \in 0 .. Len(p) : Ends(p, ts)[k] \subseteq 0 .. Len(ts)
  BY EndsRecursion
<1>3. Len(ts) \in Nat /\ Len(p) \in Nat
  BY LenProperties
<1>4. i - 1 \in 0 .. Len(p) /\ (n \in 0 .. Len(ts) <=> n <= Len(ts)) /\ 0 .. Len(ts) \subseteq Nat
  BY <1>3
<1>5. QED
  BY <1>1, <1>2, <1>4 DEF After, EndsAt

(* The ends up to place k depend on the first k tokens only. *)
LEMMA EndsSame ==
  ASSUME NEW p \in Seq(Element), NEW ts \in Seq(Tokens), NEW us \in Seq(Tokens),
         NEW k \in Nat, k <= Len(ts), k <= Len(us), \A j \in 1 .. k : ts[j] = us[j],
         NEW i \in 0 .. Len(p), NEW n \in Ends(p, ts)[i], n <= k
  PROVE  n \in Ends(p, us)[i]
<1> DEFINE T == {h \in 0 .. Len(p) : \A l \in Ends(p, ts)[h] : l <= k => l \in Ends(p, us)[h]}
<1>1. Len(p) \in Nat
  BY LenProperties
<1>2. 0 \in T
  BY <1>1, EndsRecursion
<1>3. ASSUME NEW h \in 1 .. Len(p), h - 1 \in T PROVE h \in T
  <2>1. ASSUME NEW l \in Ends(p, ts)[h], l <= k PROVE l \in Ends(p, us)[h]
    <3>1. l \in Nat /\ h \in 0 .. Len(p)
      <4>1. h \in 0 .. Len(p) /\ Len(ts) \in Nat
        BY <1>1, LenProperties
      <4>2. l \in 0 .. Len(ts)
        BY <2>1, <4>1, EndsRecursion
      <4>3. QED
        BY <4>1, <4>2
    <3>2. PICK m \in Ends(p, ts)[h - 1] : EndsAt(p, ts, h, m, l)
      BY <2>1, <3>1, EndsStep
    <3>3. m \in Nat /\ m <= l /\ m <= k
      <4>1. m \in Nat
        BY <3>1, EndsStep
      <4>2. QED
        BY <2>1, <3>1, <3>2, <4>1 DEF EndsAt
    <3>4. m \in Ends(p, us)[h - 1]
      BY <1>3, <3>3
    <3>5. SubSeq(ts, m + 1, l) = SubSeq(us, m + 1, l)
      <4>1. /\ Len(ts) \in Nat /\ Len(us) \in Nat
            /\ l \in 0 .. Len(ts) /\ l \in 0 .. Len(us) /\ m \in 0 .. l
        BY <2>1, <3>1, <3>3, LenProperties
      <4>2. PICK s \in Seq(Tokens) : s = SubSeq(ts, m + 1, l)
        BY <4>1, PartOf
      <4>3. PICK u \in Seq(Tokens) : u = SubSeq(us, m + 1, l)
        BY <4>1, PartOf
      <4>4. /\ Len(s) = l - m /\ Len(u) = l - m
            /\ \A j \in 1 .. l - m : s[j] = ts[m + j] /\ u[j] = us[m + j]
        BY <4>1, <4>2, <4>3, PartOf
      <4>5. \A j \in 1 .. l - m : m + j \in 1 .. k
        BY <2>1, <3>1, <3>3
      <4>6. \A j \in 1 .. l - m : s[j] = u[j]
        BY <4>4, <4>5
      <4>7. s = u
        BY <4>4, <4>6
      <4>8. QED
        BY <4>2, <4>3, <4>7
    <3>6. EndsAt(p, us, h, m, l)
      BY <3>2, <3>5 DEF EndsAt
    <3>7. l <= Len(us)
      BY <2>1, <3>1, LenProperties
    <3>8. QED
      BY <3>1, <3>4, <3>6, <3>7, EndsStep
  <2>2. h \in 0 .. Len(p)
    BY <1>1
  <2>3. QED
    BY <2>1, <2>2
<1>4. \A h \in 0 .. Len(p) : h \in T
  <2>1. \A h \in 1 .. Len(p) : h - 1 \in T => h \in T
    BY <1>3
  <2> HIDE DEF T
  <2>2. QED
    BY <1>1, <1>2, <2>1, Along
<1>5. QED
  BY <1>4

(* One token, of an element that takes one. *)
LEMMA OneToken ==
  ASSUME NEW p \in Seq(Element), NEW ts \in Seq(Tokens), NEW i \in 1 .. Len(p),
         NEW n \in Ends(p, ts)[i - 1], n + 1 <= Len(ts),
         p[i].op \notin {"period", "string_end"}, Fills(p[i], ts[n + 1])
  PROVE  n + 1 \in Ends(p, ts)[i]
<1>1. n \in Nat /\ Len(ts) \in Nat /\ n + 1 \in Nat
  BY 0 \in Nat, EndsStep, LenProperties
<1>2. n + 1 \in 0 .. Len(ts) /\ n \in 0 .. n + 1 /\ (n + 1) - n = 1 /\ n <= n + 1
  BY <1>1
<1>3. PICK s \in Seq(Tokens) : s = SubSeq(ts, n + 1, n + 1)
  BY <1>2, PartOf
<1>4. Len(s) = 1 /\ s[1] = ts[n + 1]
  <2>1. Len(s) = (n + 1) - n /\ \A j \in 1 .. (n + 1) - n : s[j] = ts[n + j]
    BY <1>2, <1>3, PartOf
  <2>2. QED
    BY <1>2, <2>1
<1>5. \A j \in DOMAIN s : j = 1
  <2>1. DOMAIN s = 1 .. 1
    BY <1>3, <1>4, LenProperties
  <2>2. QED
    BY <2>1
<1>6. Takes(p[i], List(p, i), s)
  BY <1>4, <1>5 DEF Takes
<1>7. EndsAt(p, ts, i, n, n + 1)
  BY <1>2, <1>3, <1>6 DEF EndsAt
<1>8. QED
  BY <1>1, <1>7, EndsStep

(* No token: a period, a list, or an optional element. *)
LEMMA NoToken ==
  ASSUME NEW p \in Seq(Element), NEW ts \in Seq(Tokens), NEW i \in 1 .. Len(p),
         NEW n \in Ends(p, ts)[i - 1], p[i].op # "string_end",
         p[i].op = "period" \/ List(p, i) \/ p[i].opt
  PROVE  n \in Ends(p, ts)[i]
<1>1. n \in Nat /\ Len(ts) \in Nat /\ n <= Len(ts)
  <2>1. n \in 0 .. Len(ts) /\ Len(ts) \in Nat
    BY 0 \in Nat, EndsStep, LenProperties
  <2>2. QED
    BY <2>1
<1>2. n \in 0 .. Len(ts) /\ n \in 0 .. n /\ n - n = 0 /\ n <= n
  BY <1>1
<1>3. PICK s \in Seq(Tokens) : s = SubSeq(ts, n + 1, n)
  BY <1>2, PartOf
<1>4. Len(s) = 0 /\ s = <<>> /\ DOMAIN s = {}
  <2>1. Len(s) = n - n
    BY <1>2, <1>3, PartOf
  <2>2. QED
    BY <1>2, <1>3, <2>1
<1>5. Takes(p[i], List(p, i), s)
  BY <1>4 DEF Takes
<1>6. EndsAt(p, ts, i, n, n)
  BY <1>2, <1>3, <1>5 DEF EndsAt
<1>7. QED
  BY <1>1, <1>6, EndsStep

(* One token more of a list. *)
LEMMA ListToken ==
  ASSUME NEW p \in Seq(Element), NEW ts \in Seq(Tokens), NEW i \in 1 .. Len(p),
         List(p, i), p[i].op \in Typed,
         NEW n \in Ends(p, ts)[i], n + 1 <= Len(ts), Fills(p[i], ts[n + 1])
  PROVE  n + 1 \in Ends(p, ts)[i]
<1>1. n \in Nat /\ Len(ts) \in Nat /\ n + 1 \in Nat
  <2>1. i \in 0 .. Len(p)
    BY LenProperties
  <2>2. n \in 0 .. Len(ts)
    BY 0 \in Nat, <2>1, EndsStep
  <2>3. QED
    BY <2>2, LenProperties
<1>2. PICK m \in Ends(p, ts)[i - 1] : EndsAt(p, ts, i, m, n)
  BY <1>1, EndsStep
<1>3. m \in Nat /\ m <= n
  BY 0 \in Nat, <1>2, EndsStep DEF EndsAt
<1>4. /\ n + 1 \in 0 .. Len(ts) /\ m \in 0 .. n + 1 /\ n \in 0 .. Len(ts) /\ m \in 0 .. n
      /\ (n + 1) - m = (n - m) + 1 /\ n - m \in Nat /\ m + ((n - m) + 1) = n + 1
  BY <1>1, <1>3
<1>5. PICK s \in Seq(Tokens) : s = SubSeq(ts, m + 1, n)
  BY <1>4, PartOf
<1>6. PICK u \in Seq(Tokens) : u = SubSeq(ts, m + 1, n + 1)
  BY <1>4, PartOf
<1>7. PICK k \in Nat : k = n - m
  BY <1>4
<1>8. /\ Len(s) = k /\ \A j \in 1 .. k : s[j] = ts[m + j]
      /\ Len(u) = k + 1 /\ \A j \in 1 .. k + 1 : u[j] = ts[m + j]
  BY <1>4, <1>5, <1>6, <1>7, PartOf
<1>9. p[i].op \notin {"period", "string_end"}
  BY DEF Typed
<1>10. \A j \in DOMAIN s : Fills(p[i], s[j])
  BY <1>2, <1>5, <1>9 DEF EndsAt, Takes
<1>11. DOMAIN s = 1 .. k /\ DOMAIN u = 1 .. k + 1
  BY <1>5, <1>6, <1>8, LenProperties
<1>12. u[k + 1] = ts[n + 1]
  BY <1>4, <1>7, <1>8
<1>13. \A j \in 1 .. k + 1 : j \in 1 .. k \/ j = k + 1
  OBVIOUS
<1>14. \A j \in DOMAIN u : Fills(p[i], u[j])
  <2>1. \A j \in 1 .. k : u[j] = s[j]
    BY <1>8
  <2>2. \A j \in 1 .. k : Fills(p[i], u[j])
    BY <1>10, <1>11, <2>1
  <2>3. Fills(p[i], u[k + 1])
    BY <1>12
  <2>4. QED
    BY <1>11, <1>13, <2>2, <2>3
<1>15. EndsAt(p, ts, i, m, n + 1)
  BY <1>1, <1>3, <1>6, <1>9, <1>14 DEF EndsAt, Takes
<1>16. QED
  BY <1>1, <1>15, EndsStep

(* The rest of the line: nothing, or a text. *)
LEMMA RestToken ==
  ASSUME NEW p \in Seq(Element), NEW ts \in Seq(Tokens), NEW i \in 1 .. Len(p),
         NEW n \in Ends(p, ts)[i - 1], p[i].op = "string_end",
         n = Len(ts) \/ (n + 1 = Len(ts) /\ ts[n + 1] \in Unquoted \cup {"quoted"})
  PROVE  Len(ts) \in Ends(p, ts)[i]
<1>1. n \in Nat /\ Len(ts) \in Nat /\ n <= Len(ts)
  BY 0 \in Nat, EndsStep, LenProperties
<1>2. Len(ts) \in 0 .. Len(ts) /\ n \in 0 .. Len(ts)
  BY <1>1
<1>3. PICK s \in Seq(Tokens) : s = SubSeq(ts, n + 1, Len(ts))
  BY <1>2, PartOf
<1>4. Len(s) = Len(ts) - n /\ \A j \in 1 .. Len(ts) - n : s[j] = ts[n + j]
  BY <1>2, <1>3, PartOf
<1>5. s = <<>> \/ s = <<"quoted">> \/ (Len(s) > 0 /\ s[1] \in Unquoted)
  <2>1. CASE n = Len(ts)
    <3>1. Len(s) = 0
      BY <1>1, <1>4, <2>1
    <3>2. QED
      BY <1>3, <3>1
  <2>2. CASE n + 1 = Len(ts)
    <3>1. Len(s) = 1 /\ s[1] = ts[n + 1]
      BY <1>1, <1>4, <2>2
    <3>2. ASSUME s[1] = "quoted" PROVE s = <<"quoted">>
      <4>1. PICK u \in Seq(Tokens) : u = <<"quoted">>
        <5>1. PICK x \in Tokens : x = "quoted"
          BY WordIsToken
        <5>2. <<x>> \in Seq(Tokens)
          BY Tuples
        <5>3. QED
          BY <5>1, <5>2
      <4>2. Len(u) = 1 /\ u[1] = s[1]
        BY <3>2, <4>1
      <4>3. Len(s) = Len(u) /\ \A j \in 1 .. Len(s) : s[j] = u[j]
        BY <3>1, <4>2
      <4>4. s = u
        BY <4>3, SeqEqual
      <4>5. QED
        BY <4>1, <4>4
    <3>3. n # Len(ts)
      BY <1>1, <2>2
    <3>4. QED
      BY <3>1, <3>2, <3>3
  <2>3. QED
    BY <2>1, <2>2
<1>6. EndsAt(p, ts, i, n, Len(ts))
  <2>1. Takes(p[i], List(p, i), s)
    BY <1>5 DEF Takes
  <2>2. QED
    BY <1>1, <1>3, <2>1 DEF EndsAt
<1>7. PICK k \in Nat : k = Len(ts)
  BY <1>1
<1>8. EndsAt(p, ts, i, n, k) /\ k <= Len(ts)
  BY <1>6, <1>7
<1>9. k \in Ends(p, ts)[i]
  BY <1>8, EndsStep
<1>10. QED
  BY <1>7, <1>9

-----------------------------------------------------------------------------
(* The patterns but those of broadcast and search.  The first pre elements *)
(* take one token each; behind them are optional elements of one kind, or  *)
(* one text, or one list.                                                  *)
Must(q, pre) ==
  /\ pre \in 0 .. Len(q)
  /\ \A k \in 1 .. pre : q[k].op \in Typed \cup {"string"} /\ ~q[k].opt /\ ~List(q, k)
OptTail(q, pre) ==
  \A k \in pre + 1 .. Len(q) : q[k].opt /\ q[k].op \in Typed /\ q[k].op = q[Len(q)].op
TextTail(q, pre) ==
  /\ pre + 1 = Len(q)
  /\ q[pre + 1].op = "string_end" \/ (q[pre + 1].op = "string" /\ q[pre + 1].opt)
ListTail(q, pre) == pre + 2 = Len(q) /\ List(q, pre + 1)
Shape(q, pre) == Must(q, pre) /\ (OptTail(q, pre) \/ TextTail(q, pre) \/ ListTail(q, pre))

(* Each of the first pre elements ends behind its token, or nowhere. *)
LEMMA MustEnds ==
  ASSUME NEW p \in Seq(Element), NEW ts \in Seq(Tokens), NEW pre, Must(p, pre),
         NEW i \in 0 .. pre
  PROVE  Ends(p, ts)[i] \subseteq {i}
<1>1. pre \in 0 .. Len(p) /\ pre \in Nat /\ Len(p) \in Nat /\ Len(ts) \in Nat
  <2>1. pre \in 0 .. Len(p) /\ Len(p) \in Nat /\ Len(ts) \in Nat
    BY LenProperties DEF Must
  <2>2. QED
    BY <2>1
<1> DEFINE T == {h \in 0 .. pre : Ends(p, ts)[h] \subseteq {h}}
<1>2. 0 \in T
  BY <1>1, EndsRecursion
<1>3. ASSUME NEW h \in 1 .. pre, h - 1 \in T PROVE h \in T
  <2>1. h \in 1 .. Len(p) /\ h \in 0 .. Len(p) /\ h \in 0 .. pre
    BY <1>1
  <2>2. ASSUME NEW n \in Ends(p, ts)[h] PROVE n = h
    <3>1. n \in Nat /\ n <= Len(ts)
      <4>1. n \in 0 .. Len(ts)
        BY 0 \in Nat, <2>1, EndsStep
      <4>2. QED
        BY <1>1, <4>1
    <3>2. PICK m \in Ends(p, ts)[h - 1] : EndsAt(p, ts, h, m, n)
      BY <2>1, <3>1, EndsStep
    <3>3. m = h - 1 /\ h - 1 \in Nat /\ m \in Nat
      BY <1>3
    <3>4. ~List(p, h) /\ ~p[h].opt /\ p[h].op \notin {"period", "string_end"}
      BY DEF Must, Typed
    <3>5. Len(SubSeq(ts, m + 1, n)) = 1 /\ m <= n
      BY <3>2, <3>4 DEF EndsAt, Takes
    <3>6. n \in 0 .. Len(ts) /\ m \in 0 .. n
      BY <1>1, <3>1, <3>3, <3>5
    <3>7. n - m = 1
      BY <3>5, <3>6, PartOf
    <3>8. QED
      BY <3>1, <3>3, <3>7
  <2>3. QED
    BY <2>1, <2>2
<1>4. \A h \in 0 .. pre : h \in T
  <2>1. \A h \in 1 .. pre : h - 1 \in T => h \in T
    BY <1>3
  <2> HIDE DEF T
  <2>2. QED
    BY <1>1, <1>2, <2>1, Along
<1>5. QED
  BY <1>4

(* An element that has to take a token and cannot ends nowhere, and so do  *)
(* those behind it.                                                        *)
LEMMA Refused ==
  ASSUME NEW p \in Seq(Element), NEW ts \in Seq(Tokens), NEW pre, Must(p, pre),
         NEW h \in 1 .. pre, h > Len(ts) \/ ~Fills(p[h], ts[h]),
         NEW i \in h .. Len(p)
  PROVE  Ends(p, ts)[i] = {}
<1>1. /\ pre \in 0 .. Len(p) /\ pre \in Nat /\ Len(p) \in Nat /\ Len(ts) \in Nat /\ h \in Nat
      /\ h \in 1 .. Len(p) /\ h \in 0 .. pre /\ h - 1 \in 0 .. pre /\ h \in 0 .. Len(p) /\ h # 0
  <2>1. pre \in 0 .. Len(p) /\ Len(p) \in Nat /\ Len(ts) \in Nat
    BY LenProperties DEF Must
  <2>2. QED
    BY <2>1
<1> DEFINE T == {j \in 0 .. Len(p) : j >= h => Ends(p, ts)[j] = {}}
<1>2. 0 \in T
  BY <1>1
<1>3. Ends(p, ts)[h] = {}
  <2> SUFFICES ASSUME NEW n \in Ends(p, ts)[h] PROVE FALSE
    OBVIOUS
  <2>1. n = h
    BY <1>1, MustEnds
  <2>2. n \in Nat /\ n <= Len(ts)
    <3>1. n \in 0 .. Len(ts)
      BY 0 \in Nat, <1>1, EndsStep
    <3>2. QED
      BY <1>1, <3>1
  <2>3. PICK m \in Ends(p, ts)[h - 1] : EndsAt(p, ts, h, m, n)
    BY <1>1, <2>2, EndsStep
  <2>4. m = h - 1
    BY <1>1, MustEnds
  <2>5. n \in 0 .. Len(ts) /\ m \in 0 .. n /\ n - m = 1 /\ m + 1 = h /\ m \in Nat
    BY <1>1, <2>1, <2>2, <2>4
  <2>6. PICK s \in Seq(Tokens) : s = SubSeq(ts, m + 1, n)
    BY <2>5, PartOf
  <2>7. Len(s) = 1 /\ s[1] = ts[h]
    <3>1. Len(s) = n - m /\ \A j \in 1 .. n - m : s[j] = ts[m + j]
      BY <2>5, <2>6, PartOf
    <3>2. QED
      BY <2>5, <3>1
  <2>8. 1 \in DOMAIN s
    BY <2>6, <2>7
  <2>9. p[h].op \notin {"period", "string_end"}
    BY DEF Must, Typed
  <2>10. Fills(p[h], ts[h])
    BY <2>3, <2>6, <2>7, <2>8, <2>9 DEF EndsAt, Takes
  <2>11. QED
    BY <1>1, <2>1, <2>2, <2>10
<1>4. ASSUME NEW j \in 1 .. Len(p), j - 1 \in T PROVE j \in T
  <2>1. j \in 0 .. Len(p) /\ j \in Nat
    BY <1>1
  <2>2. CASE j >= h /\ j # h
    <3>1. Ends(p, ts)[j - 1] = {}
      <4>1. j - 1 >= h
        BY <1>1, <2>1, <2>2
      <4>2. QED
        BY <1>4, <4>1
    <3>2. ASSUME NEW n \in Ends(p, ts)[j] PROVE FALSE
      <4>1. n \in Nat
        <5>1. n \in 0 .. Len(ts)
          BY 0 \in Nat, <2>1, EndsStep
        <5>2. QED
          BY <5>1
      <4>2. QED
        BY <3>1, <4>1, EndsStep
    <3>3. QED
      BY <2>1, <3>2
  <2>3. CASE j = h
    BY <1>3, <2>1, <2>3
  <2>4. CASE ~(j >= h)
    BY <2>1, <2>4
  <2>5. QED
    BY <2>2, <2>3, <2>4
<1>5. \A j \in 0 .. Len(p) : j \in T
  <2>1. \A j \in 1 .. Len(p) : j - 1 \in T => j \in T
    BY <1>4
  <2> HIDE DEF T
  <2>2. QED
    BY <1>1, <1>2, <2>1, Along
<1>6. i \in 0 .. Len(p) /\ i >= h
  BY <1>1
<1>7. QED
  BY <1>5, <1>6

(* Without a list and a text no more tokens than elements are taken. *)
LEMMA NotLonger ==
  ASSUME NEW p \in Seq(Element), NEW ts \in Seq(Tokens),
         \A k \in 1 .. Len(p) : p[k].op \notin {"period", "string_end"},
         NEW i \in 0 .. Len(p), NEW n \in Ends(p, ts)[i]
  PROVE  n <= i
<1>1. Len(p) \in Nat /\ Len(ts) \in Nat /\ DOMAIN p = 1 .. Len(p)
  BY LenProperties
<1> DEFINE T == {h \in 0 .. Len(p) : \A l \in Ends(p, ts)[h] : l <= h}
<1>2. 0 \in T
  <2>1. 0 \in 0 .. Len(p) /\ 0 <= 0
    BY <1>1
  <2>2. QED
    BY <2>1, EndsRecursion
<1>3. ASSUME NEW h \in 1 .. Len(p), h - 1 \in T PROVE h \in T
  <2>1. h \in 0 .. Len(p) /\ h \in Nat
    BY <1>1
  <2>2. ASSUME NEW l \in Ends(p, ts)[h] PROVE l <= h
    <3>1. l \in Nat /\ l <= Len(ts)
      <4>1. l \in 0 .. Len(ts)
        BY 0 \in Nat, <2>1, EndsStep
      <4>2. QED
        BY <1>1, <4>1
    <3>2. PICK m \in Ends(p, ts)[h - 1] : EndsAt(p, ts, h, m, l)
      BY <3>1, EndsStep
    <3>3. m \in Nat /\ m <= l /\ m <= h - 1
      <4>1. m \in Nat
        BY 0 \in Nat, EndsStep
      <4>2. QED
        BY <1>3, <3>2, <4>1 DEF EndsAt
    <3>4. ~List(p, h)
      BY <1>1 DEF List
    <3>5. Len(SubSeq(ts, m + 1, l)) \in {0, 1}
      BY <3>2, <3>4 DEF EndsAt, Takes
    <3>6. l \in 0 .. Len(ts) /\ m \in 0 .. l
      BY <1>1, <3>1, <3>3
    <3>7. l - m \in {0, 1}
      BY <3>5, <3>6, PartOf
    <3>8. QED
      BY <2>1, <3>1, <3>3, <3>7
  <2>3. QED
    BY <2>1, <2>2
<1>4. \A h \in 0 .. Len(p) : h \in T
  <2>1. \A h \in 1 .. Len(p) : h - 1 \in T => h \in T
    BY <1>3
  <2> HIDE DEF T
  <2>2. QED
    BY <1>1, <1>2, <2>1, Along
<1>5. QED
  BY <1>4

(* A token behind the first pre is taken by an element behind them. *)
LEMMA LastTaken ==
  ASSUME NEW p \in Seq(Element), NEW ts \in Seq(Tokens), NEW pre, Must(p, pre),
         \A k \in pre + 1 .. Len(p) : p[k].op # "string_end",
         NEW i \in 0 .. Len(p), NEW n \in Ends(p, ts)[i], n > pre
  PROVE  \E j \in pre + 1 .. Len(p) : p[j].op # "period" /\ Fills(p[j], ts[n])
<1>1. /\ pre \in 0 .. Len(p) /\ pre \in Nat /\ Len(p) \in Nat /\ Len(ts) \in Nat
  <2>1. pre \in 0 .. Len(p) /\ Len(p) \in Nat /\ Len(ts) \in Nat
    BY LenProperties DEF Must
  <2>2. QED
    BY <2>1
<1> DEFINE Taken(l) == \E j \in pre + 1 .. Len(p) : p[j].op # "period" /\ Fills(p[j], ts[l])
           T == {h \in 0 .. Len(p) : \A l \in Ends(p, ts)[h] : l > pre => Taken(l)}
<1>2. 0 \in T
  <2>1. 0 \in 0 .. Len(p) /\ ~(0 > pre)
    BY <1>1
  <2>2. QED
    BY <2>1, EndsRecursion
<1>3. ASSUME NEW h \in 1 .. Len(p), h - 1 \in T PROVE h \in T
  <2>1. h \in 0 .. Len(p) /\ h \in Nat
    BY <1>1
  <2>2. ASSUME NEW l \in Ends(p, ts)[h], l > pre PROVE Taken(l)
    <3>1. l \in Nat /\ l <= Len(ts)
      <4>1. l \in 0 .. Len(ts)
        BY 0 \in Nat, <2>1, EndsStep
      <4>2. QED
        BY <1>1, <4>1
    <3>2. PICK m \in Ends(p, ts)[h - 1] : EndsAt(p, ts, h, m, l)
      BY <3>1, EndsStep
    <3>3. m \in Nat /\ m <= l
      <4>1. m \in Nat
        BY 0 \in Nat, EndsStep
      <4>2. QED
        BY <3>2, <4>1 DEF EndsAt
    <3>4. CASE m = l
      BY <1>3, <2>2, <3>4
    <3>5. CASE m # l
      <4>1. l \in 0 .. Len(ts) /\ m \in 0 .. l /\ l - m \in Nat \ {0} /\ m + (l - m) = l
        BY <1>1, <3>1, <3>3, <3>5
      <4>2. PICK s \in Seq(Tokens) : s = SubSeq(ts, m + 1, l)
        BY <4>1, PartOf
      <4>3. PICK k \in Nat \ {0} : k = l - m
        BY <4>1
      <4>4. Len(s) = k /\ s[k] = ts[l] /\ k \in DOMAIN s /\ s # <<>>
        <5>1. Len(s) = k /\ \A j \in 1 .. k : s[j] = ts[m + j]
          BY <4>1, <4>2, <4>3, PartOf
        <5>2. k \in 1 .. k /\ DOMAIN s = 1 .. k
          BY <4>2, <5>1, LenProperties
        <5>3. s # <<>>
          BY <5>1
        <5>4. QED
          BY <4>1, <4>3, <5>1, <5>2, <5>3
      <4>5. h > pre
        <5> SUFFICES ASSUME h <= pre PROVE FALSE
          BY <1>1, <2>1
        <5>1. h \in 0 .. pre
          BY <1>1, <2>1
        <5>2. l = h
          BY <5>1, MustEnds
        <5>3. QED
          BY <1>1, <2>1, <2>2, <5>2
      <4>6. h \in pre + 1 .. Len(p)
        BY <1>1, <2>1, <4>5
      <4>7. Takes(p[h], List(p, h), s)
        BY <3>2, <4>2 DEF EndsAt
      <4>8. p[h].op # "period"
        BY <4>4, <4>7 DEF Takes
      <4>9. Fills(p[h], s[k])
        BY <4>4, <4>6, <4>7, <4>8 DEF Takes
      <4>10. QED
        BY <4>4, <4>6, <4>8, <4>9
    <3>6. QED
      BY <3>4, <3>5
  <2>3. QED
    BY <2>1, <2>2
<1>4. \A h \in 0 .. Len(p) : h \in T
  <2>1. \A h \in 1 .. Len(p) : h - 1 \in T => h \in T
    BY <1>3
  <2> HIDE DEF T
  <2>2. QED
    BY <1>1, <1>2, <2>1, Along
<1>5. QED
  BY <1>4

(* A text takes what begins with a word or a name, or one quoted token. *)
LEMMA TextTaken ==
  ASSUME NEW p \in Seq(Element), NEW ts \in Seq(Tokens), NEW pre, Must(p, pre),
         pre + 1 = Len(p), p[pre + 1].op = "string_end",
         Len(ts) \in Ends(p, ts)[Len(p)], pre < Len(ts), ts[pre + 1] \notin Unquoted
  PROVE  Len(ts) = pre + 1 /\ ts[pre + 1] = "quoted"
<1>1. pre \in Nat /\ Len(ts) \in Nat /\ Len(p) \in Nat /\ Len(p) \in 1 .. Len(p)
      /\ pre \in 0 .. pre
  <2>1. pre \in 0 .. Len(p) /\ Len(p) \in Nat /\ Len(ts) \in Nat
    BY LenProperties DEF Must
  <2>2. QED
    BY <2>1
<1>2. PICK m \in Ends(p, ts)[Len(p) - 1] : EndsAt(p, ts, Len(p), m, Len(ts))
  BY <1>1, EndsStep
<1>3. m = pre
  <2>1. Len(p) - 1 = pre
    BY <1>1
  <2>2. QED
    BY <1>1, <2>1, MustEnds
<1>4. Len(ts) \in 0 .. Len(ts) /\ pre \in 0 .. Len(ts) /\ Len(ts) - pre \in Nat \ {0}
  BY <1>1
<1>5. PICK s \in Seq(Tokens) : s = SubSeq(ts, pre + 1, Len(ts))
  BY <1>4, PartOf
<1>6. Len(s) = Len(ts) - pre /\ s[1] = ts[pre + 1]
  <2>1. Len(s) = Len(ts) - pre /\ \A j \in 1 .. Len(ts) - pre : s[j] = ts[pre + j]
    BY <1>4, <1>5, PartOf
  <2>2. 1 \in 1 .. Len(ts) - pre
    BY <1>4
  <2>3. QED
    BY <2>1, <2>2
<1>7. Takes(p[pre + 1], List(p, pre + 1), s)
  BY <1>2, <1>3, <1>5 DEF EndsAt
<1>8. s = <<>> \/ s = <<"quoted">> \/ (Len(s) > 0 /\ s[1] \in Unquoted)
  BY <1>7 DEF Takes
<1>9. s = <<"quoted">>
  <2>1. s # <<>>
    BY <1>4, <1>6
  <2>2. QED
    BY <1>6, <1>8, <2>1
<1>10. Len(s) = 1 /\ s[1] = "quoted"
  BY <1>9
<1>11. ts[pre + 1] = "quoted"
  BY <1>6, <1>10
<1>12. Len(ts) - pre = 1
  BY <1>6, <1>10
<1>13. QED
  BY <1>1, <1>11, <1>12

-----------------------------------------------------------------------------
(* The shapes of the patterns of the table. *)
Shaped(q) == \E pre \in 0 .. Len(q) : Shape(q, pre)

Mandatory == {e \in Element : e.op \in Typed \cup {"string"} /\ ~e.opt}
Texts == {Rest, Opt("string_end"), Opt("string")}

(* The kinds of elements that the patterns of the table are made of. *)
LEMMA Kinds ==
  /\ {Peer, Number, Double, Msg, Text} \subseteq Mandatory
  /\ Mandatory \subseteq Element /\ Texts \subseteq Element
  /\ Opt("number") \in Element /\ Opt("peer") \in Element /\ Period \in Element
  /\ \A z \in Texts : z.op = "string_end" \/ (z.op = "string" /\ z.opt)
  /\ Opt("number").op = "number" /\ Opt("number").opt /\ "number" \in Typed
  /\ Period.op = "period"
BY DEF Peer, Number, Double, Msg, Text, Rest, Period, Opt, Arg, Mandatory, Texts, Element,
       Operators, Typed

(* What the beginning of a pattern has to be. *)
LEMMA Beginning ==
  ASSUME NEW q \in Seq(Element), NEW pre \in 0 .. Len(q),
         \A k \in 1 .. pre : q[k] \in Mandatory,
         pre + 1 <= Len(q) => q[pre + 1].op # "period"
  PROVE  Must(q, pre)
<1>1. Len(q) \in Nat /\ DOMAIN q = 1 .. Len(q) /\ pre \in Nat /\ pre <= Len(q)
  <2>1. Len(q) \in Nat /\ DOMAIN q = 1 .. Len(q)
    BY LenProperties
  <2>2. QED
    BY <2>1
<1>2. \A e \in Mandatory : e.op \in Typed \cup {"string"} /\ ~e.opt /\ e.op # "period"
  BY DEF Mandatory, Typed
<1>3. ASSUME NEW k \in 1 .. pre PROVE ~List(q, k)
  <2>1. k + 1 \in 1 .. pre \/ k + 1 = pre + 1
    BY <1>1
  <2>2. k + 1 \in 1 .. Len(q) => q[k + 1].op # "period"
    <3>1. CASE k + 1 \in 1 .. pre
      BY <1>2, <3>1
    <3>2. CASE k + 1 = pre + 1
      BY <1>1, <3>2
    <3>3. QED
      BY <2>1, <3>1, <3>2
  <2>3. QED
    BY <1>1, <2>2 DEF List
<1>4. QED
  BY <1>2, <1>3 DEF Must

(* A pattern of elements that must come. *)
LEMMA FixedShape ==
  ASSUME NEW q \in Seq(Element), \A k \in 1 .. Len(q) : q[k] \in Mandatory
  PROVE  Shaped(q)
<1>1. Len(q) \in Nat
  BY LenProperties
<1>2. PICK pre \in 0 .. Len(q) : pre = Len(q)
  BY <1>1
<1>3. ~(pre + 1 <= Len(q)) /\ pre + 1 .. Len(q) = {}
  BY <1>1, <1>2
<1>4. Must(q, pre)
  BY <1>2, <1>3, Beginning
<1>5. OptTail(q, pre)
  BY <1>3 DEF OptTail
<1>6. QED
  BY <1>4, <1>5 DEF Shaped, Shape

(* Elements that must come, then numbers that may. *)
LEMMA OptionalShape ==
  ASSUME NEW q \in Seq(Element), NEW pre \in 0 .. Len(q), pre < Len(q),
         \A k \in 1 .. pre : q[k] \in Mandatory,
         \A k \in pre + 1 .. Len(q) : q[k] = Opt("number")
  PROVE  Shaped(q)
<1>1. Len(q) \in Nat
  BY LenProperties
<1>2. pre + 1 \in pre + 1 .. Len(q) /\ Len(q) \in pre + 1 .. Len(q)
  BY <1>1
<1>3. q[pre + 1] = Opt("number") /\ q[Len(q)] = Opt("number")
  BY <1>2
<1>4. Must(q, pre)
  <2>1. q[pre + 1].op # "period"
    BY <1>3, Kinds
  <2>2. QED
    BY <2>1, Beginning
<1>5. OptTail(q, pre)
  BY <1>3, Kinds DEF OptTail
<1>6. QED
  BY <1>4, <1>5 DEF Shaped, Shape

(* Elements that must come, then a text. *)
LEMMA TextShape ==
  ASSUME NEW q \in Seq(Element), NEW pre \in 0 .. Len(q), pre + 1 = Len(q),
         \A k \in 1 .. pre : q[k] \in Mandatory, q[pre + 1] \in Texts
  PROVE  Shaped(q)
<1>1. q[pre + 1].op = "string_end" \/ (q[pre + 1].op = "string" /\ q[pre + 1].opt)
  BY Kinds
<1>2. Must(q, pre)
  BY <1>1, Beginning
<1>3. TextTail(q, pre)
  BY <1>1 DEF TextTail
<1>4. QED
  BY <1>2, <1>3 DEF Shaped, Shape

(* Elements that must come, then a list. *)
LEMMA ListShape ==
  ASSUME NEW q \in Seq(Element), NEW pre \in 0 .. Len(q), pre + 2 = Len(q),
         \A k \in 1 .. pre : q[k] \in Mandatory,
         q[pre + 1].op # "period", q[pre + 2] = Period
  PROVE  Shaped(q)
<1>1. Must(q, pre)
  BY Beginning
<1>2. Len(q) \in Nat /\ DOMAIN q = 1 .. Len(q)
  BY LenProperties
<1>3. (pre + 1) + 1 = pre + 2 /\ (pre + 1) + 1 \in DOMAIN q
  BY <1>2
<1>4. ListTail(q, pre)
  BY <1>3, Kinds DEF ListTail, List
<1>5. QED
  BY <1>1, <1>4 DEF Shaped, Shape

(* The patterns of up to four elements that the table has. *)
LEMMA Shapes ==
  /\ Shaped(<<>>)
  /\ \A a \in Mandatory : Shaped(<<a>>)
  /\ \A a \in Mandatory, b \in Mandatory : Shaped(<<a, b>>)
  /\ \A a \in Mandatory, b \in Mandatory, c \in Mandatory : Shaped(<<a, b, c>>)
  /\ \A a \in Mandatory, b \in Mandatory, c \in Mandatory, d \in Mandatory :
           Shaped(<<a, b, c, d>>)
  /\ \A z \in Texts : Shaped(<<z>>)
  /\ \A a \in Mandatory, z \in Texts : Shaped(<<a, z>>)
  /\ \A a \in Mandatory, b \in Mandatory, z \in Texts : Shaped(<<a, b, z>>)
  /\ \A a \in Mandatory : Shaped(<<a, Opt("number")>>)
  /\ Shaped(<<Opt("number"), Opt("number")>>)
  /\ \A a \in Mandatory, b \in Mandatory : Shaped(<<a, b, Opt("number")>>)
  /\ \A a \in Mandatory : Shaped(<<a, Opt("number"), Opt("number")>>)
  /\ \A a \in Mandatory, l \in Element : l.op # "period" => Shaped(<<a, l, Period>>)
  /\ \A a \in Mandatory, b \in Mandatory, l \in Element :
           l.op # "period" => Shaped(<<a, b, l, Period>>)
<1>1. /\ Mandatory \subseteq Element /\ Texts \subseteq Element
      /\ Opt("number") \in Element /\ Period \in Element
  BY Kinds
<1>2. /\ \A k \in 1 .. 1 : k = 1
      /\ \A k \in 1 .. 2 : k = 1 \/ k = 2
      /\ \A k \in 1 .. 3 : k = 1 \/ k = 2 \/ k = 3
      /\ \A k \in 1 .. 4 : k = 1 \/ k = 2 \/ k = 3 \/ k = 4
      /\ \A k \in 2 .. 2 : k = 2
      /\ \A k \in 3 .. 3 : k = 3
      /\ \A k \in 2 .. 3 : k = 2 \/ k = 3
  OBVIOUS
<1>3. Shaped(<<>>)
  <2>1. <<>> \in Seq(Element)
    OBVIOUS
  <2>2. PICK q \in Seq(Element) : q = <<>>
    BY <2>1
  <2>3. Len(q) = 0
    BY <2>2
  <2>4. \A k \in 1 .. 0 : q[k] \in Mandatory
    OBVIOUS
  <2>5. QED
    BY <2>2, <2>3, <2>4, FixedShape
<1>4. ASSUME NEW a \in Mandatory
     PROVE  Shaped(<<a>>)
  <2>1. <<a>> \in Seq(Element)
    BY <1>1, Tuples
  <2>2. PICK q \in Seq(Element) : q = <<a>>
    BY <2>1
  <2>3. Len(q) = 1 /\ q[1] = a
    BY <2>2
  <2>4. \A k \in 1 .. 1 : q[k] \in Mandatory
    BY <1>1, <1>2, <2>3
  <2>5. QED
    BY <2>2, <2>3, <2>4, FixedShape
<1>5. ASSUME NEW a \in Mandatory, NEW b \in Mandatory
     PROVE  Shaped(<<a, b>>)
  <2>1. <<a, b>> \in Seq(Element)
    BY <1>1, Tuples
  <2>2. PICK q \in Seq(Element) : q = <<a, b>>
    BY <2>1
  <2>3. Len(q) = 2 /\ q[1] = a /\ q[2] = b
    BY <2>2
  <2>4. \A k \in 1 .. 2 : q[k] \in Mandatory
    BY <1>1, <1>2, <2>3
  <2>5. QED
    BY <2>2, <2>3, <2>4, FixedShape
<1>6. ASSUME NEW a \in Mandatory, NEW b \in Mandatory, NEW c \in Mandatory
     PROVE  Shaped(<<a, b, c>>)
  <2>1. <<a, b, c>> \in Seq(Element)
    BY <1>1, Tuples
  <2>2. PICK q \in Seq(Element) : q = <<a, b, c>>
    BY <2>1
  <2>3. Len(q) = 3 /\ q[1] = a /\ q[2] = b /\ q[3] = c
    BY <2>2
  <2>4. \A k \in 1 .. 3 : q[k] \in Mandatory
    BY <1>1, <1>2, <2>3
  <2>5. QED
    BY <2>2, <2>3, <2>4, FixedShape
<1>7. ASSUME NEW a \in Mandatory, NEW b \in Mandatory, NEW c \in Mandatory, NEW d \in Mandatory
     PROVE  Shaped(<<a, b, c, d>>)
  <2>1. <<a, b, c, d>> \in Seq(Element)
    BY <1>1, Tuples
  <2>2. PICK q \in Seq(Element) : q = <<a, b, c, d>>
    BY <2>1
  <2>3. Len(q) = 4 /\ q[1] = a /\ q[2] = b /\ q[3] = c /\ q[4] = d
    BY <2>2
  <2>4. \A k \in 1 .. 4 : q[k] \in Mandatory
    BY <1>1, <1>2, <2>3
  <2>5. QED
    BY <2>2, <2>3, <2>4, FixedShape
<1>8. ASSUME NEW z \in Texts
     PROVE  Shaped(<<z>>)
  <2>1. <<z>> \in Seq(Element)
    BY <1>1, Tuples
  <2>2. PICK q \in Seq(Element) : q = <<z>>
    BY <2>1
  <2>3. Len(q) = 1 /\ q[1] = z
    BY <2>2
  <2>4. \A k \in 1 .. 0 : q[k] \in Mandatory
    OBVIOUS
  <2>5. 0 \in 0 .. Len(q) /\ 0 + 1 = Len(q) /\ q[0 + 1] \in Texts
    BY <2>3
  <2>6. QED
    BY <2>2, <2>4, <2>5, TextShape
<1>9. ASSUME NEW a \in Mandatory, NEW z \in Texts
     PROVE  Shaped(<<a, z>>)
  <2>1. <<a, z>> \in Seq(Element)
    BY <1>1, Tuples
  <2>2. PICK q \in Seq(Element) : q = <<a, z>>
    BY <2>1
  <2>3. Len(q) = 2 /\ q[1] = a /\ q[2] = z
    BY <2>2
  <2>4. \A k \in 1 .. 1 : q[k] \in Mandatory
    BY <1>1, <1>2, <2>3
  <2>5. 1 \in 0 .. Len(q) /\ 1 + 1 = Len(q) /\ q[1 + 1] \in Texts
    BY <2>3
  <2>6. QED
    BY <2>2, <2>4, <2>5, TextShape
<1>10. ASSUME NEW a \in Mandatory, NEW b \in Mandatory, NEW z \in Texts
      PROVE  Shaped(<<a, b, z>>)
  <2>1. <<a, b, z>> \in Seq(Element)
    BY <1>1, Tuples
  <2>2. PICK q \in Seq(Element) : q = <<a, b, z>>
    BY <2>1
  <2>3. Len(q) = 3 /\ q[1] = a /\ q[2] = b /\ q[3] = z
    BY <2>2
  <2>4. \A k \in 1 .. 2 : q[k] \in Mandatory
    BY <1>1, <1>2, <2>3
  <2>5. 2 \in 0 .. Len(q) /\ 2 + 1 = Len(q) /\ q[2 + 1] \in Texts
    BY <2>3
  <2>6. QED
    BY <2>2, <2>4, <2>5, TextShape
<1>11. ASSUME NEW a \in Mandatory
      PROVE  Shaped(<<a, Opt("number")>>)
  <2>1. <<a, Opt("number")>> \in Seq(Element)
    BY <1>1, Tuples
  <2>2. PICK q \in Seq(Element) : q = <<a, Opt("number")>>
    BY <2>1
  <2>3. Len(q) = 2 /\ q[1] = a /\ q[2] = Opt("number")
    BY <2>2
  <2>4. \A k \in 1 .. 1 : q[k] \in Mandatory
    BY <1>1, <1>2, <2>3
  <2>5. 1 \in 0 .. Len(q) /\ 1 < Len(q)
    BY <2>3
  <2>6. \A k \in 1 + 1 .. Len(q) : q[k] = Opt("number")
    BY <1>2, <2>3
  <2>7. QED
    BY <2>2, <2>4, <2>5, <2>6, OptionalShape
<1>12. Shaped(<<Opt("number"), Opt("number")>>)
  <2>1. <<Opt("number"), Opt("number")>> \in Seq(Element)
    BY <1>1, Tuples
  <2>2. PICK q \in Seq(Element) : q = <<Opt("number"), Opt("number")>>
    BY <2>1
  <2>3. Len(q) = 2 /\ q[1] = Opt("number") /\ q[2] = Opt("number")
    BY <2>2
  <2>4. \A k \in 1 .. 0 : q[k] \in Mandatory
    OBVIOUS
  <2>5. 0 \in 0 .. Len(q) /\ 0 < Len(q)
    BY <2>3
  <2>6. \A k \in 0 + 1 .. Len(q) : q[k] = Opt("number")
    BY <1>2, <2>3
  <2>7. QED
    BY <2>2, <2>4, <2>5, <2>6, OptionalShape
<1>13. ASSUME NEW a \in Mandatory, NEW b \in Mandatory
      PROVE  Shaped(<<a, b, Opt("number")>>)
  <2>1. <<a, b, Opt("number")>> \in Seq(Element)
    BY <1>1, Tuples
  <2>2. PICK q \in Seq(Element) : q = <<a, b, Opt("number")>>
    BY <2>1
  <2>3. Len(q) = 3 /\ q[1] = a /\ q[2] = b /\ q[3] = Opt("number")
    BY <2>2
  <2>4. \A k \in 1 .. 2 : q[k] \in Mandatory
    BY <1>1, <1>2, <2>3
  <2>5. 2 \in 0 .. Len(q) /\ 2 < Len(q)
    BY <2>3
  <2>6. \A k \in 2 + 1 .. Len(q) : q[k] = Opt("number")
    BY <1>2, <2>3
  <2>7. QED
    BY <2>2, <2>4, <2>5, <2>6, OptionalShape
<1>14. ASSUME NEW a \in Mandatory
      PROVE  Shaped(<<a, Opt("number"), Opt("number")>>)
  <2>1. <<a, Opt("number"), Opt("number")>> \in Seq(Element)
    BY <1>1, Tuples
  <2>2. PICK q \in Seq(Element) : q = <<a, Opt("number"), Opt("number")>>
    BY <2>1
  <2>3. Len(q) = 3 /\ q[1] = a /\ q[2] = Opt("number") /\ q[3] = Opt("number")
    BY <2>2
  <2>4. \A k \in 1 .. 1 : q[k] \in Mandatory
    BY <1>1, <1>2, <2>3
  <2>5. 1 \in 0 .. Len(q) /\ 1 < Len(q)
    BY <2>3
  <2>6. \A k \in 1 + 1 .. Len(q) : q[k] = Opt("number")
    BY <1>2, <2>3
  <2>7. QED
    BY <2>2, <2>4, <2>5, <2>6, OptionalShape
<1>15. ASSUME NEW a \in Mandatory, NEW l \in Element, l.op # "period"
      PROVE  Shaped(<<a, l, Period>>)
  <2>1. <<a, l, Period>> \in Seq(Element)
    BY <1>1, Tuples
  <2>2. PICK q \in Seq(Element) : q = <<a, l, Period>>
    BY <2>1
  <2>3. Len(q) = 3 /\ q[1] = a /\ q[2] = l /\ q[3] = Period
    BY <2>2
  <2>4. \A k \in 1 .. 1 : q[k] \in Mandatory
    BY <1>1, <1>2, <2>3
  <2>5. /\ 1 \in 0 .. Len(q) /\ 1 + 2 = Len(q) /\ q[1 + 2] = Period
        /\ q[1 + 1].op # "period"
    BY <1>15, <2>3
  <2>6. QED
    BY <2>2, <2>4, <2>5, ListShape
<1>16. ASSUME NEW a \in Mandatory, NEW b \in Mandatory, NEW l \in Element, l.op # "period"
      PROVE  Shaped(<<a, b, l, Period>>)
  <2>1. <<a, b, l, Period>> \in Seq(Element)
    BY <1>1, Tuples
  <2>2. PICK q \in Seq(Element) : q = <<a, b, l, Period>>
    BY <2>1
  <2>3. Len(q) = 4 /\ q[1] = a /\ q[2] = b /\ q[3] = l /\ q[4] = Period
    BY <2>2
  <2>4. \A k \in 1 .. 2 : q[k] \in Mandatory
    BY <1>1, <1>2, <2>3
  <2>5. /\ 2 \in 0 .. Len(q) /\ 2 + 2 = Len(q) /\ q[2 + 2] = Period
        /\ q[2 + 1].op # "period"
    BY <1>16, <2>3
  <2>6. QED
    BY <2>2, <2>4, <2>5, ListShape
<1>17. QED
  BY <1>3, <1>4, <1>5, <1>6, <1>7, <1>8, <1>9, <1>10, <1>11, <1>12, <1>13, <1>14, <1>15, <1>16

(* The table, section by section; the patterns of broadcast and search are *)
(* the only others.                                                        *)
LEMMA TableShaped ==
  ASSUME NEW c \in DOMAIN commands, c \notin {"broadcast", "search"}
  PROVE  Shaped(commands[c].args)
<1>0. /\ {Peer, Number, Double, Msg, Text} \subseteq Mandatory
      /\ {Rest, Opt("string_end"), Opt("string")} \subseteq Texts
      /\ Opt("peer") \in Element /\ Peer \in Element /\ Msg \in Element
      /\ Opt("peer").op # "period" /\ Peer.op # "period" /\ Msg.op # "period"
  BY Kinds, Periods DEF Texts, Mandatory, Element, Opt
<1>e. Shaped(<<>>)
  <2>1. <<>> \in Seq(Element) /\ Len(<<>>) = 0 /\ \A k \in 1 .. 0 : FALSE
    OBVIOUS
  <2>2. PICK q \in Seq(Element) : q = <<>>
    BY <2>1
  <2>3. QED
    BY <2>1, <2>2, FixedShape
<1> DEFINE Row(s) == \A k \in DOMAIN s : k \notin {"broadcast", "search"} => Shaped(s[k].args)
<1>1. Row(Information)
  <2>1. Information["help"].args = <<Opt("string")>> /\ Shaped(<<Opt("string")>>)
    BY <1>0, Shapes DEF Information, Cmd
  <2>2. Information["terms"].args = <<>> /\ Shaped(<<>>)
    BY <1>e DEF Information, Cmd
  <2>3. Information["stats"].args = <<>> /\ Shaped(<<>>)
    BY <1>e DEF Information, Cmd
  <2>4. DOMAIN Information = {"help", "terms", "stats"}
    BY DEF Information
  <2>5. QED
    BY <2>1, <2>2, <2>3, <2>4
<1>2. Row(Control)
  <2>1. Control["quit"].args = <<>> /\ Shaped(<<>>)
    BY <1>e DEF Control, Cmd
  <2>2. Control["set"].args = <<Text, Number>> /\ Shaped(<<Text, Number>>)
    BY <1>0, Shapes DEF Control, Cmd
  <2>3. Control["chat_with_peer"].args = <<Peer>> /\ Shaped(<<Peer>>)
    BY <1>0, Shapes DEF Control, Cmd
  <2>4. DOMAIN Control = {"quit", "set", "chat_with_peer"}
    BY DEF Control
  <2>5. QED
    BY <2>1, <2>2, <2>3, <2>4
<1>3. Row(Sending)
  <2>1. Sending["msg"].args = <<Peer, Rest>> /\ Shaped(<<Peer, Rest>>)
    BY <1>0, Shapes DEF Sending, Cmd
  <2>2. Sending["msg_kbd"].args = <<Peer, Text, Rest>> /\ Shaped(<<Peer, Text, Rest>>)
    BY <1>0, Shapes DEF Sending, Cmd
  <2>3. Sending["reply"].args = <<Msg, Rest>> /\ Shaped(<<Msg, Rest>>)
    BY <1>0, Shapes DEF Sending, Cmd
  <2>4. /\ Sending["send"].args = <<Peer, Text, Opt("string_end")>>
        /\ Shaped(<<Peer, Text, Opt("string_end")>>)
    BY <1>0, Shapes DEF Sending, Cmd
  <2>5. Sending["post"].args = <<Peer, Text>> /\ Shaped(<<Peer, Text>>)
    BY <1>0, Shapes DEF Sending, Cmd
  <2>6. DOMAIN Sending = {"msg", "msg_kbd", "reply", "send", "post"}
    BY DEF Sending
  <2>7. QED
    BY <2>1, <2>2, <2>3, <2>4, <2>5, <2>6
<1>4. Row(Replying)
  <2>1. /\ Replying["reply_photo"].args = <<Msg, Text, Opt("string_end")>>
        /\ Shaped(<<Msg, Text, Opt("string_end")>>)
    BY <1>0, Shapes DEF Replying, Cmd
  <2>2. Replying["reply_file"].args = <<Msg, Text>> /\ Shaped(<<Msg, Text>>)
    BY <1>0, Shapes DEF Replying, Cmd
  <2>3. Replying["reply_audio"].args = <<Msg, Text>> /\ Shaped(<<Msg, Text>>)
    BY <1>0, Shapes DEF Replying, Cmd
  <2>4. Replying["fwd"].args = <<Peer, Msg, Period>> /\ Shaped(<<Peer, Msg, Period>>)
    BY <1>0, Shapes DEF Replying, Cmd
  <2>5. Replying["fwd_media"].args = <<Peer, Msg>> /\ Shaped(<<Peer, Msg>>)
    BY <1>0, Shapes DEF Replying, Cmd
  <2>6. /\ Replying["send_contact"].args = <<Peer, Text, Text, Text>>
        /\ Shaped(<<Peer, Text, Text, Text>>)
    BY <1>0, Shapes DEF Replying, Cmd
  <2>7. /\ Replying["reply_contact"].args = <<Msg, Text, Text, Text>>
        /\ Shaped(<<Msg, Text, Text, Text>>)
    BY <1>0, Shapes DEF Replying, Cmd
  <2>8. /\ Replying["send_location"].args = <<Peer, Double, Double>>
        /\ Shaped(<<Peer, Double, Double>>)
    BY <1>0, Shapes DEF Replying, Cmd
  <2>9. Replying["reply_location"].args = <<Msg, Double, Double>> /\ Shaped(<<Msg, Double, Double>>)
    BY <1>0, Shapes DEF Replying, Cmd
  <2>10. DOMAIN Replying = {"reply_photo", "reply_file", "reply_audio", "fwd", "fwd_media",
                            "send_contact", "reply_contact", "send_location", "reply_location",
                            "broadcast"}
    BY DEF Replying
  <2>11. QED
    BY <2>1, <2>2, <2>3, <2>4, <2>5, <2>6, <2>7, <2>8, <2>9, <2>10
<1>5. Row(Profile)
  <2>1. Profile["set_password"].args = <<Opt("string")>> /\ Shaped(<<Opt("string")>>)
    BY <1>0, Shapes DEF Profile, Cmd
  <2>2. Profile["get_self"].args = <<>> /\ Shaped(<<>>)
    BY <1>e DEF Profile, Cmd
  <2>3. Profile["set_profile_photo"].args = <<Rest>> /\ Shaped(<<Rest>>)
    BY <1>0, Shapes DEF Profile, Cmd
  <2>4. Profile["set_profile_name"].args = <<Text, Text>> /\ Shaped(<<Text, Text>>)
    BY <1>0, Shapes DEF Profile, Cmd
  <2>5. Profile["set_username"].args = <<Text>> /\ Shaped(<<Text>>)
    BY <1>0, Shapes DEF Profile, Cmd
  <2>6. DOMAIN Profile = {"set_password", "get_self", "set_profile_photo", "set_profile_name",
                          "set_username"}
    BY DEF Profile
  <2>7. QED
    BY <2>1, <2>2, <2>3, <2>4, <2>5, <2>6
<1>6. Row(Chats)
  <2>1. Chats["rename_chat"].args = <<Peer, Rest>> /\ Shaped(<<Peer, Rest>>)
    BY <1>0, Shapes DEF Chats, Cmd
  <2>2. Chats["chat_info"].args = <<Peer>> /\ Shaped(<<Peer>>)
    BY <1>0, Shapes DEF Chats, Cmd
  <2>3. /\ Chats["chat_add_user"].args = <<Peer, Peer, Opt("number")>>
        /\ Shaped(<<Peer, Peer, Opt("number")>>)
    BY <1>0, Shapes DEF Chats, Cmd
  <2>4. Chats["chat_del_user"].args = <<Peer, Peer>> /\ Shaped(<<Peer, Peer>>)
    BY <1>0, Shapes DEF Chats, Cmd
  <2>5. Chats["create_group_chat"].args = <<Text, Peer, Period>> /\ Shaped(<<Text, Peer, Period>>)
    BY <1>0, Shapes DEF Chats, Cmd
  <2>6. Chats["import_chat_link"].args = <<Text>> /\ Shaped(<<Text>>)
    BY <1>0, Shapes DEF Chats, Cmd
  <2>7. /\ Chats["channel_get_members"].args = <<Peer, Opt("number"), Opt("number")>>
        /\ Shaped(<<Peer, Opt("number"), Opt("number")>>)
    BY <1>0, Shapes DEF Chats, Cmd
  <2>8. DOMAIN Chats = {"rename_chat", "chat_info", "chat_add_user", "chat_del_user",
                        "create_group_chat", "import_chat_link", "channel_get_members"}
    BY DEF Chats
  <2>9. QED
    BY <2>1, <2>2, <2>3, <2>4, <2>5, <2>6, <2>7, <2>8
<1>7. Row(Contacts)
  <2>1. Contacts["user_info"].args = <<Peer>> /\ Shaped(<<Peer>>)
    BY <1>0, Shapes DEF Contacts, Cmd
  <2>2. Contacts["add_contact"].args = <<Text, Text, Text>> /\ Shaped(<<Text, Text, Text>>)
    BY <1>0, Shapes DEF Contacts, Cmd
  <2>3. Contacts["rename_contact"].args = <<Peer, Text, Text>> /\ Shaped(<<Peer, Text, Text>>)
    BY <1>0, Shapes DEF Contacts, Cmd
  <2>4. Contacts["import_card"].args = <<Text>> /\ Shaped(<<Text>>)
    BY <1>0, Shapes DEF Contacts, Cmd
  <2>5. DOMAIN Contacts = {"user_info", "add_contact", "rename_contact", "import_card"}
    BY DEF Contacts
  <2>6. QED
    BY <2>1, <2>2, <2>3, <2>4, <2>5
<1>8. Row(SecretChats)
  <2>1. SecretChats["accept_secret_chat"].args = <<Peer>> /\ Shaped(<<Peer>>)
    BY <1>0, Shapes DEF SecretChats, Cmd
  <2>2. SecretChats["set_ttl"].args = <<Peer, Number>> /\ Shaped(<<Peer, Number>>)
    BY <1>0, Shapes DEF SecretChats, Cmd
  <2>3. SecretChats["visualize_key"].args = <<Peer>> /\ Shaped(<<Peer>>)
    BY <1>0, Shapes DEF SecretChats, Cmd
  <2>4. SecretChats["create_secret_chat"].args = <<Peer>> /\ Shaped(<<Peer>>)
    BY <1>0, Shapes DEF SecretChats, Cmd
  <2>5. DOMAIN SecretChats = {"accept_secret_chat", "set_ttl", "visualize_key",
                              "create_secret_chat"}
    BY DEF SecretChats
  <2>6. QED
    BY <2>1, <2>2, <2>3, <2>4, <2>5
<1>9. Row(Channels)
  <2>1. Channels["rename_channel"].args = <<Peer, Rest>> /\ Shaped(<<Peer, Rest>>)
    BY <1>0, Shapes DEF Channels, Cmd
  <2>2. Channels["channel_set_about"].args = <<Peer, Text>> /\ Shaped(<<Peer, Text>>)
    BY <1>0, Shapes DEF Channels, Cmd
  <2>3. /\ Channels["channel_set_admin"].args = <<Peer, Peer, Number>>
        /\ Shaped(<<Peer, Peer, Number>>)
    BY <1>0, Shapes DEF Channels, Cmd
  <2>4. /\ Channels["create_channel"].args = <<Text, Text, Opt("peer"), Period>>
        /\ Shaped(<<Text, Text, Opt("peer"), Period>>)
    BY <1>0, Shapes DEF Channels, Cmd
  <2>5. Channels["channel_join"].args = <<Peer>> /\ Shaped(<<Peer>>)
    BY <1>0, Shapes DEF Channels, Cmd
  <2>6. DOMAIN Channels = {"rename_channel", "channel_set_about", "channel_set_admin",
                           "create_channel", "channel_join"}
    BY DEF Channels
  <2>7. QED
    BY <2>1, <2>2, <2>3, <2>4, <2>5, <2>6
<1>10. Row(Dialogs)
  <2>1. /\ Dialogs["dialog_list"].args = <<Opt("number"), Opt("number")>>
        /\ Shaped(<<Opt("number"), Opt("number")>>)
    BY <1>0, Shapes DEF Dialogs, Cmd
  <2>2. Dialogs["resolve_username"].args = <<Text>> /\ Shaped(<<Text>>)
    BY <1>0, Shapes DEF Dialogs, Cmd
  <2>3. Dialogs["contact_list"].args = <<>> /\ Shaped(<<>>)
    BY <1>e DEF Dialogs, Cmd
  <2>4. Dialogs["mark_read"].args = <<Peer>> /\ Shaped(<<Peer>>)
    BY <1>0, Shapes DEF Dialogs, Cmd
  <2>5. /\ Dialogs["history"].args = <<Peer, Opt("number"), Opt("number")>>
        /\ Shaped(<<Peer, Opt("number"), Opt("number")>>)
    BY <1>0, Shapes DEF Dialogs, Cmd
  <2>6. Dialogs["send_typing"].args = <<Peer, Opt("number")>> /\ Shaped(<<Peer, Opt("number")>>)
    BY <1>0, Shapes DEF Dialogs, Cmd
  <2>7. DOMAIN Dialogs = {"dialog_list", "resolve_username", "contact_list", "mark_read",
                          "history", "send_typing"}
    BY DEF Dialogs
  <2>8. QED
    BY <2>1, <2>2, <2>3, <2>4, <2>5, <2>6, <2>7
<1>11. Row(Media)
  <2>1. Media["load"].args = <<Msg>> /\ Shaped(<<Msg>>)
    BY <1>0, Shapes DEF Media, Cmd
  <2>2. Media["load_thumb"].args = <<Msg>> /\ Shaped(<<Msg>>)
    BY <1>0, Shapes DEF Media, Cmd
  <2>3. Media["load_user_photo"].args = <<Peer>> /\ Shaped(<<Peer>>)
    BY <1>0, Shapes DEF Media, Cmd
  <2>4. DOMAIN Media = {"load", "load_thumb", "load_user_photo"}
    BY DEF Media
  <2>5. QED
    BY <2>1, <2>2, <2>3, <2>4
<1>12. Row(Messages)
  <2>1. Messages["delete_msg"].args = <<Msg>> /\ Shaped(<<Msg>>)
    BY <1>0, Shapes DEF Messages, Cmd
  <2>2. Messages["start_bot"].args = <<Peer, Peer, Text>> /\ Shaped(<<Peer, Peer, Text>>)
    BY <1>0, Shapes DEF Messages, Cmd
  <2>3. DOMAIN Messages = {"search", "delete_msg", "start_bot"}
    BY DEF Messages
  <2>4. QED
    BY <2>1, <2>2, <2>3
<1>13. \A s \in Sections : Row(s)
  <2> HIDE DEF Row
  <2>1. QED
    BY <1>1, <1>2, <1>3, <1>4, <1>5, <1>6, <1>7, <1>8, <1>9, <1>10, <1>11, <1>12 DEF Sections
<1>14. /\ DOMAIN commands = UNION {DOMAIN s : s \in Sections}
      /\ commands[c] = (CHOOSE s \in Sections : c \in DOMAIN s)[c]
  BY Zenon DEF commands
<1>15. \E s \in Sections : c \in DOMAIN s
  BY <1>14, Zenon
<1>16. PICK s \in Sections : c \in DOMAIN s /\ commands[c] = s[c]
  BY <1>14, <1>15, Zenon
<1>17. QED
  BY <1>13, <1>16

-----------------------------------------------------------------------------
(* What is known of the line between two elements.  The tokens taken are   *)
(* those that were read, but the one that was given back.                  *)
Read == IF ahead = "none" THEN Len(seen) ELSE Len(seen) - 1
AheadSeen == ahead # "none" => Len(seen) > 0 /\ seen[Len(seen)] = ahead

(* The arguments as were found in the first r tokens of ts, in order. *)
GivenOf(as, i) == Cardinality({j \in 1 .. i : as[j].found})
CountedOf(as, ts, r) ==
  "open" \notin {ts[i] : i \in DOMAIN ts} =>
    /\ GivenOf(as, Len(as)) = r
    /\ \A i \in 1 .. Len(as) : as[i].found =>
         GivenOf(as, i) \in 1 .. r /\ Matches(as[i], ts[GivenOf(as, i)])

(* No element behind the first pre takes the token hd that comes next. *)
PassedAt(q, pre, hd, en) ==
  \/ en /\ hd = "none"
  \/ /\ hd # "none"
     /\ \A j \in pre + 1 .. Len(q) : q[j].op # "period" => ~Fills(q[j], hd)

(* Up to the first pre elements one token was taken for each; behind them  *)
(* the loop has taken a token for each, or can take no more.               *)
NoPeriod(q) == \A k \in DOMAIN q : q[k].op # "period"
ForcedAt(q, pre, i, r, hd, en) ==
  IF i <= pre + 1 THEN r = i - 1
  ELSE /\ r >= pre /\ q[pre + 1].op # "string_end"
       /\ \/ PassedAt(q, pre, hd, en)
          \/ i \in DOMAIN q /\ q[i].op = "period"
          \/ r = i - 1 /\ NoPeriod(q)

Searched == command \in {"broadcast", "search"}

Reading ==
  /\ at \in 1 .. Len(pattern) + 1
  /\ AheadSeen
  /\ Read \in Ends(pattern, seen)[at - 1]
  /\ CountedOf(args, seen, Read)
  /\ ~Searched => \E pre \in 0 .. Len(pattern) :
                    Shape(pattern, pre) /\ ForcedAt(pattern, pre, at, Read, ahead, ended)

Fitting ==
  /\ pc = "idle" => seen = <<>> /\ ahead = "none" /\ ended = FALSE
  /\ pc = "args" => Reading
  /\ LineFits /\ ArgsAreTheLine /\ RefusedOnceOrCalled

Extends(ts, us) == Len(ts) <= Len(us) /\ \A j \in 1 .. Len(ts) : us[j] = ts[j]

(* A token is noted: the one given back, the end, or a new one. *)
LEMMA Noted ==
  ASSUME TypeOK, AheadSeen, NEW t \in Coming, Note(t)
  PROVE  /\ seen' \in Seq(Tokens) /\ seen \in Seq(Tokens) /\ Read \in Nat /\ Read <= Len(seen)
         /\ Extends(seen, seen') /\ Len(seen') \in Nat
         /\ t = "end" => seen' = seen /\ Len(seen') = Read
         /\ t # "end" => t \in Tokens /\ Len(seen') = Read + 1 /\ seen'[Read + 1] = t
         /\ ended' = (ended \/ t \in {"end", "open"})
         /\ t = "end" \/ ahead # "none" => ahead \in {"none", t}
<1>1. seen \in Seq(Tokens) /\ Len(seen) \in Nat /\ t \in Tokens \cup {"end"}
      /\ ahead \in Tokens \cup {"none"}
  BY ComingTyped, LenProperties DEF TypeOK
<1>2. "end" \notin Tokens /\ "none" \notin Tokens
  BY DEF Tokens, Unquoted, Parses
<1>3. ended' = (ended \/ t \in {"end", "open"})
  BY DEF Note
<1>4. seen' = IF New(t) THEN Append(seen, t) ELSE seen
  BY DEF Note
<1>5. CASE ahead # "none"
  <2>1. t = ahead /\ ~New(t)
    BY <1>5 DEF Coming, New
  <2>2. seen' = seen /\ t # "end" /\ t \in Tokens
    BY <1>1, <1>2, <1>4, <1>5, <2>1
  <2>3. Read = Len(seen) - 1 /\ Len(seen) > 0 /\ seen[Len(seen)] = ahead
    BY <1>5 DEF Read, AheadSeen
  <2>4. Read \in Nat /\ Read <= Len(seen) /\ Len(seen) = Read + 1
    BY <1>1, <2>3
  <2>5. Extends(seen, seen')
    BY <1>1, <2>2 DEF Extends
  <2>6. seen'[Read + 1] = t
    BY <2>1, <2>2, <2>3, <2>4
  <2>7. QED
    BY <1>1, <1>3, <2>1, <2>2, <2>4, <2>5, <2>6
<1>6. CASE ahead = "none" /\ t = "end"
  <2>1. seen' = seen /\ Read = Len(seen)
    BY <1>4, <1>6 DEF New, Read
  <2>2. Extends(seen, seen')
    BY <1>1, <2>1 DEF Extends
  <2>3. QED
    BY <1>1, <1>3, <1>6, <2>1, <2>2
<1>7. CASE ahead = "none" /\ t # "end"
  <2>1. ~ended /\ t \in Tokens
    BY <1>1, <1>7 DEF Coming
  <2>2. New(t) /\ seen' = Append(seen, t) /\ Read = Len(seen)
    BY <1>4, <1>7, <2>1 DEF New, Read
  <2>3. /\ Append(seen, t) \in Seq(Tokens) /\ Len(Append(seen, t)) = Len(seen) + 1
        /\ \A j \in 1 .. Len(seen) : Append(seen, t)[j] = seen[j]
        /\ Append(seen, t)[Len(seen) + 1] = t
    BY <1>1, <2>1, AppendProperties
  <2>4. Extends(seen, seen') /\ Len(seen') \in Nat
    BY <1>1, <2>2, <2>3 DEF Extends
  <2>5. Read \in Nat /\ Read <= Len(seen)
    BY <1>1, <2>2
  <2>6. QED
    BY <1>1, <1>3, <1>7, <2>1, <2>2, <2>3, <2>4, <2>5
<1>8. QED
  BY <1>5, <1>6, <1>7

(* A token that is taken, and one that is given back. *)
LEMMA Taken ==
  ASSUME TypeOK, AheadSeen, NEW t \in Coming, Take(t)
  PROVE  /\ AheadSeen' /\ ahead' = "none"
         /\ Read' = IF t = "end" THEN Read ELSE Read + 1
<1>1. Note(t) /\ ahead' = "none"
  BY DEF Take
<1>2. Read' = Len(seen')
  BY <1>1 DEF Read
<1>3. QED
  BY <1>1, <1>2, Noted DEF AheadSeen

(* A token that is given back is read again. *)
LEMMA GivenBack ==
  ASSUME TypeOK, AheadSeen, NEW t \in Coming, GiveBack(t)
  PROVE  /\ AheadSeen' /\ Read' = Read
         /\ ahead' = IF t = "end" THEN "none" ELSE t
<1>1. Note(t) /\ ahead' = IF t = "end" THEN "none" ELSE t
  BY DEF GiveBack
<1>2. "none" \notin Tokens
  BY DEF Tokens, Unquoted, Parses
<1>3. CASE t = "end"
  <2>1. ahead' = "none" /\ Len(seen') = Read
    BY <1>1, <1>3, Noted
  <2>2. QED
    BY <1>1, <1>3, <2>1 DEF Read, AheadSeen
<1>4. CASE t # "end"
  <2>1. ahead' = t /\ t # "none" /\ Len(seen') = Read + 1 /\ seen'[Read + 1] = t /\ Read \in Nat
    BY <1>1, <1>2, <1>4, Noted
  <2>2. Read' = Len(seen') - 1
    BY <2>1 DEF Read
  <2>3. Read' = Read
    BY <2>1, <2>2
  <2>4. AheadSeen'
    BY <2>1 DEF AheadSeen
  <2>5. QED
    BY <1>1, <2>3, <2>4
<1>5. QED
  BY <1>3, <1>4

-----------------------------------------------------------------------------
(* What Append adds. *)
LEMMA Appended ==
  ASSUME NEW X, NEW as \in Seq(X), NEW x \in X
  PROVE  /\ Append(as, x) \in Seq(X) /\ Len(Append(as, x)) = Len(as) + 1
         /\ Append(as, x)[Len(as) + 1] = x
         /\ \A j \in 1 .. Len(as) : Append(as, x)[j] = as[j]
<1>1. Append(as, x) \in Seq(X)
  BY AppendProperties
<1>2. PICK n \in Nat : n = Len(as)
  BY LenProperties
<1>3. Append(as, x)[n + 1] = x
  BY <1>2, AppendProperties
<1>4. Len(Append(as, x)) = Len(as) + 1
  OBVIOUS
<1>5. \A j \in 1 .. Len(as) : Append(as, x)[j] = as[j]
  OBVIOUS
<1>6. QED
  BY <1>1, <1>2, <1>3, <1>4, <1>5

(* The number of arguments that were found. *)
LEMMA GivenAppend ==
  ASSUME NEW as \in Seq(SlotValues), NEW x \in SlotValues
  PROVE  /\ \A i \in 1 .. Len(as) : GivenOf(Append(as, x), i) = GivenOf(as, i)
         /\ GivenOf(as, Len(as)) \in Nat
         /\ GivenOf(Append(as, x), Len(as) + 1) =
              IF x.found THEN GivenOf(as, Len(as)) + 1 ELSE GivenOf(as, Len(as))
<1>1. PICK n \in Nat : n = Len(as)
  BY LenProperties
<1>2. PICK bs : bs = Append(as, x)
  OBVIOUS
<1>3. bs[n + 1] = x /\ \A j \in 1 .. n : bs[j] = as[j]
  <2>1. bs[n + 1] = x
    BY <1>1, <1>2, Appended
  <2>2. \A j \in 1 .. n : bs[j] = as[j]
    BY <1>1, <1>2, Appended
  <2>3. QED
    BY <2>1, <2>2
<1>4. ASSUME NEW i \in 1 .. n PROVE GivenOf(bs, i) = GivenOf(as, i)
  <2>1. \A j \in 1 .. i : bs[j] = as[j]
    <3>1. \A j \in 1 .. i : j \in 1 .. n
      OBVIOUS
    <3>2. QED
      BY <1>3, <3>1
  <2>2. {j \in 1 .. i : bs[j].found} = {j \in 1 .. i : as[j].found}
    BY <2>1
  <2>3. QED
    BY <2>2 DEF GivenOf
<1> DEFINE F == {j \in 1 .. n : as[j].found}
<1>5. IsFiniteSet(F) /\ Cardinality(F) \in Nat /\ n + 1 \notin F
  <2>1. IsFiniteSet(1 .. n)
    BY FS_Interval
  <2>2. IsFiniteSet(F)
    BY <2>1, FS_Subset
  <2>3. \A j \in F : j \in 1 .. n
    OBVIOUS
  <2>4. n + 1 \notin 1 .. n
    OBVIOUS
  <2> HIDE DEF F
  <2>5. QED
    BY <2>2, <2>3, <2>4, FS_CardinalityType
<1>6. GivenOf(as, n) = Cardinality(F)
  BY DEF GivenOf
<1>7. {j \in 1 .. n + 1 : bs[j].found} = IF x.found THEN F \cup {n + 1} ELSE F
  <2>1. \A j : j \in 1 .. n + 1 <=> j \in 1 .. n \/ j = n + 1
    OBVIOUS
  <2>2. \A j : j \in {k \in 1 .. n + 1 : bs[k].found} <=> j \in F \/ (j = n + 1 /\ x.found)
    BY <1>3, <2>1
  <2> HIDE DEF F
  <2>3. QED
    BY <2>2
<1>8. GivenOf(bs, n + 1) = IF x.found THEN Cardinality(F) + 1 ELSE Cardinality(F)
  <2> HIDE DEF F
  <2>1. CASE x.found
    <3>1. GivenOf(bs, n + 1) = Cardinality(F \cup {n + 1})
      BY <1>7, <2>1 DEF GivenOf
    <3>2. QED
      BY <1>5, <2>1, <3>1, FS_AddElement
  <2>2. CASE ~x.found
    BY <1>7, <2>2 DEF GivenOf
  <2>3. QED
    BY <2>1, <2>2
<1>9. QED
  BY <1>1, <1>2, <1>4, <1>5, <1>6, <1>8

(* A token more behind the r that were taken changes nothing. *)
LEMMA CountedKept ==
  ASSUME NEW as \in Seq(SlotValues), NEW ts \in Seq(Tokens), NEW us \in Seq(Tokens),
         Extends(ts, us), NEW r \in Nat, r <= Len(ts), CountedOf(as, ts, r)
  PROVE  CountedOf(as, us, r)
<1> SUFFICES ASSUME "open" \notin {us[i] : i \in DOMAIN us}
             PROVE  /\ GivenOf(as, Len(as)) = r
                    /\ \A i \in 1 .. Len(as) : as[i].found =>
                         GivenOf(as, i) \in 1 .. r /\ Matches(as[i], us[GivenOf(as, i)])
  BY DEF CountedOf
<1>1. /\ Len(ts) \in Nat /\ Len(us) \in Nat /\ DOMAIN us = 1 .. Len(us)
      /\ DOMAIN ts = 1 .. Len(ts) /\ Len(ts) <= Len(us)
      /\ \A j \in 1 .. Len(ts) : us[j] = ts[j]
  BY LenProperties DEF Extends
<1>2. "open" \notin {ts[i] : i \in DOMAIN ts}
  <2>1. \A i \in DOMAIN ts : i \in DOMAIN us /\ us[i] = ts[i]
    BY <1>1
  <2>2. QED
    BY <2>1
<1>3. \A j \in 1 .. r : us[j] = ts[j]
  BY <1>1
<1>4. QED
  BY <1>2, <1>3 DEF CountedOf

(* The next token is taken, and is an argument that was found. *)
LEMMA CountedFound ==
  ASSUME NEW as \in Seq(SlotValues), NEW us \in Seq(Tokens), NEW r \in Nat,
         CountedOf(as, us, r), NEW x \in SlotValues, x.found, Matches(x, us[r + 1])
  PROVE  CountedOf(Append(as, x), us, r + 1)
<1> SUFFICES ASSUME "open" \notin {us[i] : i \in DOMAIN us}
             PROVE  LET bs == Append(as, x)
                    IN  /\ GivenOf(bs, Len(bs)) = r + 1
                        /\ \A i \in 1 .. Len(bs) : bs[i].found =>
                             GivenOf(bs, i) \in 1 .. r + 1 /\ Matches(bs[i], us[GivenOf(bs, i)])
  BY DEF CountedOf
<1>1. PICK n \in Nat : n = Len(as)
  BY LenProperties
<1>2. PICK bs : bs = Append(as, x)
  OBVIOUS
<1>3. Len(bs) = n + 1 /\ bs[n + 1] = x /\ \A j \in 1 .. n : bs[j] = as[j]
  <2>1. Len(bs) = n + 1
    BY <1>1, <1>2, Appended
  <2>2. bs[n + 1] = x
    BY <1>1, <1>2, Appended
  <2>3. \A j \in 1 .. n : bs[j] = as[j]
    BY <1>1, <1>2, Appended
  <2>4. QED
    BY <2>1, <2>2, <2>3
<1>4. /\ GivenOf(as, n) = r
      /\ \A i \in 1 .. n : as[i].found =>
           GivenOf(as, i) \in 1 .. r /\ Matches(as[i], us[GivenOf(as, i)])
  BY <1>1 DEF CountedOf
<1>5. GivenOf(bs, n + 1) = r + 1 /\ \A i \in 1 .. n : GivenOf(bs, i) = GivenOf(as, i)
  BY <1>1, <1>2, <1>4, GivenAppend
<1>6. 1 .. r \subseteq 1 .. r + 1 /\ r + 1 \in 1 .. r + 1
      /\ \A i \in 1 .. n + 1 : i \in 1 .. n \/ i = n + 1
  OBVIOUS
<1>7. ASSUME NEW i \in 1 .. n + 1, bs[i].found
      PROVE  GivenOf(bs, i) \in 1 .. r + 1 /\ Matches(bs[i], us[GivenOf(bs, i)])
  <2>1. CASE i \in 1 .. n
    BY <1>3, <1>4, <1>5, <1>6, <1>7, <2>1
  <2>2. CASE i = n + 1
    BY <1>3, <1>5, <1>6, <2>2
  <2>3. QED
    BY <1>6, <2>1, <2>2
<1>8. QED
  BY <1>2, <1>3, <1>5, <1>7

(* An argument that is absent takes no token. *)
LEMMA CountedAbsent ==
  ASSUME NEW as \in Seq(SlotValues), NEW us \in Seq(Tokens), NEW r \in Nat,
         CountedOf(as, us, r), NEW x \in SlotValues, ~x.found
  PROVE  CountedOf(Append(as, x), us, r)
<1> SUFFICES ASSUME "open" \notin {us[i] : i \in DOMAIN us}
             PROVE  LET bs == Append(as, x)
                    IN  /\ GivenOf(bs, Len(bs)) = r
                        /\ \A i \in 1 .. Len(bs) : bs[i].found =>
                             GivenOf(bs, i) \in 1 .. r /\ Matches(bs[i], us[GivenOf(bs, i)])
  BY DEF CountedOf
<1>1. PICK n \in Nat : n = Len(as)
  BY LenProperties
<1>2. PICK bs : bs = Append(as, x)
  OBVIOUS
<1>3. Len(bs) = n + 1 /\ bs[n + 1] = x /\ \A j \in 1 .. n : bs[j] = as[j]
  <2>1. Len(bs) = n + 1
    BY <1>1, <1>2, Appended
  <2>2. bs[n + 1] = x
    BY <1>1, <1>2, Appended
  <2>3. \A j \in 1 .. n : bs[j] = as[j]
    BY <1>1, <1>2, Appended
  <2>4. QED
    BY <2>1, <2>2, <2>3
<1>4. /\ GivenOf(as, n) = r
      /\ \A i \in 1 .. n : as[i].found =>
           GivenOf(as, i) \in 1 .. r /\ Matches(as[i], us[GivenOf(as, i)])
  BY <1>1 DEF CountedOf
<1>5. GivenOf(bs, n + 1) = r /\ \A i \in 1 .. n : GivenOf(bs, i) = GivenOf(as, i)
  BY <1>1, <1>2, <1>4, GivenAppend
<1>6. \A i \in 1 .. n + 1 : i \in 1 .. n \/ i = n + 1
  OBVIOUS
<1>7. ASSUME NEW i \in 1 .. n + 1, bs[i].found
      PROVE  GivenOf(bs, i) \in 1 .. r /\ Matches(bs[i], us[GivenOf(bs, i)])
  <2>1. i \in 1 .. n
    BY <1>3, <1>6, <1>7
  <2>2. QED
    BY <1>3, <1>4, <1>5, <1>7, <2>1
<1>8. QED
  BY <1>2, <1>3, <1>5, <1>7

-----------------------------------------------------------------------------
(* The pattern of search: five optional elements, then the text. *)
SearchPattern(q) ==
  /\ Len(q) = 6 /\ q[6].op = "string_end"
  /\ \A k \in 1 .. 5 : q[k].opt /\ q[k].op \in Typed

(* The row of search: five optional arguments and a text. *)
LEMMA SearchRow == SearchPattern(Messages["search"].args)
<1>1. PICK a : a = Opt("peer")
  OBVIOUS
<1>2. PICK b : b = Opt("number")
  OBVIOUS
<1>3. PICK c : c = Rest
  OBVIOUS
<1>4. /\ a.op \in Typed /\ a.opt /\ b.op \in Typed /\ b.opt /\ c.op = "string_end"
  BY <1>1, <1>2, <1>3 DEF Opt, Rest, Arg, Typed
<1>5. PICK q : q = <<a, b, b, b, b, c>>
  OBVIOUS
<1>6. Len(q) = 6 /\ q[1] = a /\ q[2] = b /\ q[3] = b /\ q[4] = b /\ q[5] = b /\ q[6] = c
  BY <1>5
<1>7. \A k \in 1 .. 5 : k = 1 \/ k = 2 \/ k = 3 \/ k = 4 \/ k = 5
  OBVIOUS
<1>8. SearchPattern(q)
  BY <1>4, <1>6, <1>7 DEF SearchPattern
<1>9. Messages["search"].args = q
  BY <1>1, <1>2, <1>3, <1>5 DEF Messages, Cmd
<1>10. QED
  BY <1>8, <1>9

(* No other section has a command of that name. *)
LEMMA SearchIs ==
  ASSUME "search" \in DOMAIN commands
  PROVE  SearchPattern(commands["search"].args)
<1> DEFINE Row(s) == "search" \in DOMAIN s => SearchPattern(s["search"].args)
<1>1. Row(Information) /\ Row(Control) /\ Row(Sending)
  <2>1. "search" \notin DOMAIN Information
    BY DEF Information
  <2>2. "search" \notin DOMAIN Control
    BY DEF Control
  <2>3. "search" \notin DOMAIN Sending
    BY DEF Sending
  <2>4. QED
    BY <2>1, <2>2, <2>3
<1>2. Row(Replying) /\ Row(Profile) /\ Row(Chats)
  <2>1. "search" \notin DOMAIN Replying
    BY DEF Replying
  <2>2. "search" \notin DOMAIN Profile
    BY DEF Profile
  <2>3. "search" \notin DOMAIN Chats
    BY DEF Chats
  <2>4. QED
    BY <2>1, <2>2, <2>3
<1>3. Row(Contacts) /\ Row(SecretChats) /\ Row(Channels)
  <2>1. "search" \notin DOMAIN Contacts
    BY DEF Contacts
  <2>2. "search" \notin DOMAIN SecretChats
    BY DEF SecretChats
  <2>3. "search" \notin DOMAIN Channels
    BY DEF Channels
  <2>4. QED
    BY <2>1, <2>2, <2>3
<1>4. Row(Dialogs) /\ Row(Media) /\ Row(Messages)
  <2>1. "search" \notin DOMAIN Dialogs
    BY DEF Dialogs
  <2>2. "search" \notin DOMAIN Media
    BY DEF Media
  <2>3. QED
    BY <2>1, <2>2, SearchRow
<1>5. \A s \in Sections : Row(s)
  <2> HIDE DEF Row
  <2>1. QED
    BY <1>1, <1>2, <1>3, <1>4 DEF Sections
<1>6. /\ DOMAIN commands = UNION {DOMAIN s : s \in Sections}
      /\ commands["search"] = (CHOOSE s \in Sections : "search" \in DOMAIN s)["search"]
  BY Zenon DEF commands
<1>7. \E s \in Sections : "search" \in DOMAIN s
  BY <1>6, Zenon
<1>8. PICK s \in Sections : "search" \in DOMAIN s /\ commands["search"] = s["search"]
  BY <1>6, <1>7, Zenon
<1>9. QED
  BY <1>5, <1>8

(* A text is the last element.  A list is the last but the period, except  *)
(* that of broadcast, which has a text behind it.                          *)
ListIsLast(q, k) ==
  \/ k + 1 = Len(q)
  \/ Len(q) = 3 /\ k = 1 /\ q[2].op = "period" /\ q[3].op = "string_end"

(* A text is last in a pattern, and so is a list. *)
LEMMA ShapedLasts ==
  ASSUME NEW q \in Seq(Element), Ordered(q), NEW pre, Shape(q, pre), NEW k \in 1 .. Len(q)
  PROVE  /\ q[k].op = "string_end" => k = Len(q) /\ k = pre + 1
         /\ List(q, k) => k + 1 = Len(q) /\ k = pre + 1
<1>1. /\ Len(q) \in Nat /\ DOMAIN q = 1 .. Len(q) /\ pre \in Nat /\ pre <= Len(q) /\ k \in Nat
  <2>1. Len(q) \in Nat /\ DOMAIN q = 1 .. Len(q) /\ pre \in 0 .. Len(q)
    BY LenProperties DEF Shape, Must
  <2>2. QED
    BY <2>1
<1>2. "string_end" \notin Typed /\ "period" \notin Typed
  BY DEF Typed
<1>3. CASE k \in 1 .. pre
  BY <1>2, <1>3 DEF Shape, Must
<1>4. CASE k \in pre + 1 .. Len(q)
  <2>1. CASE OptTail(q, pre)
    <3>1. \A j \in pre + 1 .. Len(q) : q[j].op \in Typed
      BY <2>1 DEF OptTail
    <3>2. k + 1 \in DOMAIN q => k + 1 \in pre + 1 .. Len(q)
      BY <1>1, <1>4
    <3>3. QED
      BY <1>2, <1>4, <3>1, <3>2 DEF List
  <2>2. CASE TextTail(q, pre)
    <3>1. k = Len(q) /\ k = pre + 1 /\ k + 1 \notin DOMAIN q
      <4>1. PICK n \in Nat : n = Len(q)
        BY <1>1
      <4>2. pre + 1 = n /\ k \in pre + 1 .. n /\ DOMAIN q = 1 .. n
        BY <1>1, <1>4, <2>2, <4>1 DEF TextTail
      <4>3. k = n /\ k = pre + 1 /\ k + 1 \notin 1 .. n
        BY <1>1, <4>2
      <4>4. QED
        BY <4>1, <4>2, <4>3
    <3>2. QED
      BY <3>1 DEF List
  <2>3. CASE ListTail(q, pre)
    <3>1. /\ pre + 2 = Len(q) /\ pre + 1 \in DOMAIN q /\ (pre + 1) + 1 = pre + 2
          /\ k = pre + 1 \/ k = pre + 2
      <4>1. PICK n \in Nat : n = Len(q)
        BY <1>1
      <4>2. pre + 2 = n /\ k \in pre + 1 .. n /\ DOMAIN q = 1 .. n
        BY <1>1, <1>4, <2>3, <4>1 DEF ListTail
      <4>3. (k = pre + 1 \/ k = pre + 2) /\ pre + 1 \in 1 .. n /\ (pre + 1) + 1 = pre + 2
        BY <1>1, <4>2
      <4>4. QED
        BY <4>1, <4>2, <4>3
    <3>2. List(q, pre + 1) /\ q[pre + 2].op = "period"
      BY <2>3, <3>1 DEF ListTail, List
    <3>3. q[pre + 1].op \in Typed
      BY <3>1, <3>2 DEF Ordered
    <3>4. q[k].op # "string_end"
      BY <1>2, <3>1, <3>2, <3>3
    <3>5. (pre + 2) + 1 \notin DOMAIN q
      BY <1>1, <3>1
    <3>6. List(q, k) => k = pre + 1
      BY <3>1, <3>5 DEF List
    <3>7. QED
      BY <3>1, <3>4, <3>6
  <2>4. QED
    BY <2>1, <2>2, <2>3 DEF Shape
<1>5. k \in 1 .. pre \/ k \in pre + 1 .. Len(q)
  BY <1>1
<1>6. QED
  BY <1>3, <1>4, <1>5

(* A text is last in every pattern of the table; only in broadcast has a   *)
(* list a text behind it.                                                  *)
LEMMA Lasts ==
  ASSUME TypeOK, command # "none"
  PROVE  /\ \A k \in 1 .. Len(pattern) : pattern[k].op = "string_end" => k = Len(pattern)
         /\ \A k \in 1 .. Len(pattern) : List(pattern, k) => ListIsLast(pattern, k)
<1>1. /\ pattern \in Seq(Element) /\ DOMAIN pattern = 1 .. Len(pattern) /\ Len(pattern) \in Nat
      /\ command \in DOMAIN commands /\ pattern = commands[command].args /\ Ordered(pattern)
      /\ Good(command, commands[command])
  BY PatternGood
<1>2. "string_end" \notin Typed /\ "period" \notin Typed
  BY DEF Typed
<1>3. CASE command = "broadcast"
  <2>1. /\ Len(pattern) = 3 /\ pattern[1] = Peer /\ pattern[2] = Period /\ pattern[3] = Rest
    BY <1>1, <1>3 DEF Good, Broadcast
  <2>2. \A k \in 1 .. 3 : k = 1 \/ k = 2 \/ k = 3
    OBVIOUS
  <2>3. 2 + 1 = 3 /\ 3 + 1 \notin 1 .. 3
    OBVIOUS
  <2>4. \A k \in 1 .. 3 : pattern[k].op = "string_end" => k = 3
    BY <2>1, <2>2, Periods
  <2>5. \A k \in 1 .. 3 : List(pattern, k) => k = 1
    BY <1>1, <2>1, <2>2, <2>3, Periods DEF List
  <2>6. pattern[2].op = "period" /\ pattern[3].op = "string_end"
    BY <2>1, Periods
  <2>7. QED
    BY <2>1, <2>4, <2>5, <2>6 DEF ListIsLast
<1>4. CASE command = "search"
  <2>1. SearchPattern(pattern)
    BY <1>1, <1>4, SearchIs
  <2>2. \A k \in 1 .. 6 : k \in 1 .. 5 \/ k = 6
    OBVIOUS
  <2>3. \A k \in 1 .. 6 : pattern[k].op # "period"
    BY <1>2, <2>1, <2>2 DEF SearchPattern
  <2>4. \A k \in 1 .. 6 : pattern[k].op = "string_end" => k = 6
    BY <1>2, <2>1, <2>2 DEF SearchPattern
  <2>5. \A k : ~List(pattern, k)
    BY <1>1, <2>1, <2>3 DEF SearchPattern, List
  <2>6. QED
    BY <2>1, <2>4, <2>5 DEF SearchPattern
<1>5. CASE command \notin {"broadcast", "search"}
  <2>1. Shaped(pattern)
    BY <1>1, <1>5, TableShaped
  <2>2. PICK pre : Shape(pattern, pre)
    BY <2>1 DEF Shaped
  <2>3. QED
    BY <1>1, <2>2, ShapedLasts DEF ListIsLast
<1>6. QED
  BY <1>3, <1>4, <1>5

-----------------------------------------------------------------------------
(* Where the pointer stands when an element takes a token or none. *)
LEMMA HereIs ==
  ASSUME TypeOK, Place, Reading, op \in Typed \cup {"string"}
  PROVE  /\ pattern \in Seq(Element) /\ Len(pattern) \in Nat /\ DOMAIN pattern = 1 .. Len(pattern)
         /\ Ordered(pattern) /\ at \in Nat /\ here \in Nat /\ here \in 1 .. Len(pattern)
         /\ pattern[here].op = op /\ pattern[here].opt = opt
         /\ op # "period" /\ op # "string_end"
         /\ (repeated <=> List(pattern, here))
         /\ at = here \/ (at = here + 1 /\ List(pattern, here))
         /\ repeated => op \in Typed
<1>1. /\ pattern \in Seq(Element) /\ Len(pattern) \in Nat /\ DOMAIN pattern = 1 .. Len(pattern)
      /\ Ordered(pattern)
  BY PatternGood
<1>2. /\ here \in DOMAIN pattern /\ pattern[here].op = op /\ pattern[here].opt = opt
      /\ op # "period" /\ (repeated <=> List(pattern, here)) /\ (repeated => op \in Typed)
  BY Here
<1>3. at \in 1 .. Len(pattern) + 1
  BY DEF Reading
<1>4. at \in Nat /\ here \in Nat /\ here \in 1 .. Len(pattern)
  BY <1>1, <1>2, <1>3
<1>5. CASE Elem(at).op = "period"
  <2>1. here = at - 1
    BY <1>5 DEF here
  <2>2. at = here + 1
    BY <1>4, <2>1
  <2>3. repeated
    BY <1>5, <2>2 DEF repeated
  <2>4. QED
    BY <1>1, <1>2, <1>4, <2>2, <2>3 DEF Typed
<1>6. CASE Elem(at).op # "period"
  <2>1. here = at
    BY <1>6 DEF here
  <2>2. QED
    BY <1>1, <1>2, <1>4, <2>1 DEF Typed
<1>7. QED
  BY <1>5, <1>6

(* The tokens that were taken are some of those that were read. *)
LEMMA ReadIs ==
  ASSUME TypeOK, AheadSeen
  PROVE  /\ Read \in Nat /\ Len(seen) \in Nat /\ Read <= Len(seen) /\ seen \in Seq(Tokens)
         /\ ahead = "none" => Read = Len(seen)
<1>1. seen \in Seq(Tokens) /\ Len(seen) \in Nat
  BY LenProperties DEF TypeOK
<1>2. QED
  BY <1>1 DEF Read, AheadSeen

AtMust(pre)   == here \in 1 .. pre /\ at = here /\ Read = here - 1 /\ ~opt /\ ~repeated
AtOption(pre) == /\ here > pre /\ at = here /\ OptTail(pattern, pre)
                 /\ op \in Typed /\ opt /\ ~repeated /\ Read >= pre
                 /\ Read = here - 1 \/ PassedAt(pattern, pre, ahead, ended)
AtText(pre)   == /\ here = pre + 1 /\ here = Len(pattern) /\ at = here
                 /\ op = "string" /\ opt /\ ~repeated /\ Read = pre
AtList(pre)   == /\ here = pre + 1 /\ pre + 2 = Len(pattern) /\ List(pattern, here)
                 /\ op \in Typed /\ repeated /\ Read >= pre

(* Where the pointer is: at an element that must come, or at the tail of   *)
(* the pattern.                                                            *)
LEMMA Where ==
  ASSUME TypeOK, Place, Reading, op \in Typed \cup {"string"},
         NEW pre, Shape(pattern, pre), ForcedAt(pattern, pre, at, Read, ahead, ended)
  PROVE  /\ pre \in Nat /\ pre <= Len(pattern)
         /\ AtMust(pre) \/ (AtOption(pre) /\ NoPeriod(pattern))
            \/ (AtText(pre) /\ NoPeriod(pattern)) \/ AtList(pre)
<1>1. /\ pattern \in Seq(Element) /\ DOMAIN pattern = 1 .. Len(pattern)
      /\ Ordered(pattern) /\ here \in 1 .. Len(pattern)
      /\ pattern[here].op = op /\ pattern[here].opt = opt
      /\ op # "period" /\ op # "string_end"
      /\ (repeated <=> List(pattern, here))
      /\ at = here \/ (at = here + 1 /\ List(pattern, here))
      /\ repeated => op \in Typed
  BY HereIs
<1>2. PICK n \in Nat : n = Len(pattern)
  BY <1>1, LenProperties
<1>3. PICK h \in 1 .. n : h = here
  BY <1>1, <1>2
<1>4. PICK r \in Nat : r = Read
  <2>1. AheadSeen
    BY DEF Reading
  <2>2. Read \in Nat
    BY <2>1, ReadIs
  <2>3. QED
    BY <2>2
<1>5. pre \in Nat /\ pre <= n /\ h \in Nat
  <2>1. pre \in 0 .. n
    BY <1>2 DEF Shape, Must
  <2>2. QED
    BY <1>3, <2>1
<1>6. IF at <= pre + 1 THEN r = at - 1
      ELSE /\ r >= pre
           /\ \/ PassedAt(pattern, pre, ahead, ended)
              \/ at \in DOMAIN pattern /\ pattern[at].op = "period"
              \/ r = at - 1 /\ NoPeriod(pattern)
  BY <1>4 DEF ForcedAt
<1>7. at = h \/ (at = h + 1 /\ List(pattern, h))
  BY <1>1, <1>3
<1>8. "period" \notin Typed \cup {"string"}
  BY DEF Typed
<1>9. CASE h <= pre
  <2>1. h \in 1 .. pre
    BY <1>3, <1>5, <1>9
  <2>2. ~opt /\ ~List(pattern, h)
    BY <1>1, <1>3, <2>1 DEF Shape, Must
  <2>3. at = h /\ r = h - 1
    BY <1>5, <1>6, <1>7, <1>9, <2>2
  <2>4. AtMust(pre)
    BY <1>1, <1>3, <1>4, <2>1, <2>2, <2>3 DEF AtMust
  <2>5. QED
    BY <1>2, <1>5, <2>4
<1>10. CASE h > pre
  <2>1. h \in pre + 1 .. n
    BY <1>3, <1>5, <1>10
  <2>2. \A k \in DOMAIN pattern : k \in 1 .. pre \/ k \in pre + 1 .. n
    BY <1>1, <1>2, <1>5
  <2>3. \A k \in 1 .. pre : pattern[k].op # "period"
    BY <1>8 DEF Shape, Must
  <2>4. CASE OptTail(pattern, pre)
    <3>1. \A k \in pre + 1 .. n : pattern[k].opt /\ pattern[k].op \in Typed
      BY <1>2, <2>4 DEF OptTail
    <3>2. NoPeriod(pattern)
      BY <1>8, <2>2, <2>3, <3>1 DEF NoPeriod
    <3>3. ~List(pattern, h) /\ at = h /\ at \in DOMAIN pattern
      BY <1>1, <1>2, <1>3, <1>7, <3>2 DEF List, NoPeriod
    <3>4. r >= pre /\ (r = h - 1 \/ PassedAt(pattern, pre, ahead, ended))
      <4>1. CASE at <= pre + 1
        BY <1>5, <1>6, <1>10, <3>3, <4>1
      <4>2. CASE ~(at <= pre + 1)
        BY <1>6, <3>2, <3>3, <4>2 DEF NoPeriod
      <4>3. QED
        BY <4>1, <4>2
    <3>5. AtOption(pre)
      BY <1>1, <1>3, <1>4, <1>10, <2>1, <2>4, <3>1, <3>3, <3>4 DEF AtOption
    <3>6. QED
      BY <1>2, <1>5, <3>2, <3>5
  <2>5. CASE TextTail(pattern, pre)
    <3>1. pre + 1 = n /\ h = pre + 1
      BY <1>2, <2>1, <2>5, <1>5 DEF TextTail
    <3>2. op = "string" /\ opt
      BY <1>1, <1>3, <2>5, <3>1 DEF TextTail
    <3>3. \A k \in pre + 1 .. n : k = h
      BY <1>5, <3>1
    <3>4. NoPeriod(pattern)
      BY <1>1, <1>3, <2>2, <2>3, <3>3 DEF NoPeriod
    <3>5. ~List(pattern, h) /\ at = h
      BY <1>1, <1>3, <1>7, <3>4 DEF List, NoPeriod
    <3>6. r = pre
      BY <1>5, <1>6, <3>1, <3>5
    <3>7. AtText(pre)
      BY <1>1, <1>2, <1>3, <1>4, <3>1, <3>2, <3>5, <3>6 DEF AtText
    <3>8. QED
      BY <1>2, <1>5, <3>4, <3>7
  <2>6. CASE ListTail(pattern, pre)
    <3>1. pre + 2 = n /\ (h = pre + 1 \/ h = pre + 2) /\ (pre + 1) + 1 = pre + 2
      BY <1>2, <1>5, <2>1, <2>6 DEF ListTail
    <3>2. List(pattern, pre + 1)
      BY <2>6 DEF ListTail
    <3>3. pattern[pre + 2].op = "period"
      BY <3>1, <3>2 DEF List
    <3>4. h = pre + 1
      BY <1>1, <1>3, <3>1, <3>3
    <3>5. r >= pre
      BY <1>5, <1>6, <1>7, <3>4
    <3>6. AtList(pre)
      BY <1>1, <1>2, <1>3, <1>4, <3>1, <3>2, <3>4, <3>5 DEF AtList
    <3>7. QED
      BY <1>2, <1>5, <3>6
  <2>7. QED
    BY <2>4, <2>5, <2>6 DEF Shape
<1>11. QED
  BY <1>5, <1>9, <1>10

-----------------------------------------------------------------------------
(* What was read still ends where it did when a token more is noted. *)
LEMMA EndsKept ==
  ASSUME TypeOK, Reading, NEW t \in Coming, Note(t)
  PROVE  Read \in Ends(pattern, seen')[at - 1]
<1>1. pattern \in Seq(Element) /\ Len(pattern) \in Nat
  BY PatternGood
<1>2. AheadSeen /\ at \in 1 .. Len(pattern) + 1 /\ Read \in Ends(pattern, seen)[at - 1]
  BY DEF Reading
<1>3. /\ seen' \in Seq(Tokens) /\ seen \in Seq(Tokens) /\ Read \in Nat /\ Read <= Len(seen)
      /\ Extends(seen, seen') /\ Len(seen') \in Nat /\ Len(seen) \in Nat
  BY <1>2, Noted, ReadIs
<1>4. PICK r \in Nat : r = Read
  BY <1>3
<1>5. PICK i \in 0 .. Len(pattern) : i = at - 1
  BY <1>1, <1>2
<1>6. /\ r <= Len(seen) /\ r <= Len(seen') /\ \A j \in 1 .. r : seen[j] = seen'[j]
  BY <1>3, <1>4 DEF Extends
<1>7. r \in Ends(pattern, seen)[i] /\ r <= r
  BY <1>2, <1>4, <1>5
<1>8. r \in Ends(pattern, seen')[i]
  BY <1>1, <1>3, <1>6, <1>7, EndsSame
<1>9. QED
  BY <1>4, <1>5, <1>8

(* A token that fills the element here ends it. *)
LEMMA TakenEnds ==
  ASSUME TypeOK, Place, Reading, op \in Typed \cup {"string"},
         NEW t \in Coming, Note(t), t # "end", Fills(pattern[here], t)
  PROVE  Read + 1 \in Ends(pattern, seen')[here]
<1>1. /\ pattern \in Seq(Element) /\ here \in Nat /\ here \in 1 .. Len(pattern)
      /\ pattern[here].op = op /\ op # "period" /\ op # "string_end"
      /\ at = here \/ (at = here + 1 /\ List(pattern, here))
      /\ (repeated <=> List(pattern, here)) /\ (repeated => op \in Typed)
  BY HereIs
<1>2. AheadSeen
  BY DEF Reading
<1>3. /\ seen' \in Seq(Tokens) /\ Read \in Nat /\ Len(seen') = Read + 1 /\ seen'[Read + 1] = t
  BY <1>2, Noted
<1>4. PICK r \in Nat : r = Read
  BY <1>3
<1>5. PICK h \in 1 .. Len(pattern) : h = here /\ h \in Nat
  BY <1>1
<1>6. r \in Ends(pattern, seen')[at - 1]
  BY <1>4, EndsKept
<1>7. r + 1 <= Len(seen') /\ Fills(pattern[h], seen'[r + 1])
  BY <1>3, <1>4, <1>5
<1>8. CASE at = h
  <2>1. r \in Ends(pattern, seen')[h - 1]
    BY <1>6, <1>8
  <2>2. r + 1 \in Ends(pattern, seen')[h]
    BY <1>1, <1>3, <1>5, <1>7, <2>1, OneToken
  <2>3. QED
    BY <1>4, <1>5, <2>2
<1>9. CASE at = h + 1 /\ List(pattern, h)
  <2>1. at - 1 = h
    BY <1>5, <1>9
  <2>2. r \in Ends(pattern, seen')[h] /\ pattern[h].op \in Typed
    BY <1>1, <1>5, <1>6, <1>9, <2>1
  <2>3. r + 1 \in Ends(pattern, seen')[h]
    BY <1>1, <1>3, <1>7, <1>9, <2>2, ListToken
  <2>4. QED
    BY <1>4, <1>5, <2>3
<1>10. QED
  BY <1>1, <1>5, <1>8, <1>9

(* An optional element, or a list, that takes nothing more. *)
LEMMA SkippedEnds ==
  ASSUME TypeOK, Place, Reading, op \in Typed \cup {"string"}, opt \/ repeated,
         NEW t \in Coming, Note(t)
  PROVE  /\ Read \in Ends(pattern, seen')[here]
         /\ repeated => /\ here + 1 \in 1 .. Len(pattern) /\ (here + 2) - 1 = here + 1
                        /\ Read \in Ends(pattern, seen')[here + 1]
<1>1. /\ pattern \in Seq(Element) /\ DOMAIN pattern = 1 .. Len(pattern)
      /\ here \in Nat /\ here \in 1 .. Len(pattern)
      /\ pattern[here].op = op /\ pattern[here].opt = opt /\ op # "period" /\ op # "string_end"
      /\ at = here \/ (at = here + 1 /\ List(pattern, here))
      /\ (repeated <=> List(pattern, here))
  BY HereIs
<1>2. AheadSeen
  BY DEF Reading
<1>3. seen' \in Seq(Tokens) /\ Read \in Nat
  BY <1>2, Noted
<1>4. PICK r \in Nat : r = Read
  BY <1>3
<1>5. PICK h \in 1 .. Len(pattern) : h = here /\ h \in Nat
  BY <1>1
<1>6. r \in Ends(pattern, seen')[at - 1]
  BY <1>4, EndsKept
<1>7. r \in Ends(pattern, seen')[h]
  <2>1. CASE at = h
    <3>1. r \in Ends(pattern, seen')[h - 1]
      BY <1>6, <2>1
    <3>2. pattern[h].op # "string_end" /\ (List(pattern, h) \/ pattern[h].opt)
      BY <1>1, <1>5
    <3>3. QED
      BY <1>1, <1>3, <3>1, <3>2, NoToken
  <2>2. CASE at = h + 1
    <3>1. at - 1 = h
      BY <1>5, <2>2
    <3>2. QED
      BY <1>6, <3>1
  <2>3. QED
    BY <1>1, <1>5, <2>1, <2>2
<1>8. ASSUME repeated
      PROVE  h + 1 \in 1 .. Len(pattern) /\ r \in Ends(pattern, seen')[h + 1]
  <2>1. h + 1 \in 1 .. Len(pattern) /\ pattern[h + 1].op = "period"
    BY <1>1, <1>5, <1>8 DEF List
  <2>2. PICK k \in 1 .. Len(pattern) : k = h + 1
    BY <2>1
  <2>3. k - 1 = h
    BY <1>5, <2>2
  <2>4. r \in Ends(pattern, seen')[k - 1]
    BY <1>7, <2>3
  <2>5. pattern[k].op = "period" /\ pattern[k].op # "string_end"
    BY <2>1, <2>2
  <2>6. r \in Ends(pattern, seen')[k]
    BY <1>1, <1>3, <2>4, <2>5, NoToken
  <2>7. QED
    BY <2>1, <2>2, <2>6
<1>9. (here + 2) - 1 = here + 1
  BY <1>1
<1>10. QED
  BY <1>4, <1>5, <1>7, <1>8, <1>9

(* The text at the end of a pattern is the first behind the others. *)
LEMMA ForcedTaken ==
  ASSUME TypeOK, Place, Reading, op \in Typed \cup {"string"},
         NEW pre, Shape(pattern, pre), ForcedAt(pattern, pre, at, Read, ahead, ended),
         NEW t \in Coming, t # "end", Fills(pattern[here], t), NEW e
  PROVE  ForcedAt(pattern, pre, here + 1, Read + 1, "none", e)
<1>1. /\ pattern \in Seq(Element) /\ DOMAIN pattern = 1 .. Len(pattern)
      /\ here \in Nat /\ here \in 1 .. Len(pattern)
      /\ pattern[here].op = op /\ op # "period" /\ op # "string_end"
  BY HereIs
<1>2. PICK n \in Nat : n = Len(pattern)
  BY <1>1, LenProperties
<1>3. AheadSeen
  BY DEF Reading
<1>4. PICK r \in Nat : r = Read
  <2>1. Read \in Nat
    BY <1>3, ReadIs
  <2>2. QED
    BY <2>1
<1>5. PICK h \in 1 .. n : h = here /\ h \in Nat
  BY <1>1, <1>2
<1>6. /\ pre \in Nat /\ pre <= n
      /\ AtMust(pre) \/ (AtOption(pre) /\ NoPeriod(pattern))
            \/ (AtText(pre) /\ NoPeriod(pattern)) \/ AtList(pre)
  BY <1>2, Where
<1>7. CASE AtMust(pre)
  <2>1. h \in 1 .. pre /\ r = h - 1
    BY <1>4, <1>5, <1>7 DEF AtMust
  <2>2. h + 1 <= pre + 1 /\ r + 1 = (h + 1) - 1
    BY <1>5, <1>6, <2>1
  <2>3. QED
    BY <1>4, <1>5, <2>2 DEF ForcedAt
<1>8. ASSUME h > pre, r >= pre, pattern[pre + 1].op # "string_end",
             \/ h + 1 \in DOMAIN pattern /\ pattern[h + 1].op = "period"
             \/ r = h - 1 /\ NoPeriod(pattern)
      PROVE  ForcedAt(pattern, pre, here + 1, Read + 1, "none", e)
  <2>1. ~(h + 1 <= pre + 1) /\ r + 1 >= pre /\ (r = h - 1 => r + 1 = (h + 1) - 1)
    BY <1>5, <1>6, <1>8
  <2>2. QED
    BY <1>4, <1>5, <1>8, <2>1 DEF ForcedAt
<1>9. CASE AtOption(pre) /\ NoPeriod(pattern)
  <2>1. /\ h > pre /\ r >= pre /\ OptTail(pattern, pre)
        /\ r = h - 1 \/ PassedAt(pattern, pre, ahead, ended)
    BY <1>4, <1>5, <1>9 DEF AtOption
  <2>2. h \in pre + 1 .. n /\ pre + 1 \in pre + 1 .. n
    BY <1>5, <1>6, <2>1
  <2>3. ~PassedAt(pattern, pre, ahead, ended)
    <3>1. ~(ended /\ ahead = "none")
      BY DEF Coming
    <3>2. ahead # "none" => ahead = t
      BY DEF Coming
    <3>3. QED
      BY <1>1, <1>2, <1>5, <2>2, <3>1, <3>2 DEF PassedAt
  <2>4. pattern[pre + 1].op # "string_end"
    BY <1>2, <2>1, <2>2 DEF OptTail, Typed
  <2>5. QED
    BY <1>8, <1>9, <2>1, <2>3, <2>4
<1>10. CASE AtText(pre) /\ NoPeriod(pattern)
  <2>1. h = pre + 1 /\ r = pre
    BY <1>4, <1>5, <1>10 DEF AtText
  <2>2. h > pre /\ r >= pre /\ r = h - 1
    BY <1>6, <2>1
  <2>3. pattern[pre + 1].op # "string_end"
    BY <1>1, <1>5, <2>1
  <2>4. QED
    BY <1>8, <1>10, <2>2, <2>3
<1>11. CASE AtList(pre)
  <2>1. h = pre + 1 /\ r >= pre /\ List(pattern, h)
    BY <1>4, <1>5, <1>11 DEF AtList
  <2>2. h > pre
    BY <1>6, <2>1
  <2>3. pattern[pre + 1].op # "string_end"
    BY <1>1, <1>5, <2>1
  <2>4. h + 1 \in DOMAIN pattern /\ pattern[h + 1].op = "period"
    BY <2>1 DEF List
  <2>5. QED
    BY <1>8, <2>1, <2>2, <2>3, <2>4
<1>12. QED
  BY <1>6, <1>7, <1>9, <1>10, <1>11

(* An element that takes no token is passed where every cut has to pass    *)
(* it.                                                                     *)
LEMMA ForcedSkipped ==
  ASSUME TypeOK, Place, Reading, op \in Typed \cup {"string"}, opt \/ repeated,
         NEW pre, Shape(pattern, pre), ForcedAt(pattern, pre, at, Read, ahead, ended),
         NEW t \in Coming, t = "end" \/ (op \in Typed /\ ~Fills(pattern[here], t)),
         NEW e, t = "end" => e, NEW hd, hd = IF t = "end" THEN "none" ELSE t
  PROVE  /\ ForcedAt(pattern, pre, here + 1, Read, hd, e)
         /\ repeated => ForcedAt(pattern, pre, here + 2, Read, hd, e)
<1>1. /\ pattern \in Seq(Element) /\ DOMAIN pattern = 1 .. Len(pattern)
      /\ here \in Nat /\ here \in 1 .. Len(pattern)
      /\ pattern[here].op = op /\ op # "period" /\ op # "string_end"
  BY HereIs
<1>2. PICK n \in Nat : n = Len(pattern)
  BY <1>1, LenProperties
<1>3. AheadSeen
  BY DEF Reading
<1>4. PICK r \in Nat : r = Read
  <2>1. Read \in Nat
    BY <1>3, ReadIs
  <2>2. QED
    BY <2>1
<1>5. PICK h \in 1 .. n : h = here /\ h \in Nat
  BY <1>1, <1>2
<1>6. /\ pre \in Nat /\ pre <= n
      /\ AtOption(pre) \/ AtText(pre) \/ AtList(pre)
  <2>1. /\ pre \in Nat /\ pre <= n
        /\ AtMust(pre) \/ (AtOption(pre) /\ NoPeriod(pattern))
              \/ (AtText(pre) /\ NoPeriod(pattern)) \/ AtList(pre)
    BY <1>2, Where
  <2>2. ~AtMust(pre)
    BY DEF AtMust
  <2>3. QED
    BY <2>1, <2>2
<1>7. t = "end" \/ (hd = t /\ t # "none")
  <2>1. t \in Tokens \cup {"end"} /\ "none" \notin Tokens
    BY ComingTyped DEF Tokens, Unquoted, Parses
  <2>2. QED
    BY <2>1
<1>8. /\ h > pre /\ r >= pre /\ pattern[pre + 1].op # "string_end"
      /\ t # "end" => \A j \in pre + 1 .. n : pattern[j].op # "period" => ~Fills(pattern[j], t)
  <2>1. CASE AtOption(pre)
    <3>1. /\ h > pre /\ r >= pre /\ OptTail(pattern, pre)
      BY <1>4, <1>5, <2>1 DEF AtOption
    <3>2. h \in pre + 1 .. n /\ pre + 1 \in pre + 1 .. n
      BY <1>5, <1>6, <3>1
    <3>3. \A j \in pre + 1 .. n : pattern[j].op = pattern[h].op /\ pattern[j].op \in Typed
      BY <1>2, <3>1, <3>2 DEF OptTail
    <3>4. pattern[pre + 1].op # "string_end"
      BY <3>2, <3>3 DEF Typed
    <3>5. \A j \in pre + 1 .. n : Fills(pattern[j], t) => Fills(pattern[h], t)
      BY <3>3 DEF Fills
    <3>6. QED
      BY <1>5, <3>1, <3>4, <3>5
  <2>2. CASE AtText(pre)
    <3>1. h = pre + 1 /\ r = pre /\ op = "string"
      BY <1>4, <1>5, <2>2 DEF AtText
    <3>2. h > pre /\ r >= pre
      BY <1>6, <3>1
    <3>3. t = "end"
      BY <3>1 DEF Typed
    <3>4. QED
      BY <1>1, <1>5, <3>1, <3>2, <3>3
  <2>3. CASE AtList(pre)
    <3>1. h = pre + 1 /\ r >= pre /\ List(pattern, h) /\ pre + 2 = n
      BY <1>2, <1>4, <1>5, <2>3 DEF AtList
    <3>2. h > pre /\ h + 1 = pre + 2 /\ \A j \in pre + 1 .. n : j = h \/ j = h + 1
      BY <1>6, <3>1
    <3>3. pattern[h + 1].op = "period"
      BY <3>1 DEF List
    <3>4. \A j \in pre + 1 .. n : pattern[j].op # "period" => j = h
      BY <3>2, <3>3
    <3>5. t # "end" => ~Fills(pattern[h], t)
      BY <1>5
    <3>6. QED
      BY <1>1, <1>5, <3>1, <3>2, <3>4, <3>5
  <2>4. QED
    BY <1>6, <2>1, <2>2, <2>3
<1>9. PassedAt(pattern, pre, hd, e)
  BY <1>2, <1>7, <1>8 DEF PassedAt
<1>10. ~(h + 1 <= pre + 1) /\ ~(h + 2 <= pre + 1)
  BY <1>5, <1>6, <1>8
<1>11. QED
  BY <1>4, <1>5, <1>8, <1>9, <1>10 DEF ForcedAt

-----------------------------------------------------------------------------
(* The loop goes on, and what is known of the line is known of what was    *)
(* read so far.                                                            *)
LEMMA CountedNoted ==
  ASSUME TypeOK, Reading, NEW t \in Coming, Note(t)
  PROVE  CountedOf(args, seen', Read)
<1>1. AheadSeen /\ CountedOf(args, seen, Read) /\ args \in Seq(SlotValues)
  BY DEF Reading, TypeOK
<1>2. /\ seen' \in Seq(Tokens) /\ seen \in Seq(Tokens) /\ Read \in Nat /\ Read <= Len(seen)
      /\ Extends(seen, seen')
  BY <1>1, Noted
<1>3. PICK r \in Nat : r = Read
  BY <1>2
<1>4. CountedOf(args, seen', r)
  BY <1>1, <1>2, <1>3, CountedKept
<1>5. QED
  BY <1>3, <1>4

(* What is known of the line is known one element further on. *)
LEMMA ReadingOn ==
  ASSUME Reading, pattern' = pattern, command' = command, AheadSeen', NEW i, at' = i + 1,
         i \in 0 .. Len(pattern), Len(pattern) \in Nat, NEW r, Read' = r,
         r \in Ends(pattern, seen')[i], CountedOf(args', seen', r),
         \A pre : Shape(pattern, pre) /\ ForcedAt(pattern, pre, at, Read, ahead, ended) =>
           ForcedAt(pattern, pre, i + 1, r, ahead', ended')
  PROVE  Reading'
<1>1. i + 1 \in 1 .. Len(pattern) + 1 /\ (i + 1) - 1 = i
  OBVIOUS
<1>2. Read' \in Ends(pattern, seen')[at' - 1]
  BY <1>1
<1>3. ASSUME ~Searched'
      PROVE  \E pre \in 0 .. Len(pattern) :
               Shape(pattern, pre) /\ ForcedAt(pattern, pre, at', Read', ahead', ended')
  <2>1. ~Searched
    BY <1>3 DEF Searched
  <2>2. PICK pre \in 0 .. Len(pattern) :
          Shape(pattern, pre) /\ ForcedAt(pattern, pre, at, Read, ahead, ended)
    BY <2>1 DEF Reading
  <2>3. QED
    BY <2>2
<1>4. CountedOf(args', seen', Read')
  OBVIOUS
<1>5. at' \in 1 .. Len(pattern) + 1
  BY <1>1
<1>6. QED
  BY <1>2, <1>3, <1>4, <1>5 DEF Reading

(* The element here took a token. *)
LEMMA ReadingTaken ==
  ASSUME TypeOK, Place, Reading, op \in Typed \cup {"string"},
         NEW t \in Coming, t # "end", Take(t), Fills(pattern[here], t),
         pattern' = pattern, command' = command, at' = here + 1,
         CountedOf(args', seen', Read + 1)
  PROVE  Reading'
<1>1. here \in Nat /\ here \in 1 .. Len(pattern) /\ Len(pattern) \in Nat
  BY HereIs
<1>2. here \in 0 .. Len(pattern)
  BY <1>1
<1>3. AheadSeen /\ Note(t)
  BY DEF Reading, Take
<1>4. AheadSeen' /\ ahead' = "none" /\ Read' = Read + 1
  BY <1>3, Taken
<1>5. Read + 1 \in Ends(pattern, seen')[here]
  BY <1>3, TakenEnds
<1>6. \A pre : Shape(pattern, pre) /\ ForcedAt(pattern, pre, at, Read, ahead, ended) =>
        ForcedAt(pattern, pre, here + 1, Read + 1, ahead', ended')
  <2> SUFFICES ASSUME NEW pre, Shape(pattern, pre),
                      ForcedAt(pattern, pre, at, Read, ahead, ended)
               PROVE  ForcedAt(pattern, pre, here + 1, Read + 1, "none", ended')
    BY <1>4
  <2> QED
    BY ForcedTaken
<1>7. QED
  BY <1>1, <1>2, <1>4, <1>5, <1>6, ReadingOn

(* An optional element took none. *)
LEMMA ReadingSkipped ==
  ASSUME TypeOK, Place, Reading, op \in Typed \cup {"string"}, opt,
         NEW t \in Coming, GiveBack(t),
         t = "end" \/ (op \in Typed /\ ~Fills(pattern[here], t)),
         pattern' = pattern, command' = command, at' = here + 1,
         NEW x \in SlotValues, ~x.found, args' = Append(args, x)
  PROVE  Reading'
<1>1. here \in Nat /\ here \in 1 .. Len(pattern) /\ Len(pattern) \in Nat
  BY HereIs
<1>2. here \in 0 .. Len(pattern)
  BY <1>1
<1>3. AheadSeen /\ Note(t) /\ args \in Seq(SlotValues)
  BY DEF Reading, GiveBack, TypeOK
<1>4. AheadSeen' /\ ahead' = (IF t = "end" THEN "none" ELSE t) /\ Read' = Read
  BY <1>3, GivenBack
<1>5. Read \in Ends(pattern, seen')[here]
  BY <1>3, SkippedEnds
<1>6. Read \in Nat /\ seen' \in Seq(Tokens) /\ (t = "end" => ended')
  BY <1>3, Noted
<1>7. CountedOf(args', seen', Read)
  <2>1. CountedOf(args, seen', Read)
    BY <1>3, CountedNoted
  <2>2. PICK r \in Nat : r = Read
    BY <1>6
  <2>3. CountedOf(Append(args, x), seen', r)
    BY <1>3, <1>6, <2>1, <2>2, CountedAbsent
  <2>4. QED
    BY <2>2, <2>3
<1>8. \A pre : Shape(pattern, pre) /\ ForcedAt(pattern, pre, at, Read, ahead, ended) =>
        ForcedAt(pattern, pre, here + 1, Read, ahead', ended')
  <2> SUFFICES ASSUME NEW pre, Shape(pattern, pre),
                      ForcedAt(pattern, pre, at, Read, ahead, ended)
               PROVE  ForcedAt(pattern, pre, here + 1, Read, ahead', ended')
    OBVIOUS
  <2> QED
    BY <1>4, <1>6, ForcedSkipped
<1>9. QED
  BY <1>1, <1>2, <1>4, <1>5, <1>7, <1>8, ReadingOn

(* The list here is over. *)
LEMMA ReadingListOver ==
  ASSUME TypeOK, Place, Reading, op \in Typed \cup {"string"}, repeated,
         NEW t \in Coming, GiveBack(t),
         t = "end" \/ (op \in Typed /\ ~Fills(pattern[here], t)),
         pattern' = pattern, command' = command, at' = here + 2, args' = args
  PROVE  Reading'
<1>1. here \in Nat /\ here \in 1 .. Len(pattern) /\ Len(pattern) \in Nat
  BY HereIs
<1>2. AheadSeen /\ Note(t)
  BY DEF Reading, GiveBack
<1>3. AheadSeen' /\ ahead' = (IF t = "end" THEN "none" ELSE t) /\ Read' = Read
  BY <1>2, GivenBack
<1>4. Read \in Ends(pattern, seen')[here + 1] /\ here + 1 \in 1 .. Len(pattern)
  BY <1>2, SkippedEnds
<1>5. here + 1 \in 0 .. Len(pattern) /\ here + 2 = (here + 1) + 1
  BY <1>1, <1>4
<1>6. t = "end" => ended'
  BY <1>2, Noted
<1>7. CountedOf(args', seen', Read)
  BY <1>2, CountedNoted
<1>8. \A pre : Shape(pattern, pre) /\ ForcedAt(pattern, pre, at, Read, ahead, ended) =>
        ForcedAt(pattern, pre, (here + 1) + 1, Read, ahead', ended')
  <2> SUFFICES ASSUME NEW pre, Shape(pattern, pre),
                      ForcedAt(pattern, pre, at, Read, ahead, ended)
               PROVE  ForcedAt(pattern, pre, here + 2, Read, ahead', ended')
    BY <1>5
  <2> QED
    BY <1>3, <1>6, ForcedSkipped
<1>9. PICK i \in 0 .. Len(pattern) : i = here + 1
  BY <1>5
<1>10. at' = i + 1
  BY <1>5, <1>9
<1>11. QED
  BY <1>1, <1>3, <1>4, <1>7, <1>8, <1>9, <1>10, ReadingOn

-----------------------------------------------------------------------------
(* The lines that are refused fit nothing. *)
LEMMA MustRefuses ==
  ASSUME TypeOK, Place, Reading, op \in Typed \cup {"string"}, ~Searched, ~opt, ~repeated,
         NEW t \in Coming, Take(t), t = "end" \/ ~Fills(pattern[here], t)
  PROVE  ~Fits(pattern, seen') /\ (t # "end" => ~Begins(pattern, seen'))
<1>1. /\ pattern \in Seq(Element) /\ here \in Nat /\ here \in 1 .. Len(pattern)
      /\ Len(pattern) \in Nat
  BY HereIs
<1>2. PICK pre : Shape(pattern, pre) /\ ForcedAt(pattern, pre, at, Read, ahead, ended)
  BY DEF Reading
<1>3. pre \in Nat /\ pre <= Len(pattern) /\ AtMust(pre) /\ Must(pattern, pre)
  <2>1. /\ pre \in Nat /\ pre <= Len(pattern)
        /\ AtMust(pre) \/ (AtOption(pre) /\ NoPeriod(pattern))
              \/ (AtText(pre) /\ NoPeriod(pattern)) \/ AtList(pre)
    BY <1>2, Where
  <2>2. ~AtOption(pre) /\ ~AtText(pre) /\ ~AtList(pre)
    BY DEF AtOption, AtText, AtList
  <2>3. QED
    BY <1>2, <2>1, <2>2 DEF Shape
<1>4. AheadSeen /\ Note(t)
  BY DEF Reading, Take
<1>5. /\ seen' \in Seq(Tokens) /\ Read \in Nat /\ Len(seen') \in Nat
      /\ t = "end" => Len(seen') = Read
      /\ t # "end" => Len(seen') = Read + 1 /\ seen'[Read + 1] = t
  BY <1>4, Noted
<1>6. PICK h \in 1 .. pre : h = here /\ h \in Nat /\ Read = h - 1
  BY <1>1, <1>3 DEF AtMust
<1>7. PICK ts \in Seq(Tokens) : ts = seen'
  BY <1>5
<1>8. h > Len(ts) \/ (Len(ts) = h /\ ~Fills(pattern[h], ts[h]))
  <2>1. Read + 1 = h
    BY <1>5, <1>6
  <2>2. CASE t = "end"
    BY <1>5, <1>6, <1>7, <2>2
  <2>3. CASE t # "end"
    BY <1>5, <1>6, <1>7, <2>1, <2>3
  <2>4. QED
    BY <2>2, <2>3
<1>9. \A i \in h .. Len(pattern) : Ends(pattern, ts)[i] = {}
  BY <1>1, <1>3, <1>6, <1>8, Refused
<1>10. ~Fits(pattern, ts)
  <2>1. Len(pattern) \in h .. Len(pattern)
    BY <1>1, <1>3, <1>6
  <2>2. Ends(pattern, ts)[Len(pattern)] = {}
    BY <1>9, <2>1
  <2>3. QED
    BY <2>2 DEF Fits
<1>11. ASSUME t # "end" PROVE ~Begins(pattern, ts)
  <2> SUFFICES ASSUME NEW i \in 0 .. Len(pattern), Len(ts) \in Ends(pattern, ts)[i]
               PROVE  FALSE
    BY DEF Begins
  <2>1. Len(ts) = h
    BY <1>5, <1>6, <1>7, <1>11
  <2>2. CASE i >= h
    <3>1. i \in h .. Len(pattern)
      BY <1>1, <1>6, <2>2
    <3>2. QED
      BY <1>9, <3>1
  <2>3. CASE ~(i >= h)
    <3>1. i \in 0 .. pre /\ i # h
      BY <1>1, <1>3, <1>6, <2>3
    <3>2. \A j \in 0 .. pre : Ends(pattern, ts)[j] \subseteq {j}
      BY <1>1, <1>3, MustEnds
    <3>3. QED
      BY <2>1, <3>1, <3>2
  <2>4. QED
    BY <2>2, <2>3
<1>12. QED
  BY <1>7, <1>10, <1>11

(* Where the pointer stands when the rest of the line is a text. *)
LEMMA TextIs ==
  ASSUME TypeOK, Place, Reading, command # "none", op = "string_end"
  PROVE  /\ at = Len(pattern) /\ at \in 1 .. Len(pattern) /\ pattern[at].op = "string_end"
         /\ \A pre : Shape(pattern, pre) /\ ForcedAt(pattern, pre, at, Read, ahead, ended) =>
              pre \in Nat /\ at = pre + 1 /\ Read = pre
<1>1. /\ pattern \in Seq(Element) /\ Len(pattern) \in Nat /\ DOMAIN pattern = 1 .. Len(pattern)
      /\ Ordered(pattern)
  BY PatternGood
<1>2. at \in DOMAIN pattern /\ pattern[at].op = "string_end"
  BY HereText
<1>3. PICK n \in Nat : n = Len(pattern)
  BY <1>1
<1>4. at \in 1 .. n /\ at = n /\ at \in Nat
  <2>1. at \in 1 .. Len(pattern) /\ at = Len(pattern)
    BY <1>1, <1>2, Lasts
  <2>2. QED
    BY <1>3, <2>1
<1>5. ASSUME NEW pre, Shape(pattern, pre), ForcedAt(pattern, pre, at, Read, ahead, ended)
      PROVE  pre \in Nat /\ at = pre + 1 /\ Read = pre
  <2>1. pre \in 0 .. n
    BY <1>3, <1>5 DEF Shape, Must
  <2>2. at = pre + 1
    BY <1>1, <1>2, <1>3, <1>4, <1>5, ShapedLasts
  <2>3. pre \in Nat /\ at <= pre + 1 /\ at - 1 = pre
    BY <1>4, <2>1, <2>2
  <2>4. Read = at - 1
    BY <1>5, <2>3 DEF ForcedAt
  <2>5. QED
    BY <2>2, <2>3, <2>4
<1>6. QED
  BY <1>1, <1>2, <1>3, <1>4, <1>5

(* Where a text has to begin, a quoted token with more behind it fits      *)
(* nothing.                                                                *)
LEMMA TextRefuses ==
  ASSUME TypeOK, Place, Reading, command # "none", op = "string_end", ~Searched,
         NEW ts \in Seq(Tokens), Read < Len(ts), ts[Read + 1] \notin Unquoted,
         ts[Read + 1] # "quoted" \/ Len(ts) # Read + 1
  PROVE  ~Fits(pattern, ts)
<1> SUFFICES ASSUME Fits(pattern, ts) PROVE FALSE
  OBVIOUS
<1>1. PICK pre \in Nat : /\ Shape(pattern, pre) /\ at = pre + 1 /\ Read = pre
  <2>1. PICK pre : Shape(pattern, pre) /\ ForcedAt(pattern, pre, at, Read, ahead, ended)
    BY DEF Reading
  <2>2. pre \in Nat /\ at = pre + 1 /\ Read = pre
    BY <2>1, TextIs
  <2>3. QED
    BY <2>1, <2>2
<1>2. pattern \in Seq(Element) /\ Must(pattern, pre)
  BY <1>1, PatternGood DEF Shape
<1>3. pre + 1 = Len(pattern) /\ pattern[pre + 1].op = "string_end"
  BY <1>1, TextIs
<1>4. Len(ts) \in Ends(pattern, ts)[Len(pattern)]
  BY DEF Fits
<1>5. pre < Len(ts) /\ ts[pre + 1] \notin Unquoted
  BY <1>1
<1>6. Len(ts) = pre + 1 /\ ts[pre + 1] = "quoted"
  BY <1>2, <1>3, <1>4, <1>5, TextTaken
<1>7. QED
  BY <1>1, <1>6

(* The pattern is at its end, and there is one more token. *)
LEMMA NoneIs ==
  ASSUME TypeOK, Reading, op = "none"
  PROVE  at = Len(pattern) + 1 /\ at - 1 = Len(pattern) /\ Len(pattern) \in Nat
<1>1. /\ pattern \in Seq(Element) /\ Len(pattern) \in Nat /\ DOMAIN pattern = 1 .. Len(pattern)
      /\ Ordered(pattern) /\ \A k \in DOMAIN pattern : pattern[k] \in Element
  BY PatternGood
<1>2. at \in 1 .. Len(pattern) + 1 /\ at \in Nat
  <2>1. at \in 1 .. Len(pattern) + 1
    BY DEF Reading
  <2>2. QED
    BY <1>1, <2>1
<1>3. None.op = "none" /\ \A i : i \notin DOMAIN pattern => Elem(i) = None
  BY DEF None, Arg, Elem
<1>4. \A k \in DOMAIN pattern : pattern[k].op # "none"
  BY <1>1 DEF Element, Operators, Typed
<1>5. here \notin DOMAIN pattern
  BY <1>4 DEF op, Elem
<1>6. Elem(at).op # "period"
  <2> SUFFICES ASSUME Elem(at).op = "period" PROVE FALSE
    OBVIOUS
  <2>1. here = at - 1
    BY DEF here
  <2>2. at \in DOMAIN pattern /\ pattern[at].op = "period"
    BY <1>3 DEF Elem
  <2>3. at > 1
    BY <1>1, <2>2 DEF Ordered
  <2>4. here \in DOMAIN pattern
    BY <1>1, <1>2, <2>1, <2>2, <2>3
  <2>5. QED
    BY <1>5, <2>4
<1>7. here = at
  BY <1>6 DEF here
<1>8. QED
  BY <1>1, <1>2, <1>5, <1>7

(* Behind the pattern a token fits nothing. *)
LEMMA NoneRefuses ==
  ASSUME TypeOK, Reading, op = "none", ~Searched, NEW t \in Coming, t # "end", Take(t)
  PROVE  ~Fits(pattern, seen') /\ ~Begins(pattern, seen')
<1>1. /\ pattern \in Seq(Element) /\ DOMAIN pattern = 1 .. Len(pattern) /\ Ordered(pattern)
  BY PatternGood
<1>2. PICK n \in Nat : n = Len(pattern) /\ at = n + 1
  BY NoneIs
<1>3. PICK pre : Shape(pattern, pre) /\ ForcedAt(pattern, pre, at, Read, ahead, ended)
  BY DEF Reading
<1>4. pre \in Nat /\ pre <= n /\ Must(pattern, pre)
  <2>1. pre \in 0 .. n
    BY <1>2, <1>3 DEF Shape, Must
  <2>2. QED
    BY <1>3, <2>1 DEF Shape
<1>5. AheadSeen /\ Note(t)
  BY DEF Reading, Take
<1>6. /\ seen' \in Seq(Tokens) /\ Read \in Nat /\ Len(seen') \in Nat
      /\ Len(seen') = Read + 1 /\ seen'[Read + 1] = t
  BY <1>5, Noted
<1>7. PICK ts \in Seq(Tokens) : ts = seen'
  BY <1>6
<1>8. PICK r \in Nat : r = Read /\ Len(ts) = r + 1 /\ ts[r + 1] = t
  BY <1>6, <1>7
<1>9. \A i \in 0 .. n : r + 1 \notin Ends(pattern, ts)[i]
  <2>1. CASE at <= pre + 1
    <3>1. pre = n /\ r = n
      <4>1. r = at - 1
        BY <1>3, <1>8, <2>1 DEF ForcedAt
      <4>2. QED
        BY <1>2, <1>4, <2>1, <4>1
    <3>2. \A i \in 0 .. n : r + 1 # i
      BY <3>1
    <3>3. \A i \in 0 .. n : Ends(pattern, ts)[i] \subseteq {i}
      BY <1>1, <1>4, <3>1, MustEnds
    <3>4. QED
      BY <3>2, <3>3
  <2>2. CASE ~(at <= pre + 1)
    <3>1. /\ r >= pre /\ pattern[pre + 1].op # "string_end"
          /\ PassedAt(pattern, pre, ahead, ended) \/ (r = at - 1 /\ NoPeriod(pattern))
      <4>1. at \notin DOMAIN pattern
        BY <1>1, <1>2
      <4>2. QED
        BY <1>3, <1>8, <2>2, <4>1 DEF ForcedAt
    <3>2. pre + 1 \in 1 .. n
      BY <1>2, <1>4, <2>2
    <3>3. \A k \in 1 .. n : pattern[k].op # "string_end"
      <4>1. ASSUME NEW k \in 1 .. n, pattern[k].op = "string_end" PROVE FALSE
        <5>1. k = pre + 1
          BY <1>1, <1>2, <1>3, <4>1, ShapedLasts
        <5>2. QED
          BY <3>1, <4>1, <5>1
      <4>2. QED
        BY <4>1
    <3>4. CASE r = at - 1 /\ NoPeriod(pattern)
      <4>1. \A k \in 1 .. Len(pattern) : pattern[k].op \notin {"period", "string_end"}
        BY <1>1, <1>2, <3>3, <3>4 DEF NoPeriod
      <4>2. r = n
        BY <1>2, <3>4
      <4>3. \A i \in 0 .. n : \A m \in Ends(pattern, ts)[i] : m <= i
        BY <1>1, <1>2, <4>1, NotLonger
      <4>4. \A i \in 0 .. n : ~(r + 1 <= i)
        BY <4>2
      <4>5. QED
        BY <4>3, <4>4
    <3>5. CASE PassedAt(pattern, pre, ahead, ended)
      <4>1. \A j \in pre + 1 .. n : pattern[j].op # "period" => ~Fills(pattern[j], t)
        <5>1. ~(ended /\ ahead = "none")
          BY DEF Coming
        <5>2. ahead # "none" => ahead = t
          BY DEF Coming
        <5>3. QED
          BY <1>2, <3>5, <5>1, <5>2 DEF PassedAt
      <4>2. \A k \in pre + 1 .. Len(pattern) : pattern[k].op # "string_end"
        <5>1. \A k \in pre + 1 .. n : k \in 1 .. n
          BY <1>4
        <5>2. QED
          BY <1>2, <3>3, <5>1
      <4>3. ASSUME NEW i \in 0 .. n, r + 1 \in Ends(pattern, ts)[i] PROVE FALSE
        <5>1. r + 1 > pre
          BY <1>4, <3>1
        <5>2. PICK m : m = r + 1
          OBVIOUS
        <5>3. m \in Ends(pattern, ts)[i] /\ m > pre /\ ts[m] = t
          BY <1>8, <4>3, <5>1, <5>2
        <5>4. \E j \in pre + 1 .. Len(pattern) :
                pattern[j].op # "period" /\ Fills(pattern[j], ts[m])
          BY <1>1, <1>2, <1>4, <4>2, <5>3, LastTaken
        <5>5. QED
          BY <1>2, <4>1, <5>3, <5>4
      <4>4. QED
        BY <4>3
    <3>6. QED
      BY <3>1, <3>4, <3>5
  <2>3. QED
    BY <2>1, <2>2
<1>10. ~Fits(pattern, ts)
  <2>1. n \in 0 .. n
    OBVIOUS
  <2>2. QED
    BY <1>2, <1>8, <1>9, <2>1 DEF Fits
<1>11. ~Begins(pattern, ts)
  BY <1>2, <1>8, <1>9 DEF Begins
<1>12. QED
  BY <1>7, <1>10, <1>11

-----------------------------------------------------------------------------
(* The arguments as are the tokens ts, but a text that stands for none. *)
Lined(as, ts) ==
  "open" \notin {ts[i] : i \in DOMAIN ts} =>
    /\ \/ GivenOf(as, Len(as)) = Len(ts)
       \/ GivenOf(as, Len(as)) = Len(ts) + 1 /\ as[Len(as)] = Found("str")
    /\ \A i \in DOMAIN as :
         as[i].found /\ GivenOf(as, i) <= Len(ts) => Matches(as[i], ts[GivenOf(as, i)])

(* When every token of the line was taken, the arguments are the line. *)
LEMMA LinedAll ==
  ASSUME NEW as \in Seq(SlotValues), NEW ts \in Seq(Tokens), CountedOf(as, ts, Len(ts))
  PROVE  Lined(as, ts)
<1>1. DOMAIN as = 1 .. Len(as)
  BY LenProperties
<1>2. QED
  BY <1>1 DEF Lined, CountedOf

(* They are the line also with a text that stands for no token. *)
LEMMA LinedText ==
  ASSUME NEW as \in Seq(SlotValues), NEW ts \in Seq(Tokens), CountedOf(as, ts, Len(ts))
  PROVE  Lined(Append(as, Found("str")), ts)
<1> SUFFICES ASSUME "open" \notin {ts[i] : i \in DOMAIN ts}
             PROVE  Lined(Append(as, Found("str")), ts)
  BY DEF Lined
<1>1. PICK n \in Nat : n = Len(as)
  BY LenProperties
<1>2. PICK x \in SlotValues : x = Found("str")
  BY StringTyped
<1>3. PICK bs : bs = Append(as, x)
  OBVIOUS
<1>4. Len(bs) = n + 1 /\ DOMAIN bs = 1 .. n + 1
  <2>1. bs \in Seq(SlotValues)
    BY <1>3, Appended
  <2>2. Len(bs) = n + 1
    BY <1>1, <1>3, Appended
  <2>3. QED
    BY <2>1, <2>2, LenProperties
<1>5. bs[n + 1] = x
  BY <1>1, <1>3, Appended
<1>6. \A j \in 1 .. n : bs[j] = as[j]
  BY <1>1, <1>3, Appended
<1>7. PICK r \in Nat : r = Len(ts)
  BY LenProperties
<1>8. /\ GivenOf(as, n) = r
      /\ \A i \in 1 .. n : as[i].found =>
           GivenOf(as, i) \in 1 .. r /\ Matches(as[i], ts[GivenOf(as, i)])
  BY <1>1, <1>7 DEF CountedOf
<1>9. GivenOf(bs, n + 1) = r + 1 /\ \A i \in 1 .. n : GivenOf(bs, i) = GivenOf(as, i)
  <2>1. x.found
    BY <1>2 DEF Found
  <2>2. QED
    BY <1>1, <1>3, <1>8, <2>1, GivenAppend
<1>10. \A i \in 1 .. n + 1 : i \in 1 .. n \/ i = n + 1
  OBVIOUS
<1>11. ASSUME NEW i \in 1 .. n + 1, bs[i].found, GivenOf(bs, i) <= r
       PROVE  Matches(bs[i], ts[GivenOf(bs, i)])
  <2>1. CASE i \in 1 .. n
    BY <1>6, <1>8, <1>9, <1>11, <2>1
  <2>2. CASE i = n + 1
    BY <1>7, <1>9, <1>11, <2>2
  <2>3. QED
    BY <1>10, <2>1, <2>2
<1>12. Lined(bs, ts)
  BY <1>2, <1>4, <1>5, <1>7, <1>9, <1>11 DEF Lined
<1>13. QED
  BY <1>2, <1>3, <1>12

(* The line is over: its handler was called, or it was refused. *)
LEMMA FunFits ==
  ASSUME Inv, pc = "args", NEW as, NEW fl, NEW own, Fun(as, fl, own),
         Fits(pattern, seen'), Lined(as, seen')
  PROVE  Fitting'
<1>1. fails = 0 /\ count \in Nat
  BY BoundsAssumption DEF BoundsAssumption, Inv, Parsing, TypeOK
<1>2. CASE Enough(as) \/ count = 0
  <2>1. /\ pc' \in {"done", "dead"} /\ args' = as /\ calls' = count /\ fails' = 0
        /\ command' = command /\ pattern' = pattern /\ count' = count
    BY <1>1, <1>2 DEF Fun, Finish
  <2>2. LineFits'
    BY <1>1, <2>1 DEF LineFits, Called, Over
  <2>3. \A i : Given(i)' = GivenOf(as, i)
    BY <2>1 DEF Given, GivenOf
  <2>4. ArgsAreTheLine'
    BY <2>1, <2>3 DEF ArgsAreTheLine, Lined
  <2>5. RefusedOnceOrCalled'
    BY <2>1 DEF RefusedOnceOrCalled
  <2>6. QED
    BY <2>1, <2>2, <2>4, <2>5 DEF Fitting
<1>3. CASE ~(Enough(as) \/ count = 0)
  <2>1. pc' = "dead"
    BY <1>3 DEF Fun, Assertion
  <2>2. QED
    BY <2>1 DEF Fitting, LineFits, ArgsAreTheLine, RefusedOnceOrCalled, Called, Over
<1>4. QED
  BY <1>2, <1>3

(* A line is refused where no cut of it is left. *)
LEMMA RefusedFits ==
  ASSUME Inv, pc = "args", NEW as, NEW fl, NEW own, Break(as, fl, own) \/ Fail(as, fl, own),
         ~Searched => ~(IF ended' THEN Fits(pattern, seen') ELSE Begins(pattern, seen')),
         Fail(as, fl, own)
           \/ /\ op \in Typed /\ ~Fits(pattern, seen')
              /\ ended' \/ (Len(seen') > 0 /\ seen'[Len(seen')] = "quoted")
  PROVE  Fitting'
<1>1. fails = 0 /\ calls = 0
  BY DEF Inv, Parsing
<1>2. /\ pc' \in {"done", "dead"} /\ calls' = 0
      /\ command' = command /\ pattern' = pattern /\ at' = at
      /\ fails' = 1
           \/ /\ fails' = 0 /\ op \in Typed /\ ~Fits(pattern, seen')
              /\ ended' \/ (Len(seen') > 0 /\ seen'[Len(seen')] = "quoted")
  <2>1. Finish(as, fl, own) /\ calls' = 0 /\ fails' \in {0, 1}
    <3>1. CASE Break(as, fl, own)
      BY <1>1, <3>1 DEF Break
    <3>2. CASE Fail(as, fl, own)
      BY <1>1, <3>2 DEF Fail, fail_interface
    <3>3. QED
      BY <3>1, <3>2
  <2>2. Fail(as, fl, own) => fails' = 1
    BY <1>1 DEF Fail, fail_interface
  <2>3. pc' \in {"done", "dead"} /\ command' = command /\ pattern' = pattern /\ at' = at
    BY <2>1 DEF Finish
  <2>4. QED
    BY <2>1, <2>2, <2>3
<1>3. op' = op
  BY <1>2 DEF op, here, Elem
<1>4. LineFits'
  BY <1>2 DEF LineFits, Called, Over, Searched
<1>5. ArgsAreTheLine'
  BY <1>2 DEF ArgsAreTheLine, Called, Over
<1>6. RefusedOnceOrCalled'
  BY <1>2, <1>3 DEF RefusedOnceOrCalled
<1>7. QED
  BY <1>2, <1>4, <1>5, <1>6 DEF Fitting

(* The loop goes on. *)
LEMMA OnFits ==
  ASSUME pc' = "args", Reading'
  PROVE  Fitting'
BY DEF Fitting, LineFits, ArgsAreTheLine, RefusedOnceOrCalled, Called, Over

-----------------------------------------------------------------------------
(* The actions, one by one. *)
LEMMA Parsed ==
  ASSUME Inv, Fitting, pc = "args"
  PROVE  /\ TypeOK /\ Place /\ Reading /\ AheadSeen /\ command # "none"
         /\ args \in Seq(SlotValues) /\ "open" \notin Unquoted /\ "quoted" \notin Unquoted
BY DEF Inv, Parsing, TypeOK, Fitting, Reading, Unquoted, Parses

(* What fills the element here. *)
LEMMA HereFills ==
  ASSUME TypeOK, Place, NEW t
  PROVE  /\ op \in Typed => (Fills(pattern[here], t) <=> t \in Unquoted /\ op \in Parses[t])
         /\ op = "string" => (Fills(pattern[here], t) <=> t # "open" \/ opt)
<1>1. CASE op \in Typed
  <2>1. pattern[here].op = op
    BY <1>1, Here
  <2>2. op # "string"
    BY <1>1 DEF Typed
  <2>3. QED
    BY <1>1, <2>1, <2>2 DEF Fills
<1>2. CASE op = "string"
  <2>1. pattern[here].op = op /\ pattern[here].opt = opt
    BY <1>2, Here
  <2>2. op \notin Typed
    BY <1>2 DEF Typed
  <2>3. QED
    BY <1>2, <2>1, <2>2 DEF Fills
<1>3. QED
  BY <1>1, <1>2

(* Neither of the two commands has a typed argument that must come and     *)
(* that is no list.                                                        *)
LEMMA SearchedHere ==
  ASSUME TypeOK, Place, command # "none", op \in Typed, Searched
  PROVE  opt \/ repeated
<1>1. CASE command = "broadcast"
  BY <1>1, BroadcastHere
<1>2. CASE command = "search"
  <2>1. SearchPattern(pattern)
    <3>1. command \in DOMAIN commands /\ pattern = commands[command].args
      BY PatternGood
    <3>2. QED
      BY <1>2, <3>1, SearchIs
  <2>2. /\ here \in DOMAIN pattern /\ pattern[here].op = op /\ pattern[here].opt = opt
        /\ DOMAIN pattern = 1 .. Len(pattern)
    BY Here, PatternGood
  <2>3. here \in 1 .. 6 /\ here # 6
    BY <2>1, <2>2 DEF SearchPattern, Typed
  <2>4. here \in 1 .. 5
    BY <2>3
  <2>5. QED
    BY <2>1, <2>2, <2>4 DEF SearchPattern
<1>3. QED
  BY <1>1, <1>2 DEF Searched

(* A quote or the end of the line where a peer, number or message id may   *)
(* come.                                                                   *)
LEMMA TypedAbsentFits ==
  ASSUME Inv, Fitting, TypedAbsent
  PROVE  Fitting'
<1>1. pc = "args" /\ op \in Typed
  BY DEF TypedAbsent, Looping
<1>2. /\ TypeOK /\ Place /\ Reading /\ AheadSeen /\ command # "none"
  BY <1>1, Parsed
<1>3. PICK t \in Coming \ Unquoted :
        IF opt THEN SkipOpt(t)
        ELSE IF repeated THEN SkipList(t)
        ELSE Take(t) /\ Break(args, flags, owned)
  BY DEF TypedAbsent
<1>4. ~Fills(pattern[here], t)
  BY <1>1, <1>2, <1>3, HereFills
<1>5. CASE opt
  <2>1. GiveBack(t) /\ Continue(here + 1, Append(args, Absent(op)))
    BY <1>3, <1>5 DEF SkipOpt
  <2>2. /\ pattern' = pattern /\ command' = command /\ at' = here + 1 /\ pc' = pc
        /\ args' = Append(args, Absent(op))
    BY <2>1 DEF Continue
  <2>3. Absent(op) \in SlotValues /\ ~Absent(op).found
    BY <1>1, StringTyped DEF Absent
  <2>4. Reading'
    BY <1>1, <1>2, <1>3, <1>4, <1>5, <2>1, <2>2, <2>3, ReadingSkipped
  <2>5. QED
    BY <1>1, <2>2, <2>4, OnFits
<1>6. CASE ~opt /\ repeated
  <2>1. GiveBack(t) /\ Continue(here + 2, args)
    BY <1>3, <1>6 DEF SkipList
  <2>2. /\ pattern' = pattern /\ command' = command /\ at' = here + 2 /\ pc' = pc
        /\ args' = args
    BY <2>1 DEF Continue
  <2>3. Reading'
    BY <1>1, <1>2, <1>3, <1>4, <1>6, <2>1, <2>2, ReadingListOver
  <2>4. QED
    BY <1>1, <2>2, <2>3, OnFits
<1>7. CASE ~opt /\ ~repeated
  <2>1. Take(t) /\ Break(args, flags, owned)
    BY <1>3, <1>7
  <2>2. ~Searched
    BY <1>1, <1>2, <1>7, SearchedHere
  <2>3. ~Fits(pattern, seen') /\ (t # "end" => ~Begins(pattern, seen'))
    BY <1>1, <1>2, <1>3, <1>4, <1>7, <2>1, <2>2, MustRefuses
  <2>4. /\ t = "end" => ended'
        /\ ended' \/ (Len(seen') > 0 /\ seen'[Len(seen')] = "quoted")
    <3>1. t \in {"end", "open", "quoted"}
      BY <1>2, <1>3, ComingTyped DEF Tokens
    <3>2. t \in {"end", "open"} => ended'
      BY <2>1 DEF Take, Note
    <3>3. t = "quoted" => Len(seen') > 0 /\ seen'[Len(seen')] = t
      <4>1. /\ Read \in Nat
            /\ t # "end" => Len(seen') = Read + 1 /\ seen'[Read + 1] = t
        BY <1>2, <1>3, <2>1, Noted DEF Take
      <4>2. Read + 1 > 0
        BY <4>1
      <4>3. QED
        BY <4>1, <4>2
    <3>4. QED
      BY <3>1, <3>2, <3>3
  <2>5. QED
    BY <1>1, <2>1, <2>3, <2>4, RefusedFits
<1>8. QED
  BY <1>5, <1>6, <1>7

(* A word where a peer, number or message id may come. *)
LEMMA TypedParsedFits ==
  ASSUME Inv, Fitting, TypedParsed
  PROVE  Fitting'
<1>1. pc = "args" /\ op \in Typed
  BY DEF TypedParsed, Looping
<1>2. /\ TypeOK /\ Place /\ Reading /\ AheadSeen /\ command # "none" /\ args \in Seq(SlotValues)
  BY <1>1, Parsed
<1>3. PICK t \in Coming \cap Unquoted :
        IF op \in Parses[t] THEN Take(t) /\ Continue(here + 1, Append(args, Found(op)))
        ELSE IF repeated THEN SkipList(t)
        ELSE IF opt THEN SkipOpt(t)
        ELSE Take(t) /\ Fail(Append(args, Absent(op)), flags, owned)
  BY DEF TypedParsed
<1>4. /\ op \in Parses[t] <=> Fills(pattern[here], t)
      /\ t # "end"
  <2>1. t # "end"
    BY <1>3 DEF Unquoted, Parses
  <2>2. QED
    BY <1>1, <1>2, <1>3, <2>1, HereFills
<1>5. CASE op \in Parses[t]
  <2>1. Take(t) /\ Continue(here + 1, Append(args, Found(op)))
    BY <1>3, <1>5
  <2>2. /\ pattern' = pattern /\ command' = command /\ at' = here + 1 /\ pc' = pc
        /\ args' = Append(args, Found(op))
    BY <2>1 DEF Continue
  <2>3. Note(t)
    BY <2>1 DEF Take
  <2>4. /\ seen' \in Seq(Tokens) /\ Read \in Nat /\ seen'[Read + 1] = t
    BY <1>2, <1>3, <1>4, <2>3, Noted
  <2>5. CountedOf(args, seen', Read)
    BY <1>2, <1>3, <2>3, CountedNoted
  <2>6. PICK x \in SlotValues : x = Found(op)
    BY <1>1, StringTyped
  <2>7. PICK r \in Nat : r = Read
    BY <2>4
  <2>8. x.found /\ Matches(x, seen'[r + 1])
    BY <1>5, <2>4, <2>6, <2>7 DEF Found, Matches
  <2>9. CountedOf(Append(args, x), seen', r + 1)
    BY <1>2, <2>4, <2>5, <2>7, <2>8, CountedFound
  <2>10. CountedOf(args', seen', Read + 1)
    BY <2>2, <2>6, <2>7, <2>9
  <2>11. Reading'
    BY <1>1, <1>2, <1>3, <1>4, <1>5, <2>1, <2>2, <2>10, ReadingTaken
  <2>12. QED
    BY <1>1, <2>2, <2>11, OnFits
<1>6. CASE op \notin Parses[t] /\ repeated
  <2>1. GiveBack(t) /\ Continue(here + 2, args)
    BY <1>3, <1>6 DEF SkipList
  <2>2. /\ pattern' = pattern /\ command' = command /\ at' = here + 2 /\ pc' = pc
        /\ args' = args
    BY <2>1 DEF Continue
  <2>3. Reading'
    BY <1>1, <1>2, <1>3, <1>4, <1>6, <2>1, <2>2, ReadingListOver
  <2>4. QED
    BY <1>1, <2>2, <2>3, OnFits
<1>7. CASE op \notin Parses[t] /\ ~repeated /\ opt
  <2>1. GiveBack(t) /\ Continue(here + 1, Append(args, Absent(op)))
    BY <1>3, <1>7 DEF SkipOpt
  <2>2. /\ pattern' = pattern /\ command' = command /\ at' = here + 1 /\ pc' = pc
        /\ args' = Append(args, Absent(op))
    BY <2>1 DEF Continue
  <2>3. Absent(op) \in SlotValues /\ ~Absent(op).found
    BY <1>1, StringTyped DEF Absent
  <2>4. Reading'
    BY <1>1, <1>2, <1>3, <1>4, <1>7, <2>1, <2>2, <2>3, ReadingSkipped
  <2>5. QED
    BY <1>1, <2>2, <2>4, OnFits
<1>8. CASE op \notin Parses[t] /\ ~repeated /\ ~opt
  <2>1. Take(t) /\ Fail(Append(args, Absent(op)), flags, owned)
    BY <1>3, <1>8
  <2>2. ~Searched
    BY <1>1, <1>2, <1>8, SearchedHere
  <2>3. ~Fits(pattern, seen') /\ ~Begins(pattern, seen')
    BY <1>1, <1>2, <1>3, <1>4, <1>8, <2>1, <2>2, MustRefuses
  <2>4. QED
    BY <1>1, <2>1, <2>3, RefusedFits
<1>9. QED
  BY <1>5, <1>6, <1>7, <1>8

(* A token where a string may come. *)
LEMMA StringFits ==
  ASSUME Inv, Fitting, String
  PROVE  Fitting'
<1>1. pc = "args" /\ op = "string"
  BY DEF String, Looping
<1>2. /\ TypeOK /\ Place /\ Reading /\ AheadSeen /\ command # "none" /\ args \in Seq(SlotValues)
  BY <1>1, Parsed
<1>3. PICK t \in Coming :
        /\ Take(t)
        /\ IF t \notin {"end", "open"}
             THEN /\ at' = here + 1 /\ args' = Append(args, Found("str"))
                  /\ UNCHANGED <<pc, command, pattern>>
             ELSE IF opt THEN Continue(here + 1, Append(args, Absent("str")))
             ELSE Fail(args, flags, owned)
  BY DEF String
<1>4. Fills(pattern[here], t) <=> t # "open" \/ opt
  BY <1>1, <1>2, HereFills
<1>5. Note(t) /\ ahead' = "none" /\ (t \in {"end", "open"} => ended')
  BY <1>3 DEF Take, Note
<1>6. /\ seen' \in Seq(Tokens) /\ Read \in Nat /\ Len(seen') \in Nat
      /\ t # "end" => Len(seen') = Read + 1 /\ seen'[Read + 1] = t
  BY <1>2, <1>5, Noted
<1>7. PICK r \in Nat : r = Read
  BY <1>6
<1>8. CountedOf(args, seen', r)
  BY <1>2, <1>5, <1>7, CountedNoted
<1>9. ~repeated
  BY <1>1, <1>2, Here DEF Typed
<1>10. CASE t \notin {"end", "open"}
  <2>1. /\ pattern' = pattern /\ command' = command /\ at' = here + 1 /\ pc' = pc
        /\ args' = Append(args, Found("str"))
    BY <1>3, <1>10
  <2>2. PICK x \in SlotValues : x = Found("str")
    BY StringTyped
  <2>3. x.found /\ Matches(x, seen'[r + 1])
    BY <2>2 DEF Found, Matches
  <2>4. CountedOf(Append(args, x), seen', r + 1)
    BY <1>2, <1>6, <1>8, <2>3, CountedFound
  <2>5. CountedOf(args', seen', Read + 1)
    BY <1>7, <2>1, <2>2, <2>4
  <2>6. Reading'
    BY <1>1, <1>2, <1>3, <1>4, <1>10, <2>1, <2>5, ReadingTaken
  <2>7. QED
    BY <1>1, <2>1, <2>6, OnFits
<1>11. CASE t \in {"end", "open"} /\ opt
  <2>1. Continue(here + 1, Append(args, Absent("str")))
    BY <1>3, <1>11
  <2>2. /\ pattern' = pattern /\ command' = command /\ at' = here + 1 /\ pc' = pc
        /\ args' = Append(args, Absent("str"))
    BY <2>1 DEF Continue
  <2>3. Reading'
    <3>1. CASE t = "end"
      <4>1. GiveBack(t)
        BY <1>5, <3>1 DEF GiveBack
      <4>2. Absent("str") \in SlotValues /\ ~Absent("str").found
        BY StringTyped DEF Absent
      <4>3. QED
        BY <1>1, <1>2, <1>11, <2>2, <3>1, <4>1, <4>2, ReadingSkipped
    <3>2. CASE t = "open"
      <4>1. "open" \in {seen'[i] : i \in DOMAIN seen'}
        <5>1. r + 1 \in DOMAIN seen' /\ seen'[r + 1] = "open"
          <6>1. Len(seen') = r + 1 /\ seen'[r + 1] = "open" /\ DOMAIN seen' = 1 .. Len(seen')
            BY <1>6, <1>7, <3>2, LenProperties
          <6>2. QED
            BY <6>1
        <5>2. QED
          BY <5>1
      <4>2. CountedOf(args', seen', Read + 1)
        BY <4>1 DEF CountedOf
      <4>3. QED
        BY <1>1, <1>2, <1>3, <1>4, <1>11, <2>2, <3>2, <4>2, ReadingTaken
    <3>3. QED
      BY <1>11, <3>1, <3>2
  <2>4. QED
    BY <1>1, <2>2, <2>3, OnFits
<1>12. CASE t \in {"end", "open"} /\ ~opt
  <2>1. Fail(args, flags, owned)
    BY <1>3, <1>12
  <2>2. ~Searched => ~Fits(pattern, seen')
    BY <1>1, <1>2, <1>3, <1>4, <1>9, <1>12, MustRefuses
  <2>3. QED
    BY <1>1, <1>5, <1>12, <2>1, <2>2, RefusedFits
<1>13. QED
  BY <1>10, <1>11, <1>12

(* The line fits if the loop is at the end of both. *)
LEMMA NoneLeftFits ==
  ASSUME Inv, Fitting, NoneLeft
  PROVE  Fitting'
<1>1. pc = "args" /\ op = "none"
  BY DEF NoneLeft, Looping
<1>2. /\ TypeOK /\ Place /\ Reading /\ AheadSeen /\ command # "none" /\ args \in Seq(SlotValues)
  BY <1>1, Parsed
<1>3. PICK t \in Coming :
        /\ Take(t)
        /\ IF t = "end" THEN Fun(args, flags, owned) ELSE Fail(args, flags, owned)
  BY DEF NoneLeft
<1>4. Note(t)
  BY <1>3 DEF Take
<1>5. CASE t = "end"
  <2>1. Fun(args, flags, owned)
    BY <1>3, <1>5
  <2>2. Len(seen') = Read /\ seen' \in Seq(Tokens)
    BY <1>2, <1>4, <1>5, Noted
  <2>3. Read \in Ends(pattern, seen')[Len(pattern)]
    BY <1>1, <1>2, <1>4, EndsKept, NoneIs
  <2>4. Fits(pattern, seen')
    BY <2>2, <2>3 DEF Fits
  <2>5. CountedOf(args, seen', Len(seen'))
    BY <1>2, <1>4, <2>2, CountedNoted
  <2>6. Lined(args, seen')
    BY <1>2, <2>2, <2>5, LinedAll
  <2>7. QED
    BY <1>1, <2>1, <2>4, <2>6, FunFits
<1>6. CASE t # "end"
  <2>1. Fail(args, flags, owned)
    BY <1>3, <1>6
  <2>2. ~Searched => ~Fits(pattern, seen') /\ ~Begins(pattern, seen')
    BY <1>1, <1>2, <1>3, <1>6, NoneRefuses
  <2>3. QED
    BY <1>1, <2>1, <2>2, RefusedFits
<1>7. QED
  BY <1>5, <1>6

(* An element that is repeated is a typed one. *)
LEMMA ListIsTyped ==
  ASSUME TypeOK, op # "none", repeated
  PROVE  op \in Typed
<1>1. Ordered(pattern) /\ DOMAIN pattern = 1 .. Len(pattern) /\ Len(pattern) \in Nat
  BY PatternGood
<1>2. here \in DOMAIN pattern /\ pattern[here].op = op
  BY DEF op, Elem, None, Arg
<1>3. here + 1 \in DOMAIN pattern /\ pattern[here + 1].op = "period"
  BY DEF repeated, Elem, None, Arg
<1>4. List(pattern, here)
  BY <1>3 DEF List
<1>5. QED
  BY <1>1, <1>2, <1>4 DEF Ordered

(* Behind a list that can take no more nothing has to come. *)
LEMMA EndOfListFits ==
  ASSUME Inv, Fitting, EndOfList
  PROVE  Fitting'
<1>1. pc = "args" /\ op # "none" /\ repeated
  BY DEF EndOfList, Looping
<1>2. /\ TypeOK /\ Place /\ Reading /\ AheadSeen /\ command # "none" /\ args \in Seq(SlotValues)
  BY <1>1, Parsed
<1>3. PICK t \in Coming : t = "end" /\ Take(t) /\ Fun(args, flags, owned)
  BY DEF EndOfList
<1>4. Note(t)
  BY <1>3 DEF Take
<1>5. op \in Typed \cup {"string"}
  BY <1>1, <1>2, ListIsTyped
<1>6. PICK p \in Seq(Element) : p = pattern
  BY <1>2, PatternGood
<1>7. PICK ts \in Seq(Tokens) : ts = seen'
  BY <1>2, <1>4, Noted
<1>8. Len(ts) = Read /\ Read \in Nat
  BY <1>2, <1>3, <1>4, <1>7, Noted
<1>9. here + 1 \in 1 .. Len(p) /\ Read \in Ends(p, ts)[here + 1]
  BY <1>1, <1>2, <1>4, <1>5, <1>6, <1>7, SkippedEnds
<1>10. here \in 1 .. Len(p) /\ List(p, here) /\ Len(p) \in Nat /\ here \in Nat
  BY <1>1, <1>2, <1>5, <1>6, HereIs
<1>11. ListIsLast(p, here)
  BY <1>2, <1>6, <1>10, Lasts
<1>12. Fits(p, ts)
  <2>1. CASE here + 1 = Len(p)
    BY <1>8, <1>9, <2>1 DEF Fits
  <2>2. CASE Len(p) = 3 /\ here = 1 /\ p[3].op = "string_end"
    <3>1. PICK i \in 1 .. Len(p) : i = 3
      BY <2>2
    <3>2. PICK n : n = Read
      OBVIOUS
    <3>3. i - 1 = here + 1
      BY <2>2, <3>1
    <3>4. n \in Ends(p, ts)[i - 1] /\ n = Len(ts) /\ p[i].op = "string_end"
      BY <1>8, <1>9, <2>2, <3>1, <3>2, <3>3
    <3>5. Len(ts) \in Ends(p, ts)[i]
      BY <3>4, RestToken
    <3>6. QED
      BY <2>2, <3>1, <3>5 DEF Fits
  <2>3. QED
    BY <1>11, <2>1, <2>2 DEF ListIsLast
<1>13. CountedOf(args, seen', Len(seen'))
  BY <1>2, <1>4, <1>7, <1>8, CountedNoted
<1>14. Lined(args, seen')
  BY <1>2, <1>7, <1>13, LinedAll
<1>15. QED
  BY <1>1, <1>3, <1>6, <1>7, <1>12, <1>14, FunFits

(* The rest of the line is one text; only a quoted one must be all of it. *)
LEMMA StringEndFits ==
  ASSUME Inv, Fitting, StringEnd
  PROVE  Fitting'
<1>1. pc = "args" /\ op = "string_end"
  BY DEF StringEnd, Looping
<1>2. /\ TypeOK /\ Place /\ Reading /\ AheadSeen /\ command # "none" /\ args \in Seq(SlotValues)
  BY <1>1, Parsed
<1>3. PICK t \in Coming :
       \/ /\ t # "open"
          /\ Take(t)
          /\ Fun(Append(args, Found("str")), Strdup, owned \cup {Len(args)})
       \/ /\ t = "open"
          /\ Take(t) /\ Fail(args, flags, owned)
       \/ /\ t = "quoted" /\ Len(seen) < MaxTokens
          /\ ahead' = "none" /\ ended' = TRUE
          /\ seen' = (IF New(t) THEN Append(seen, t) ELSE seen) \o <<"word">>
          /\ Fail(args, flags, owned)
  BY DEF StringEnd
<1>4. t \in Tokens \cup {"end"}
  BY <1>2, ComingTyped
<1>5. /\ at = Len(pattern) /\ at \in 1 .. Len(pattern) /\ pattern[at].op = "string_end"
  BY <1>1, <1>2, TextIs
<1>6. pattern \in Seq(Element)
  BY <1>2, PatternGood
<1>7. CASE /\ t # "open" /\ Take(t)
           /\ Fun(Append(args, Found("str")), Strdup, owned \cup {Len(args)})
  <2>1. Note(t)
    BY <1>7 DEF Take
  <2>2. PICK ts \in Seq(Tokens) : ts = seen'
    BY <1>2, <2>1, Noted
  <2>3. PICK r \in Nat : r = Read
    BY <1>2, ReadIs
  <2>4. /\ t = "end" => Len(ts) = r
        /\ t # "end" => Len(ts) = r + 1 /\ ts[r + 1] = t
    BY <1>2, <2>1, <2>2, <2>3, Noted
  <2>5. r \in Ends(pattern, ts)[at - 1]
    BY <1>2, <2>1, <2>2, <2>3, EndsKept
  <2>6. r = Len(ts) \/ (r + 1 = Len(ts) /\ ts[r + 1] \in Unquoted \cup {"quoted"})
    <3>1. t # "end" => t \in Unquoted \cup {"quoted"}
      BY <1>4, <1>7 DEF Tokens
    <3>2. QED
      BY <2>4, <3>1
  <2>7. Len(ts) \in Ends(pattern, ts)[at]
    BY <1>5, <1>6, <2>5, <2>6, RestToken
  <2>8. Fits(pattern, seen')
    BY <1>5, <2>2, <2>7 DEF Fits
  <2>9. CountedOf(args, ts, r)
    BY <1>2, <2>1, <2>2, <2>3, CountedNoted
  <2>10. PICK x \in SlotValues : x = Found("str")
    BY StringTyped
  <2>11. Lined(Append(args, x), ts)
    <3>1. CASE t = "end"
      <4>1. CountedOf(args, ts, Len(ts))
        BY <2>4, <2>9, <3>1
      <4>2. QED
        BY <1>2, <2>10, <4>1, LinedText
    <3>2. CASE t # "end"
      <4>1. x.found /\ Matches(x, ts[r + 1])
        BY <2>10 DEF Found, Matches
      <4>2. CountedOf(Append(args, x), ts, r + 1)
        BY <1>2, <2>9, <4>1, CountedFound
      <4>3. Append(args, x) \in Seq(SlotValues)
        BY <1>2, Appended
      <4>4. CountedOf(Append(args, x), ts, Len(ts))
        BY <2>4, <3>2, <4>2
      <4>5. QED
        BY <4>3, <4>4, LinedAll
    <3>3. QED
      BY <3>1, <3>2
  <2>12. QED
    BY <1>1, <1>7, <2>2, <2>8, <2>10, <2>11, FunFits
<1>8. CASE t = "open" /\ Take(t) /\ Fail(args, flags, owned)
  <2>1. Note(t) /\ ended'
    BY <1>8 DEF Take, Note
  <2>2. PICK ts \in Seq(Tokens) : ts = seen'
    BY <1>2, <2>1, Noted
  <2>3. Read \in Nat /\ Len(ts) = Read + 1 /\ ts[Read + 1] = "open"
    BY <1>2, <1>8, <2>1, <2>2, Noted
  <2>4. "open" \notin Unquoted
    BY DEF Unquoted, Parses
  <2>5. ~Searched => ~Fits(pattern, ts)
    BY <1>1, <1>2, <2>3, <2>4, TextRefuses
  <2>6. QED
    BY <1>1, <1>8, <2>1, <2>2, <2>5, RefusedFits
<1>9. CASE /\ t = "quoted" /\ ended' = TRUE
           /\ seen' = (IF New(t) THEN Append(seen, t) ELSE seen) \o <<"word">>
           /\ Fail(args, flags, owned)
  <2>1. PICK w \in Tokens : w = "word"
    BY WordIsToken
  <2>2. PICK us \in Seq(Tokens) : us = IF New(t) THEN Append(seen, t) ELSE seen
    <3>1. seen \in Seq(Tokens) /\ Append(seen, t) \in Seq(Tokens)
      BY <1>2, <1>9, WordIsToken, AppendProperties DEF TypeOK
    <3>2. QED
      BY <3>1
  <2>3. PICK ts : ts = us \o <<w>>
    OBVIOUS
  <2>4. seen' = ts
    BY <1>9, <2>1, <2>2, <2>3
  <2>5. PICK r \in Nat : r = Read
    BY <1>2, ReadIs
  <2>6. Len(us) = r + 1 /\ us[r + 1] = "quoted"
    <3>1. CASE New(t)
      <4>1. ahead = "none" /\ seen \in Seq(Tokens) /\ t \in Tokens
        BY <1>2, <1>9, <3>1, WordIsToken DEF New, TypeOK
      <4>2. r = Len(seen)
        BY <2>5, <4>1 DEF Read
      <4>3. us = Append(seen, t)
        BY <2>2, <3>1
      <4>4. Len(us) = r + 1
        BY <4>1, <4>2, <4>3, Appended
      <4>5. us[r + 1] = t
        BY <4>1, <4>2, <4>3, Appended
      <4>6. QED
        BY <1>9, <4>4, <4>5
    <3>2. CASE ~New(t)
      <4>1. us = seen
        BY <2>2, <3>2
      <4>2. ahead = t
        <5>1. "quoted" # "end"
          OBVIOUS
        <5>2. QED
          BY <1>9, <3>2, <5>1 DEF New, Coming
      <4>3. ahead # "none"
        BY <1>9, <4>2
      <4>4. r = Len(seen) - 1 /\ seen[Len(seen)] = ahead /\ Len(seen) \in Nat
        BY <1>2, <2>5, <4>3, ReadIs DEF Read, AheadSeen
      <4>5. QED
        BY <1>9, <4>1, <4>2, <4>4
    <3>3. QED
      BY <3>1, <3>2
  <2>7. /\ ts \in Seq(Tokens) /\ Len(ts) = Len(us) + 1
        /\ \A j \in 1 .. Len(us) : ts[j] = us[j]
    <3>1. <<w>> \in Seq(Tokens) /\ Len(<<w>>) = 1
      BY Tuples
    <3>2. QED
      BY <2>3, <3>1, ConcatProperties
  <2>8. r < Len(ts) /\ ts[r + 1] = "quoted" /\ Len(ts) # r + 1
    BY <2>6, <2>7
  <2>9. "quoted" \notin Unquoted
    BY DEF Unquoted, Parses
  <2>10. ~Searched => ~Fits(pattern, ts)
    BY <1>1, <1>2, <2>5, <2>7, <2>8, <2>9, TextRefuses
  <2>11. QED
    BY <1>1, <1>9, <2>4, <2>10, RefusedFits
<1>10. QED
  BY <1>3, <1>7, <1>8, <1>9

(* Every action of the loop keeps it. *)
LEMMA ParseFits ==
  ASSUME Inv, Fitting, Parse
  PROVE  Fitting'
<1>1. CASE TooManyArgs
  <2>1. pc' = "dead"
    BY <1>1 DEF TooManyArgs, Assertion
  <2>2. QED
    BY <2>1 DEF Fitting, LineFits, ArgsAreTheLine, RefusedOnceOrCalled, Called, Over
<1>2. QED
  BY <1>1, NoneLeftFits, StringEndFits, EndOfListFits, TypedAbsentFits, TypedParsedFits,
     StringFits DEF Parse

(* At the beginning of a line no token was read and no argument stored. *)
LEMMA BeginFits ==
  ASSUME Inv, Fitting, Line
  PROVE  Fitting'
<1>1. /\ TypeOK /\ pc = "idle" /\ args = <<>> /\ at = 1
      /\ seen = <<>> /\ ahead = "none" /\ ended = FALSE
  BY DEF Line, Inv, Fitting
<1>2. CASE in_readline
  <2>1. pc' = "dead"
    BY <1>2 DEF Line, Assertion
  <2>2. QED
    BY <2>1 DEF Fitting, LineFits, ArgsAreTheLine, RefusedOnceOrCalled, Called, Over
<1>3. CASE ~in_readline
  <2>1. /\ pc' = "args" /\ command' \in DOMAIN commands
        /\ pattern' = commands[command'].args
        /\ UNCHANGED <<at, args, ahead, ended, seen>>
    BY <1>3 DEF Line
  <2>2. PICK q : q = pattern'
    OBVIOUS
  <2>3. q \in Seq(Element) /\ Len(q) \in Nat
    BY <2>1, <2>2, Table, LenProperties DEF Good, RowTyped
  <2>4. PICK ts \in Seq(Tokens) : ts = seen
    BY <1>1 DEF TypeOK
  <2>5. seen' = ts /\ Len(ts) = 0 /\ DOMAIN ts = {}
    BY <1>1, <2>1, <2>4
  <2>6. Read' = 0 /\ AheadSeen'
    BY <1>1, <2>1, <2>5 DEF Read, AheadSeen
  <2>7. 0 \in Ends(q, ts)[0]
    BY <2>3, EndsRecursion
  <2>8. CountedOf(args', seen', 0)
    <3>1. PICK as \in Seq(SlotValues) : as = args
      BY <1>1 DEF TypeOK
    <3>2. args' = as /\ Len(as) = 0
      BY <1>1, <2>1, <3>1
    <3>3. \A j : j \notin 1 .. Len(as)
      BY <3>2
    <3>4. {j \in 1 .. Len(as) : as[j].found} = {}
      BY <3>3
    <3>5. GivenOf(as, Len(as)) = 0
      BY <3>4, FS_EmptySet DEF GivenOf
    <3>6. QED
      BY <3>2, <3>3, <3>5 DEF CountedOf
  <2>9. ASSUME command' \notin {"broadcast", "search"}
        PROVE  \E pre \in 0 .. Len(q) : Shape(q, pre) /\ ForcedAt(q, pre, 1, 0, ahead', ended')
    <3>1. Shaped(q)
      BY <2>1, <2>2, <2>9, TableShaped
    <3>2. PICK pre \in 0 .. Len(q) : Shape(q, pre)
      BY <3>1 DEF Shaped
    <3>3. 1 <= pre + 1 /\ 0 = 1 - 1
      BY <2>3
    <3>4. ForcedAt(q, pre, 1, 0, ahead', ended')
      BY <3>3 DEF ForcedAt
    <3>5. QED
      BY <3>2, <3>4
  <2>10. at' = 1 /\ at' - 1 = 0 /\ 1 \in 1 .. Len(q) + 1
    BY <1>1, <2>1, <2>3
  <2>11. Reading'
    BY <2>2, <2>5, <2>6, <2>7, <2>8, <2>9, <2>10 DEF Reading, Searched
  <2>12. QED
    BY <2>1, <2>11, OnFits
<1>4. QED
  BY <1>2, <1>3

(* A line without a command, and the return to the loop of the process. *)
LEMMA OtherLineFits ==
  ASSUME Inv, Fitting, LineWithoutCommand \/ Return
  PROVE  Fitting'
<1>1. CASE LineWithoutCommand
  <2>1. pc' = "done" /\ command' = "none"
    BY <1>1 DEF LineWithoutCommand, Inv
  <2>2. QED
    BY <2>1 DEF Fitting, LineFits, ArgsAreTheLine, RefusedOnceOrCalled, Called, Over
<1>2. CASE Return
  <2>1. pc' = "idle" /\ seen' = <<>> /\ ahead' = "none" /\ ended' = FALSE
    BY <1>2 DEF Return, Forget
  <2>2. QED
    BY <2>1 DEF Fitting, LineFits, ArgsAreTheLine, RefusedOnceOrCalled, Called, Over
<1>3. QED
  BY <1>1, <1>2

(* A step that changes nothing. *)
LEMMA StutterFits ==
  ASSUME Fitting, UNCHANGED vars
  PROVE  Fitting'
<1>1. /\ pc' = pc /\ command' = command /\ pattern' = pattern /\ count' = count /\ at' = at
      /\ args' = args /\ ahead' = ahead /\ ended' = ended /\ seen' = seen
      /\ calls' = calls /\ fails' = fails
  BY DEF vars
<1>2. op' = op /\ (Read' = Read) /\ (AheadSeen' <=> AheadSeen) /\ (Searched' <=> Searched)
  BY <1>1 DEF op, here, Elem, Read, AheadSeen, Searched
<1>3. Reading => Reading'
  BY <1>1, <1>2 DEF Reading
<1>4. LineFits'
  BY <1>1 DEF Fitting, LineFits, Called, Over
<1>5. ArgsAreTheLine'
  <2>1. \A i : Given(i)' = Given(i)
    BY <1>1 DEF Given
  <2>2. Called' <=> Called
    BY <1>1 DEF Called, Over
  <2>3. ArgsAreTheLine
    BY DEF Fitting
  <2>4. QED
    BY <1>1, <2>1, <2>2, <2>3 DEF ArgsAreTheLine
<1>6. RefusedOnceOrCalled'
  BY <1>1, <1>2 DEF Fitting, RefusedOnceOrCalled, Over
<1>7. QED
  BY <1>1, <1>3, <1>4, <1>5, <1>6 DEF Fitting

-----------------------------------------------------------------------------
(* Between two elements the tokens that were taken can be cut among the    *)
(* elements that are behind the pointer, and each of them is an argument;  *)
(* the loop is where any cut of the line has to be, but in broadcast and   *)
(* search.  This is kept by every action of the parser.                    *)
THEOREM FittingCorrect == Spec => []Fitting
<1>1. Init => Fitting
  BY DEF Init, Fitting, LineFits, ArgsAreTheLine, RefusedOnceOrCalled, Called, Over
<1>2. Inv /\ Fitting /\ [Next]_vars => Fitting'
  <2> SUFFICES ASSUME Inv, Fitting, [Next]_vars PROVE Fitting'
    OBVIOUS
  <2>1. QED
    BY ParseFits, BeginFits, OtherLineFits, StutterFits DEF Next
<1>3. QED
  BY <1>1, <1>2, InvCorrect, PTL DEF Spec

(* A handler is called only for a line that its pattern stands for, and,   *)
(* but for broadcast and search, every such line reaches its handler.      *)
THEOREM LineFitsCorrect == Spec => []LineFits
<1>1. Fitting => LineFits
  BY DEF Fitting
<1>2. QED
  BY <1>1, FittingCorrect, PTL

(* The arguments are the tokens of the line, in order: none is dropped and *)
(* none is used twice.                                                     *)
THEOREM ArgsCorrect == Spec => []ArgsAreTheLine
<1>1. Fitting => ArgsAreTheLine
  BY DEF Fitting
<1>2. QED
  BY <1>1, FittingCorrect, PTL

(* A line is refused once or its handler is called count times; only a     *)
(* line that fits nothing may be dropped in silence.                       *)
THEOREM RefusedCorrect == Spec => []RefusedOnceOrCalled
<1>1. Fitting => RefusedOnceOrCalled
  BY DEF Fitting
<1>2. QED
  BY <1>1, FittingCorrect, PTL
=============================================================================
