----------------------------- MODULE GrabProofs -----------------------------
(***************************************************************************)
(* Theorems of Grab for all peers and numbers, every order of messages,    *)
(* and every number of starts, messages and names.                         *)
(***************************************************************************)
EXTENDS Grab, SequenceTheorems, FiniteSetTheorems, WellFoundedInduction, TLAPS

(* Where dump_message_html is.  The page of a chat is made before the chat *)
(* is listed, and an update is the message behind those that are counted.  *)
Phases ==
  /\ counts => message = pts + 1
  /\ pc \in {"page", "frame"} => ChatOf[message] \notin DOMAIN pages
  /\ pc \in {"list", "rewrite", "append"} => ChatOf[message] \in DOMAIN pages
  /\ IF pc = "down" THEN loading = {} /\ fetched = {} ELSE starts > 0
  /\ pc \notin {"down", "idle"} => rands + 2 <= MaxRand

(* What is counted was dumped, in the process and on the disk. *)
SavedTo(n) == \A m \in (1 .. n) \ NotDumped : m \in skipped \/ m \in Dumped(ChatOf[m])

Saved == SavedTo(state) /\ SavedTo(pts)

(* The names that were taken in this run: those of media are made of       *)
(* results of rand, and none is made of the next ones.                     *)
Taken(t) == t \in Target /\ (t[1] # Avatars => t[2] < rands)

Home ==
  /\ \A d \in loading : Taken(d.target)
  /\ \A t \in fetched : Taken(t)
  /\ \A q \in DOMAIN pages : \A i \in DOMAIN pages[q] :
       LET e == pages[q][i]
       IN  /\ e.run <= starts
           /\ pc # "down" /\ e.run = starts /\ e.link # <<>> =>
                /\ Taken(e.link) /\ e.link[1] # Avatars
                /\ \A d \in loading : d.target = e.link => d.what = e.msg
                /\ e.link \in fetched => files[e.link] = e.msg

(* The first link is the one of the chat p, or has its number. *)
Tops(l, p) ==
  /\ Len(l) > 1 /\ NumberIn(l[2]) = Number[p]
  /\ Shared(p) \/ l[2] = Chat(p)

(* A list that is whole: as many links as the first line says, no two with *)
(* the same number, and one for each chat that was dumped to.              *)
Complete(l) ==
  /\ l # <<>> /\ l[1] = Total(Len(l) - 1)
  /\ \A i \in 2 .. Len(l) : l[i][1] = "peerid"
  /\ \A i, j \in 2 .. Len(l) : NumberIn(l[i]) = NumberIn(l[j]) => i = j
  /\ \A q \in Peer : Dumped(q) # {} =>
       \E i \in 2 .. Len(l) : NumberIn(l[i]) = Number[q]

(* The list that is there, or will be when the rewriting is done. *)
Current == IF pc = "rewrite" THEN lines ELSE list

(* Where no write of the list was cut off. *)
Uncut ==
  /\ pc # "lost"
  /\ "index" \in exists <=> "list" \in exists \/ pc = "frame"
  /\ pc = "frame" => "list" \notin exists
  /\ "list" \notin exists => DOMAIN pages = {} /\ list = <<>>
  /\ "list" \in exists => Complete(Current)
  /\ pc \in {"rewrite", "append"} => Tops(Current, ChatOf[message])

(* A list that was cut off is never whole again. *)
CutOff ==
  /\ "index" \in exists /\ pc # "frame"
  /\ list \in {<<>>, Damaged}
  /\ pc = "rewrite" => lines = Damaged

Lists == IF cut THEN CutOff ELSE Uncut

Inv == TypeOK /\ Phases /\ Saved /\ Home /\ Lists

-----------------------------------------------------------------------------
(* Lists and links. *)
LEMMA LeastOf ==
  ASSUME NEW T, T \subseteq Nat, T # {}
  PROVE  \E i \in T : \A j \in T : i <= j
<1>1. PICK i \in T : \A j \in T : ~(<<j, i>> \in OpToRel(<, Nat))
  BY NatLessThanWellFounded, WFMin, Zenon
<1>2. \A j \in T : ~(j < i)
  BY <1>1 DEF OpToRel
<1>3. \A j \in T : i <= j
  BY <1>2
<1>4. QED
  BY <1>3

LEMMA LinesApart ==
  /\ \A q \in Peer : Chat(q) \in Line /\ Chat(q)[1] = "peerid" /\ NumberIn(Chat(q)) = Number[q]
  /\ \A n \in Nat : Total(n) \in Line /\ Total(n)[1] = "total" /\ Total(n)[2] = n
  /\ \A x \in Line : x[1] = "peerid" => x[2] \in Peer /\ x = Chat(x[2])
<1>1. /\ \A q \in Peer : Chat(q) \in Line /\ Chat(q)[1] = "peerid"
                          /\ NumberIn(Chat(q)) = Number[q]
      /\ \A n \in Nat : Total(n) \in Line /\ Total(n)[1] = "total" /\ Total(n)[2] = n
  BY DEF Line, Chat, Total, NumberIn
<1>2. \A x \in Line : x[1] = "peerid" => x[2] \in Peer /\ x = Chat(x[2])
  BY DEF Line, Chat, Damaged
<1>3. QED
  BY <1>1, <1>2

LEMMA DamagedApart ==
  /\ Damaged \in Seq(Line) /\ Len(Damaged) = 1 /\ Damaged # <<>>
  /\ \A n \in Nat : Total(n) # Damaged[1]
<1>1. Damaged[1] \in Line /\ Damaged[1][1] = "damaged"
  BY DEF Line, Damaged
<1>2. Damaged \in Seq(Line) /\ Len(Damaged) = 1 /\ Damaged # <<>>
  BY <1>1 DEF Damaged
<1>3. QED
  BY <1>1, <1>2, LinesApart

(* A list that is whole is read as it was written. *)
LEMMA LinksRead ==
  ASSUME list \in Seq(Line), Complete(list)
  PROVE  /\ Links \in Seq(Line) /\ Len(Links) = Len(list) - 1 /\ Len(list) \in Nat
         /\ list # Damaged
         /\ \A i \in 1 .. Len(Links) : /\ i + 1 \in 2 .. Len(list)
                                       /\ Links[i] = list[i + 1]
<1>1. /\ Len(list) \in Nat /\ list # <<>> /\ Len(list) > 0
      /\ \A i \in 1 .. Len(list) : list[i] \in Line
  BY LenProperties DEF Complete
<1>2. list[1][2] = Len(list) - 1 /\ list # Damaged
  BY <1>1, LinesApart, DamagedApart DEF Complete
<1> DEFINE n == Len(list) - 1
<1>3. Links = [i \in 1 .. n |-> list[i + 1]]
  BY <1>2 DEF Links
<1>4. n \in Nat /\ \A i \in 1 .. n : i + 1 \in 2 .. Len(list) /\ list[i + 1] \in Line
  BY <1>1
<1> HIDE DEF n
<1>5. Links \in Seq(Line) /\ Len(Links) = n /\ \A i \in 1 .. n : Links[i] = list[i + 1]
  BY <1>3, <1>4
<1>6. QED
  BY <1>1, <1>2, <1>4, <1>5 DEF n

(* OnTop by its elements: the link that was found first changes places     *)
(* with the first one, or the first one goes to the end.                   *)
LEMMA OnTopSwaps ==
  ASSUME NEW links \in Seq(Line), NEW q \in Peer, Places(links, q) # {}
  PROVE  /\ OnTop(links, q) \in Seq(Line) /\ Len(OnTop(links, q)) = Len(links)
         /\ Len(links) > 0
         /\ \E i \in 1 .. Len(links) :
              /\ NumberIn(links[i]) = Number[q]
              /\ \A k \in 1 .. Len(links) : OnTop(links, q)[k] =
                   IF k = 1 THEN links[i] ELSE IF k = i THEN links[1] ELSE links[k]
<1> DEFINE P == Places(links, q)
           i == CHOOSE a \in P : \A b \in P : a <= b
<1>1. Len(links) \in Nat /\ DOMAIN links = 1 .. Len(links)
      /\ \A k \in 1 .. Len(links) : links[k] \in Line
  BY LenProperties
<1>2. \E a \in P : \A b \in P : a <= b
  <2>1. P \subseteq Nat
    BY <1>1 DEF Places
  <2>2. QED
    BY <2>1, LeastOf
<1>3. i \in P
  BY <1>2
<1>4. i \in 1 .. Len(links) /\ NumberIn(links[i]) = Number[q]
  BY <1>1, <1>3 DEF Places
<1>5. OnTop(links, q) = [links EXCEPT ![1] = links[i], ![i] = links[1]]
  BY DEF OnTop
<1> HIDE DEF i, P
<1>6. 1 \in 1 .. Len(links) /\ Len(links) > 0
  BY <1>1, <1>4
<1> DEFINE Swapped(k) == IF k = 1 THEN links[i] ELSE IF k = i THEN links[1] ELSE links[k]
<1>7. OnTop(links, q) = [k \in 1 .. Len(links) |-> Swapped(k)]
  BY <1>1, <1>4, <1>5, <1>6
<1>8. \A k \in 1 .. Len(links) : Swapped(k) \in Line
  BY <1>1, <1>4, <1>6
<1> HIDE DEF Swapped
<1>9. /\ OnTop(links, q) \in Seq(Line) /\ Len(OnTop(links, q)) = Len(links)
      /\ \A k \in 1 .. Len(links) : OnTop(links, q)[k] = Swapped(k)
  BY <1>1, <1>7, <1>8
<1>10. QED
  BY <1>4, <1>6, <1>9 DEF Swapped

LEMMA OnTopAdds ==
  ASSUME NEW links \in Seq(Line), NEW q \in Peer, Places(links, q) = {}
  PROVE  /\ OnTop(links, q) \in Seq(Line) /\ Len(OnTop(links, q)) = Len(links) + 1
         /\ \A k \in 1 .. Len(links) : NumberIn(links[k]) # Number[q]
         /\ \A k \in 1 .. Len(links) + 1 : OnTop(links, q)[k] =
              IF k = 1 THEN Chat(q) ELSE IF k = Len(links) + 1 THEN links[1] ELSE links[k]
<1>1. Len(links) \in Nat /\ DOMAIN links = 1 .. Len(links)
      /\ \A k \in 1 .. Len(links) : links[k] \in Line
  BY LenProperties
<1>2. \A k \in 1 .. Len(links) : NumberIn(links[k]) # Number[q]
  BY <1>1 DEF Places
<1>3. Chat(q) \in Line
  BY LinesApart
<1>4. CASE links = <<>>
  <2>1. OnTop(links, q) = <<Chat(q)>> /\ Len(links) = 0
    BY <1>4 DEF OnTop
  <2>2. QED
    BY <1>2, <1>3, <2>1
<1>5. CASE links # <<>>
  <2> DEFINE first == [links EXCEPT ![1] = Chat(q)]
  <2>1. 1 \in 1 .. Len(links) /\ links[1] \in Line
    BY <1>1, <1>5
  <2>2. /\ first \in Seq(Line) /\ Len(first) = Len(links)
        /\ \A k \in 1 .. Len(links) : first[k] = IF k = 1 THEN Chat(q) ELSE links[k]
    BY <1>1, <1>3, <2>1, ExceptSeq
  <2>3. OnTop(links, q) = Append(first, links[1])
    BY <1>5 DEF OnTop
  <2> HIDE DEF first
  <2>4. /\ OnTop(links, q) \in Seq(Line) /\ Len(OnTop(links, q)) = Len(links) + 1
        /\ \A k \in 1 .. Len(links) : OnTop(links, q)[k] = first[k]
        /\ OnTop(links, q)[Len(links) + 1] = links[1]
    BY <2>1, <2>2, <2>3, AppendProperties
  <2>5. QED
    BY <1>1, <1>2, <2>1, <2>2, <2>4
<1>6. QED
  BY <1>4, <1>5

(* The lines that add_to_list writes, for the links top. *)
LEMMA LinesOf ==
  ASSUME NEW top \in Seq(Line), NEW l, l = <<Total(Len(top))>> \o top
  PROVE  /\ l \in Seq(Line) /\ Len(l) = Len(top) + 1 /\ l # <<>>
         /\ l[1] = Total(Len(top))
         /\ \A k \in 1 .. Len(top) : l[k + 1] = top[k]
<1>1. Len(top) \in Nat
  BY LenProperties
<1>2. Total(Len(top)) \in Line /\ Total(Len(top))[1] = "total"
  BY <1>1, LinesApart
<1> DEFINE head == <<Total(Len(top))>>
<1>3. head \in Seq(Line) /\ Len(head) = 1 /\ head[1] = Total(Len(top))
  BY <1>2
<1>4. l = head \o top
  OBVIOUS
<1> HIDE DEF head
<1>5. /\ l \in Seq(Line) /\ Len(l) = 1 + Len(top)
      /\ \A i \in 1 .. 1 + Len(top) : l[i] = IF i <= 1 THEN head[i] ELSE top[i - 1]
  <2>1. /\ head \o top \in Seq(Line) /\ Len(head \o top) = Len(head) + Len(top)
        /\ \A i \in 1 .. Len(head) + Len(top) :
             (head \o top)[i] = IF i <= Len(head) THEN head[i] ELSE top[i - Len(head)]
    BY <1>3, ConcatProperties
  <2>2. QED
    BY <1>3, <1>4, <2>1
<1>6. l[1] = Total(Len(top))
  BY <1>1, <1>3, <1>5
<1>7. \A k \in 1 .. Len(top) : l[k + 1] = top[k]
  <2> SUFFICES ASSUME NEW k \in 1 .. Len(top) PROVE l[k + 1] = top[k]
    OBVIOUS
  <2>1. k + 1 \in 1 .. 1 + Len(top) /\ ~(k + 1 <= 1) /\ (k + 1) - 1 = k
    BY <1>1
  <2>2. QED
    BY <1>5, <2>1
<1>8. l # <<>>
  BY <1>1, <1>5
<1>9. QED
  BY <1>1, <1>5, <1>6, <1>7, <1>8

LEMMA AddTops ==
  ASSUME list \in Seq(Line), Complete(list),
         NEW q \in Peer, NEW l, l = <<Total(Len(OnTop(Links, q)))>> \o OnTop(Links, q)
  PROVE  l \in Seq(Line) /\ Tops(l, q)
<1>1. Links \in Seq(Line) /\ Len(Links) \in Nat
  BY LinksRead, LenProperties
<1>2. CASE Places(Links, q) = {}
  <2>1. /\ OnTop(Links, q) \in Seq(Line) /\ Len(OnTop(Links, q)) = Len(Links) + 1
        /\ \A k \in 1 .. Len(Links) + 1 : OnTop(Links, q)[k] =
             IF k = 1 THEN Chat(q) ELSE IF k = Len(Links) + 1 THEN Links[1] ELSE Links[k]
    BY <1>1, <1>2, OnTopAdds
  <2>2. 1 \in 1 .. Len(OnTop(Links, q)) /\ OnTop(Links, q)[1] = Chat(q)
    BY <1>1, <2>1
  <2>3. /\ l \in Seq(Line) /\ Len(l) = Len(OnTop(Links, q)) + 1
        /\ \A k \in 1 .. Len(OnTop(Links, q)) : l[k + 1] = OnTop(Links, q)[k]
    BY <2>1, LinesOf
  <2>4. Len(l) > 1 /\ l[2] = Chat(q)
    BY <1>1, <2>1, <2>2, <2>3
  <2>5. QED
    BY <2>3, <2>4, LinesApart DEF Tops
<1>3. CASE Places(Links, q) # {}
  <2>1. /\ OnTop(Links, q) \in Seq(Line) /\ Len(OnTop(Links, q)) = Len(Links)
        /\ Len(Links) > 0
    BY <1>1, <1>3, OnTopSwaps
  <2>2. PICK i \in 1 .. Len(Links) :
          /\ NumberIn(Links[i]) = Number[q]
          /\ \A k \in 1 .. Len(Links) : OnTop(Links, q)[k] =
               IF k = 1 THEN Links[i] ELSE IF k = i THEN Links[1] ELSE Links[k]
    BY <1>1, <1>3, OnTopSwaps
  <2>3. 1 \in 1 .. Len(OnTop(Links, q)) /\ OnTop(Links, q)[1] = Links[i]
    BY <1>1, <2>1, <2>2
  <2>4. /\ l \in Seq(Line) /\ Len(l) = Len(OnTop(Links, q)) + 1
        /\ \A k \in 1 .. Len(OnTop(Links, q)) : l[k + 1] = OnTop(Links, q)[k]
    BY <2>1, LinesOf
  <2>5. Len(l) > 1 /\ l[2] = Links[i]
    BY <1>1, <2>1, <2>3, <2>4
  <2>6. Links[i] \in Line /\ Links[i][1] = "peerid"
    <3>1. i + 1 \in 2 .. Len(list) /\ Links[i] = list[i + 1]
      BY <2>2, LinksRead
    <3>2. Links[i] \in Line
      BY <1>1, <2>2, LenProperties
    <3>3. QED
      BY <3>1, <3>2 DEF Complete
  <2>7. PICK r \in Peer : Links[i] = Chat(r)
    BY <2>6, LinesApart
  <2>8. Number[r] = Number[q]
    BY <2>2, <2>7, LinesApart
  <2>9. Shared(q) \/ l[2] = Chat(q)
    BY <2>5, <2>7, <2>8 DEF Shared
  <2>10. QED
    BY <2>2, <2>4, <2>5, <2>9 DEF Tops
<1>4. QED
  BY <1>2, <1>3

(* The links of a complete list stay complete. *)
LEMMA AddComplete ==
  ASSUME list \in Seq(Line), Complete(list),
         NEW q \in Peer, NEW l, l = <<Total(Len(OnTop(Links, q)))>> \o OnTop(Links, q)
  PROVE  Complete(l)
<1> DEFINE top == OnTop(Links, q)
<1>1. Links \in Seq(Line) /\ Len(Links) \in Nat
  BY LinksRead, LenProperties
<1>2. /\ Len(Links) = Len(list) - 1 /\ Len(list) \in Nat
      /\ \A i \in 1 .. Len(Links) : /\ i + 1 \in 2 .. Len(list)
                                    /\ Links[i] = list[i + 1]
  BY LinksRead
<1>3. /\ \A i \in 1 .. Len(Links) : Links[i][1] = "peerid"
      /\ \A i, j \in 1 .. Len(Links) : NumberIn(Links[i]) = NumberIn(Links[j]) => i = j
  <2>1. \A i \in 1 .. Len(Links) : Links[i][1] = "peerid"
    BY <1>2 DEF Complete
  <2>2. ASSUME NEW i \in 1 .. Len(Links), NEW j \in 1 .. Len(Links),
               NumberIn(Links[i]) = NumberIn(Links[j])
        PROVE  i = j
    <3>1. /\ i + 1 \in 2 .. Len(list) /\ j + 1 \in 2 .. Len(list)
          /\ NumberIn(list[i + 1]) = NumberIn(list[j + 1])
      BY <1>2, <2>2
    <3>2. \A a, b \in 2 .. Len(list) : NumberIn(list[a]) = NumberIn(list[b]) => a = b
      BY DEF Complete
    <3>3. i + 1 = j + 1
      BY <3>1, <3>2
    <3>4. QED
      BY <1>1, <3>3
  <2>3. QED
    BY <2>1, <2>2
<1>4. \A r \in Peer : Dumped(r) # {} => \E k \in 1 .. Len(Links) : NumberIn(Links[k]) = Number[r]
  <2> SUFFICES ASSUME NEW r \in Peer, Dumped(r) # {}
               PROVE  \E k \in 1 .. Len(Links) : NumberIn(Links[k]) = Number[r]
    OBVIOUS
  <2>1. PICK i \in 2 .. Len(list) : NumberIn(list[i]) = Number[r]
    BY DEF Complete
  <2>2. i - 1 \in 1 .. Len(Links) /\ (i - 1) + 1 = i
    BY <1>2
  <2>3. QED
    BY <1>2, <2>1, <2>2
<1>5. /\ top \in Seq(Line) /\ Len(top) \in Nat
      /\ \A k \in 1 .. Len(top) : top[k][1] = "peerid"
      /\ \A k, m \in 1 .. Len(top) : NumberIn(top[k]) = NumberIn(top[m]) => k = m
      /\ \A i \in 1 .. Len(Links) : \E k \in 1 .. Len(top) : top[k] = Links[i]
  <2>1. CASE Places(Links, q) = {}
    <3>1. /\ top \in Seq(Line) /\ Len(top) = Len(Links) + 1
          /\ \A k \in 1 .. Len(Links) : NumberIn(Links[k]) # Number[q]
          /\ \A k \in 1 .. Len(Links) + 1 : top[k] =
               IF k = 1 THEN Chat(q) ELSE IF k = Len(Links) + 1 THEN Links[1] ELSE Links[k]
      BY <1>1, <2>1, OnTopAdds
    <3> HIDE DEF top
    <3>2. Chat(q)[1] = "peerid" /\ NumberIn(Chat(q)) = Number[q]
      BY LinesApart
    <3>3. ASSUME NEW k \in 1 .. Len(top) PROVE top[k][1] = "peerid"
      <4>1. CASE k = 1
        BY <3>1, <3>2, <4>1
      <4>2. CASE k # 1
        <5>1. PICK i \in 1 .. Len(Links) : top[k] = Links[i]
          BY <1>1, <3>1, <4>2
        <5>2. QED
          BY <1>3, <5>1
      <4>3. QED
        BY <4>1, <4>2
    <3>4. \A k, m \in 1 .. Len(top) : NumberIn(top[k]) = NumberIn(top[m]) => k = m
      <4> DEFINE From(k) == IF k = Len(Links) + 1 THEN 1 ELSE k
      <4>1. \A k \in 1 .. Len(top) : k # 1 => From(k) \in 1 .. Len(Links) /\ top[k] = Links[From(k)]
        BY <1>1, <3>1
      <4>2. \A k, m \in 1 .. Len(top) : k # 1 /\ m # 1 /\ From(k) = From(m) => k = m
        BY <1>1, <3>1
      <4>3. top[1] = Chat(q)
        BY <1>1, <3>1
      <4> HIDE DEF From
      <4>4. \A k \in 1 .. Len(top) : k # 1 => NumberIn(top[k]) # Number[q]
        BY <3>1, <4>1
      <4>5. \A k, m \in 1 .. Len(top) :
              k # 1 /\ m # 1 /\ NumberIn(top[k]) = NumberIn(top[m]) => From(k) = From(m)
        BY <1>3, <4>1
      <4>6. QED
        BY <3>2, <4>2, <4>3, <4>4, <4>5
    <3>5. ASSUME NEW i \in 1 .. Len(Links) PROVE \E k \in 1 .. Len(top) : top[k] = Links[i]
      <4>1. CASE i = 1
        <5>1. Len(Links) + 1 \in 1 .. Len(top) /\ Len(Links) + 1 # 1
          BY <1>1, <3>1
        <5>2. top[Len(Links) + 1] = Links[i]
          BY <3>1, <4>1, <5>1
        <5>3. QED
          BY <5>1, <5>2
      <4>2. CASE i # 1
        <5>1. i \in 1 .. Len(top) /\ i # Len(Links) + 1
          BY <1>1, <3>1
        <5>2. top[i] = Links[i]
          BY <3>1, <4>2, <5>1
        <5>3. QED
          BY <5>1, <5>2
      <4>3. QED
        BY <4>1, <4>2
    <3>6. Len(top) \in Nat
      BY <1>1, <3>1
    <3>7. QED
      BY <3>1, <3>3, <3>4, <3>5, <3>6
  <2>2. CASE Places(Links, q) # {}
    <3>1. top \in Seq(Line) /\ Len(top) = Len(Links) /\ Len(Links) > 0
      BY <1>1, <2>2, OnTopSwaps
    <3>2. PICK i \in 1 .. Len(Links) : \A k \in 1 .. Len(Links) : top[k] =
               IF k = 1 THEN Links[i] ELSE IF k = i THEN Links[1] ELSE Links[k]
      BY <1>1, <2>2, OnTopSwaps
    <3> HIDE DEF top
    <3> DEFINE From(k) == IF k = 1 THEN i ELSE IF k = i THEN 1 ELSE k
    <3>3. \A k \in 1 .. Len(top) : From(k) \in 1 .. Len(Links) /\ top[k] = Links[From(k)]
      BY <1>1, <3>1, <3>2
    <3>4. \A k, m \in 1 .. Len(top) : From(k) = From(m) => k = m
      OBVIOUS
    <3>5. \A k \in 1 .. Len(top) : From(k) \in 1 .. Len(top) /\ From(From(k)) = k
      BY <1>1, <3>1
    <3> HIDE DEF From
    <3>6. \A k \in 1 .. Len(top) : top[k][1] = "peerid"
      BY <1>3, <3>3
    <3>7. ASSUME NEW k \in 1 .. Len(top), NEW m \in 1 .. Len(top),
                 NumberIn(top[k]) = NumberIn(top[m])
          PROVE  k = m
      <4>1. NumberIn(Links[From(k)]) = NumberIn(Links[From(m)])
        BY <3>3, <3>7
      <4>2. From(k) = From(m)
        BY <1>3, <3>3, <4>1
      <4>3. QED
        BY <3>4, <4>2
    <3>8. \A k \in 1 .. Len(Links) : \E m \in 1 .. Len(top) : top[m] = Links[k]
      BY <3>1, <3>3, <3>5
    <3>9. QED
      BY <1>1, <3>1, <3>6, <3>7, <3>8
  <2>3. QED
    BY <2>1, <2>2
<1> HIDE DEF top
<1>6. /\ l # <<>> /\ Len(l) = Len(top) + 1 /\ l[1] = Total(Len(top))
      /\ \A k \in 1 .. Len(top) : l[k + 1] = top[k]
  BY <1>5, LinesOf DEF top
<1>7. \A i \in 2 .. Len(l) : i - 1 \in 1 .. Len(top) /\ l[i] = top[i - 1]
  <2> SUFFICES ASSUME NEW i \in 2 .. Len(l)
               PROVE  i - 1 \in 1 .. Len(top) /\ l[i] = top[i - 1]
    OBVIOUS
  <2>1. i - 1 \in 1 .. Len(top) /\ (i - 1) + 1 = i
    BY <1>5, <1>6
  <2>2. QED
    BY <1>6, <2>1
<1>8. l[1] = Total(Len(l) - 1) /\ \A i \in 2 .. Len(l) : l[i][1] = "peerid"
  BY <1>5, <1>6, <1>7
<1>9. ASSUME NEW i \in 2 .. Len(l), NEW j \in 2 .. Len(l), NumberIn(l[i]) = NumberIn(l[j])
      PROVE  i = j
  <2>1. /\ i - 1 \in 1 .. Len(top) /\ j - 1 \in 1 .. Len(top)
        /\ NumberIn(top[i - 1]) = NumberIn(top[j - 1])
    BY <1>7, <1>9
  <2>2. i - 1 = j - 1
    BY <1>5, <2>1
  <2>3. QED
    BY <1>5, <1>6, <2>2
<1>10. ASSUME NEW r \in Peer, Dumped(r) # {}
       PROVE  \E i \in 2 .. Len(l) : NumberIn(l[i]) = Number[r]
  <2>1. PICK k \in 1 .. Len(top) : NumberIn(top[k]) = Number[r]
    <3>1. PICK i \in 1 .. Len(Links) : NumberIn(Links[i]) = Number[r]
      BY <1>4, <1>10
    <3>2. QED
      BY <1>5, <3>1
  <2>2. k + 1 \in 2 .. Len(l) /\ l[k + 1] = top[k]
    BY <1>5, <1>6
  <2>3. QED
    BY <2>1, <2>2
<1>11. QED
  BY <1>6, <1>8, <1>9, <1>10 DEF Complete

-----------------------------------------------------------------------------
(* Messages, pages and what was dumped to them. *)

LEMMA MessagesTyped ==
  /\ Len(ChatOf) \in Nat /\ Message = 1 .. Len(ChatOf)
  /\ \A m \in Message : m # 0 /\ ChatOf[m] \in Peer /\ Sender[m] \subseteq Peer
  /\ \A q \in Peer : q \in Nat /\ q # 0 /\ Number[q] \in Nat
BY GrabAssumption, LenProperties DEF GrabAssumption, Message, Avatars

LEMMA PutTyped ==
  ASSUME NEW S, NEW f, f \in [DOMAIN f -> S], NEW x, NEW v \in S
  PROVE  /\ DOMAIN Put(f, x, v) = DOMAIN f \cup {x}
         /\ Put(f, x, v) \in [DOMAIN Put(f, x, v) -> S]
         /\ Put(f, x, v)[x] = v
         /\ \A y \in DOMAIN f : y # x => Put(f, x, v)[y] = f[y]
BY DEF Put

LEMMA SamePages ==
  ASSUME UNCHANGED pages
  PROVE  \A q : Dumped(q)' = Dumped(q)
BY DEF Dumped

LEMMA NewPage ==
  ASSUME pages \in [DOMAIN pages -> Seq(Entry)], NEW q, q \notin DOMAIN pages,
         pages' = Put(pages, q, <<>>)
  PROVE  \A r : Dumped(r)' = Dumped(r)
<1>1. /\ DOMAIN pages' = DOMAIN pages \cup {q} /\ pages'[q] = <<>>
      /\ \A y \in DOMAIN pages : pages'[y] = pages[y]
  BY DEF Put
<1>2. Dumped(q)' = {} /\ Dumped(q) = {}
  BY <1>1 DEF Dumped
<1>3. \A r : r # q => Dumped(r)' = Dumped(r)
  BY <1>1 DEF Dumped
<1>4. QED
  BY <1>2, <1>3

LEMMA NewEntry ==
  ASSUME pages \in [DOMAIN pages -> Seq(Entry)], NEW q \in DOMAIN pages, NEW e \in Entry,
         pages' = [pages EXCEPT ![q] = Append(@, e)]
  PROVE  /\ pages' \in [DOMAIN pages -> Seq(Entry)] /\ DOMAIN pages' = DOMAIN pages
         /\ \A r \in DOMAIN pages : \A i \in DOMAIN pages'[r] :
              (i \in DOMAIN pages[r] /\ pages'[r][i] = pages[r][i])
                \/ (r = q /\ pages'[r][i] = e)
         /\ Dumped(q)' = Dumped(q) \cup {e.msg}
         /\ \A r : r # q => Dumped(r)' = Dumped(r)
<1>1. pages[q] \in Seq(Entry) /\ Len(pages[q]) \in Nat /\ DOMAIN pages[q] = 1 .. Len(pages[q])
  BY LenProperties
<1>2. /\ DOMAIN pages' = DOMAIN pages /\ pages'[q] = Append(pages[q], e)
      /\ \A r \in DOMAIN pages : r # q => pages'[r] = pages[r]
  OBVIOUS
<1>3. /\ Append(pages[q], e) \in Seq(Entry)
      /\ Len(Append(pages[q], e)) = Len(pages[q]) + 1
      /\ \A i \in 1 .. Len(pages[q]) : Append(pages[q], e)[i] = pages[q][i]
      /\ Append(pages[q], e)[Len(pages[q]) + 1] = e
  BY <1>1, AppendProperties
<1>4. DOMAIN pages'[q] = 1 .. Len(pages[q]) + 1
  BY <1>2, <1>3, LenProperties
<1>5. \A i \in DOMAIN pages'[q] : \/ i \in DOMAIN pages[q] /\ pages'[q][i] = pages[q][i]
                                  \/ i = Len(pages[q]) + 1 /\ pages'[q][i] = e
  BY <1>1, <1>2, <1>3, <1>4
<1>6. pages' \in [DOMAIN pages -> Seq(Entry)]
  BY <1>3
<1>7. Dumped(q)' = Dumped(q) \cup {e.msg}
  <2>1. /\ Dumped(q)' = {pages'[q][i].msg : i \in DOMAIN pages'[q]}
        /\ Dumped(q) = {pages[q][i].msg : i \in DOMAIN pages[q]}
    BY <1>2 DEF Dumped
  <2>2. Len(pages[q]) + 1 \in DOMAIN pages'[q] /\ pages'[q][Len(pages[q]) + 1] = e
    BY <1>1, <1>2, <1>3, <1>4
  <2>3. \A i \in DOMAIN pages[q] : i \in DOMAIN pages'[q] /\ pages'[q][i] = pages[q][i]
    BY <1>1, <1>2, <1>3, <1>4
  <2>4. QED
    BY <1>5, <2>1, <2>2, <2>3
<1>8. \A r : r # q => Dumped(r)' = Dumped(r)
  BY <1>2 DEF Dumped
<1>9. QED
  BY <1>2, <1>5, <1>6, <1>7, <1>8

-----------------------------------------------------------------------------
(* Types, and where the process is. *)

LEMMA InitInv ==
  ASSUME Init
  PROVE  Inv
<1> USE DEF Init, None
<1>1. Len(ChatOf) \in Nat
  BY MessagesTyped
<1>2. TypeOK
  <2>1. DOMAIN pages = {} /\ DOMAIN files = {}
    OBVIOUS
  <2>2. pages \in [DOMAIN pages -> Seq(Entry)] /\ files \in [DOMAIN files -> Message \cup Peer]
    OBVIOUS
  <2>3. DiskType
    BY <1>1, <2>1, <2>2 DEF DiskType
  <2>4. counts \in BOOLEAN /\ cut \in BOOLEAN
    OBVIOUS
  <2>5. /\ pc = "down" /\ message = 0 /\ lines \in Seq(Line) /\ loading = {}
        /\ pts = 0 /\ written = 0 /\ rands = 0 /\ starts = 0 /\ fetched = {}
    OBVIOUS
  <2> HIDE DEF Init
  <2>6. ProcessType
    BY <1>1, <2>4, <2>5 DEF ProcessType
  <2>7. HistoryType
    BY <2>4, <2>5, GrabAssumption DEF HistoryType, GrabAssumption
  <2>8. QED
    BY <2>3, <2>6, <2>7 DEF TypeOK
<1>3. Phases /\ Saved /\ Home
  BY <1>1 DEF Phases, Saved, SavedTo, Home
<1>4. Lists
  BY DEF Lists, Uncut
<1>5. QED
  BY <1>2, <1>3, <1>4 DEF Inv

(* The message at work, what its download is called, and who is shown. *)
LEMMA AtWork ==
  ASSUME Inv, pc \notin {"down", "idle"}
  PROVE  /\ message \in Message /\ message # 0 /\ ChatOf[message] \in Peer
         /\ rands \in Nat /\ MaxRand \in Nat /\ rands + 2 <= MaxRand
         /\ starts \in 1 .. MaxStarts /\ Sender[message] \subseteq Peer
<1>1. message \in Message
  BY DEF Inv, TypeOK, ProcessType
<1>2. rands \in 0 .. MaxRand /\ MaxRand \in Nat /\ rands + 2 <= MaxRand
  BY GrabAssumption DEF Inv, TypeOK, HistoryType, Phases, GrabAssumption
<1>3. starts \in 1 .. MaxStarts
  BY GrabAssumption DEF Inv, TypeOK, HistoryType, Phases, GrabAssumption
<1>4. QED
  BY <1>1, <1>2, <1>3, MessagesTyped


LEMMA HomeStays ==
  ASSUME Home, rands \in Nat, rands' \in Nat, rands <= rands', pc # "down",
         UNCHANGED <<pages, loading, fetched, files, starts>>
  PROVE  Home'
<1>1. \A t : Taken(t) => Taken(t)'
  <2> SUFFICES ASSUME NEW t, Taken(t) PROVE Taken(t)'
    OBVIOUS
  <2>1. t \in Target /\ (t[1] # Avatars => t[2] \in Nat /\ t[2] < rands)
    BY DEF Taken, Target
  <2>2. t[1] # Avatars => t[2] < rands'
    BY <2>1
  <2>3. QED
    BY <2>1, <2>2 DEF Taken
<1>2. QED
  BY <1>1 DEF Home

LEMMA CompleteStays ==
  ASSUME NEW l, Complete(l),
         \A q \in Peer : Dumped(q)' # {} =>
           Dumped(q) # {} \/ \E i \in 2 .. Len(l) : NumberIn(l[i]) = Number[q]
  PROVE  Complete(l)'
BY DEF Complete

(* The steps that leave the lists and the pages alone. *)
LEMMA QuietLists ==
  ASSUME Inv, UNCHANGED <<exists, list, pages, cut>>,
         pc \in {"down", "idle", "page", "list", "append"},
         pc' \in {"down", "idle", "page", "list"}
  PROVE  Lists'
<1>1. CASE cut
  BY <1>1 DEF Inv, Lists, CutOff
<1>2. CASE ~cut
  <2>1. Uncut
    BY <1>2 DEF Inv, Lists
  <2>2. PICK l : l = list
    OBVIOUS
  <2>3. Complete(l) => Complete(l)'
    BY SamePages, CompleteStays
  <2>4. "list" \in exists' => Complete(Current)'
    BY <2>1, <2>2, <2>3 DEF Uncut, Current, Complete
  <2>5. Uncut'
    BY <2>1, <2>4 DEF Uncut
  <2>6. QED
    BY <1>2, <2>5 DEF Lists
<1>3. QED
  BY <1>1, <1>2

-----------------------------------------------------------------------------
(* The actions, one by one. *)

LEMMA StartKeeps ==
  ASSUME Inv, start
  PROVE  Inv'
<1>1. PICK t \in IF state = 0 THEN {0} ELSE 0 .. Len(ChatOf) :
        pts' = t /\ skipped' = skipped \cup (state + 1 .. t)
  BY DEF start
<1>2. /\ pc = "down" /\ starts < MaxStarts /\ pc' = "idle" /\ starts' = starts + 1
      /\ written' = 0 /\ rands' = 0 /\ fetched' = {}
      /\ UNCHANGED <<exists, pages, list, files, state, message, counts, lines, loading, cut>>
  BY DEF start, Disk
<1>3. /\ Len(ChatOf) \in Nat /\ t \in 0 .. Len(ChatOf) /\ state \in 0 .. Len(ChatOf)
      /\ starts \in 0 .. MaxStarts /\ MaxStarts \in Nat /\ MaxRand \in Nat
      /\ message = 0 /\ loading = {} /\ pts \in 0 .. Len(ChatOf)
  BY <1>1, <1>2, MessagesTyped, GrabAssumption
     DEF Inv, TypeOK, DiskType, ProcessType, HistoryType, GrabAssumption, Phases
<1>4. DiskType'
  BY <1>2 DEF Inv, TypeOK, DiskType
<1>5. ProcessType'
  BY <1>1, <1>2, <1>3 DEF Inv, TypeOK, ProcessType
<1>6. HistoryType'
  BY <1>2, <1>3 DEF Inv, TypeOK, HistoryType
<1>7. Phases'
  <2>1. ~counts
    BY <1>3 DEF Inv, Phases
  <2>2. QED
    BY <1>2, <1>3, <2>1 DEF Phases
<1>8. Saved'
  <2>1. \A r : Dumped(r)' = Dumped(r)
    BY <1>2, SamePages
  <2>2. \A m \in (1 .. state) \ NotDumped : m \in skipped \/ m \in Dumped(ChatOf[m])
    BY DEF Inv, Saved, SavedTo
  <2>3. \A m \in 1 .. t : m \in 1 .. state \/ m \in state + 1 .. t
    BY <1>3
  <2>4. QED
    BY <1>1, <1>2, <2>1, <2>2, <2>3 DEF Saved, SavedTo
<1>9. Home'
  <2>1. ASSUME NEW q \in DOMAIN pages, NEW i \in DOMAIN pages[q]
        PROVE  pages[q][i].run <= starts' /\ pages[q][i].run # starts'
    <3>1. pages[q][i].run \in 1 .. MaxStarts
      <4>1. pages[q] \in Seq(Entry)
        BY DEF Inv, TypeOK, DiskType
      <4>2. pages[q][i] \in Entry
        BY <4>1
      <4>3. QED
        BY <4>2 DEF Entry
    <3>2. pages[q][i].run <= starts
      BY DEF Inv, Home
    <3>3. QED
      BY <1>2, <1>3, <3>1, <3>2
  <2>2. QED
    BY <1>2, <1>3, <2>1 DEF Home
<1>10. Lists'
  BY <1>2, QuietLists
<1>11. QED
  BY <1>4, <1>5, <1>6, <1>7, <1>8, <1>9, <1>10 DEF Inv, TypeOK

(* What is left of the process when it is killed, whatever is left of the  *)
(* list.                                                                   *)
LEMMA DownKeeps ==
  ASSUME Inv, Down, pc \notin {"down", "lost"}, list' \in Seq(Line), cut' \in BOOLEAN,
         exists' \subseteq {"index", "list"}, Lists'
  PROVE  Inv'
<1>1. /\ pc' = "down" /\ message' = 0 /\ lines' = <<>> /\ loading' = {} /\ fetched' = {}
      /\ ~counts' /\ pts' = 0 /\ written' = 0 /\ rands' = 0 /\ counts' \in BOOLEAN
      /\ UNCHANGED <<pages, files, state, starts, skipped>>
  BY DEF Down
<1>2. Len(ChatOf) \in Nat /\ MaxRand \in Nat
  BY MessagesTyped, GrabAssumption DEF GrabAssumption
<1>3. DiskType'
  BY <1>1 DEF Inv, TypeOK, DiskType
<1>4. ProcessType'
  BY <1>1, <1>2 DEF Inv, TypeOK, ProcessType
<1>5. HistoryType'
  BY <1>1, <1>2 DEF Inv, TypeOK, HistoryType
<1>6. Phases'
  BY <1>1 DEF Phases
<1>7. Saved'
  <2>1. \A r : Dumped(r)' = Dumped(r)
    BY <1>1, SamePages
  <2>2. SavedTo(0)'
    BY DEF SavedTo
  <2>3. QED
    BY <1>1, <2>1, <2>2 DEF Inv, Saved, SavedTo
<1>8. Home'
  BY <1>1 DEF Inv, Home
<1>9. QED
  BY <1>3, <1>4, <1>5, <1>6, <1>7, <1>8 DEF Inv, TypeOK

LEMMA KillKeeps ==
  ASSUME Inv, kill
  PROVE  Inv'
<1>1. /\ Down /\ pc \notin {"down", "lost"} /\ cut' = (cut \/ pc \in {"rewrite", "frame"})
      /\ pc' = "down" /\ UNCHANGED pages
  BY DEF kill, Down
<1>2. cut' \in BOOLEAN
  BY <1>1
<1>3. /\ list \in Seq(Line) /\ exists \subseteq {"index", "list"}
      /\ Damaged \in Seq(Line) /\ <<>> \in Seq(Line)
  BY DamagedApart DEF Inv, TypeOK, DiskType
<1>4. CASE pc = "rewrite"
  <2>1. list' \in {<<>>, Damaged} /\ exists' = exists
    BY <1>4 DEF kill
  <2>2. Lists'
    <3>1. ~cut => "list" \in exists /\ "index" \in exists
      BY <1>4 DEF Inv, Lists, Uncut, Phases
    <3>2. "index" \in exists
      BY <3>1 DEF Inv, Lists, CutOff
    <3>3. QED
      BY <1>1, <1>4, <2>1, <3>2 DEF Lists, CutOff
  <2>3. list' \in Seq(Line) /\ exists' \subseteq {"index", "list"}
    <3>1. list' \in Seq(Line)
      BY <1>3, <2>1, Zenon
    <3>2. exists' \subseteq {"index", "list"}
      BY <1>3, <2>1, Zenon
    <3>3. QED
      BY <3>1, <3>2
  <2>4. QED
    BY <1>1, <1>2, <2>2, <2>3, DownKeeps, Zenon
<1>5. CASE pc = "frame"
  <2>1. list' = list /\ exists' \in {exists, exists \cup {"list"}}
    BY <1>5 DEF kill
  <2>2. list = <<>> /\ "index" \in exists
    BY <1>5 DEF Inv, Lists, CutOff, Uncut
  <2>3. Lists'
    BY <1>1, <1>5, <2>1, <2>2 DEF Lists, CutOff
  <2>4. QED
    BY <1>1, <1>2, <1>3, <2>1, <2>3, DownKeeps, Zenon
<1>6. CASE pc \notin {"rewrite", "frame"}
  <2>1. list' = list /\ exists' = exists
    BY <1>6 DEF kill
  <2>2. cut' = cut
    BY <1>1, <1>6 DEF Inv, TypeOK, HistoryType
  <2>3. pc \in {"down", "idle", "page", "list", "append"}
    BY <1>1, <1>6 DEF Inv, TypeOK, ProcessType
  <2>4. Lists'
    BY <1>1, <2>1, <2>2, <2>3, QuietLists
  <2>5. QED
    BY <1>1, <1>2, <1>3, <2>1, <2>4, DownKeeps
<1>7. QED
  BY <1>4, <1>5, <1>6

LEMMA CallbackKeeps ==
  ASSUME Inv, NEW d \in loading, download_callback(d)
  PROVE  Inv'
<1>1. /\ pc = "idle" /\ loading' = loading \ {d}
      /\ \/ files' = Put(files, d.target, d.what) /\ fetched' = fetched \cup {d.target}
         \/ files' = files /\ fetched' = fetched
      /\ UNCHANGED <<exists, pages, list, state, pc, message, counts, lines, pts, written,
                     rands, starts, skipped, cut>>
  BY DEF download_callback
<1>2. d.target \in Target /\ d.what \in Message \cup Peer /\ Taken(d.target)
  BY DEF Inv, TypeOK, ProcessType, Home
<1>3. /\ files \in [DOMAIN files -> Message \cup Peer] /\ fetched \subseteq DOMAIN files
  BY DEF Inv, TypeOK, DiskType, HistoryType
<1>4. /\ files' \in [DOMAIN files' -> Message \cup Peer] /\ fetched' \subseteq DOMAIN files'
      /\ fetched' \subseteq fetched \cup {d.target}
      /\ \A t \in DOMAIN files : t # d.target => files'[t] = files[t]
      /\ d.target \in fetched' => files'[d.target] = d.what \/ UNCHANGED <<files, fetched>>
  <2>1. CASE files' = Put(files, d.target, d.what) /\ fetched' = fetched \cup {d.target}
    <3>1. /\ DOMAIN files' = DOMAIN files \cup {d.target}
          /\ files' \in [DOMAIN files' -> Message \cup Peer]
          /\ files'[d.target] = d.what
          /\ \A y \in DOMAIN files : y # d.target => files'[y] = files[y]
      BY <1>2, <1>3, <2>1 DEF Put
    <3>2. QED
      BY <1>3, <2>1, <3>1
  <2>2. CASE files' = files /\ fetched' = fetched
    BY <1>3, <2>2
  <2>3. QED
    BY <1>1, <2>1, <2>2
<1>5. TypeOK'
  <2>1. DiskType'
    BY <1>1, <1>4 DEF Inv, TypeOK, DiskType
  <2>2. ProcessType'
    BY <1>1 DEF Inv, TypeOK, ProcessType
  <2>3. HistoryType'
    BY <1>1, <1>4 DEF Inv, TypeOK, HistoryType
  <2>4. QED
    BY <2>1, <2>2, <2>3 DEF TypeOK
<1>6. Phases' /\ Saved'
  BY <1>1, SamePages DEF Inv, Phases, Saved, SavedTo
<1>7. Home'
  <2>1. \A t : Taken(t) => Taken(t)'
    BY <1>1 DEF Taken
  <2>2. ASSUME NEW q \in DOMAIN pages, NEW i \in DOMAIN pages[q], NEW e, e = pages[q][i],
               e.run = starts, e.link # <<>>
        PROVE  /\ Taken(e.link) /\ e.link[1] # Avatars
               /\ \A c \in loading' : c.target = e.link => c.what = e.msg
               /\ e.link \in fetched' => files'[e.link] = e.msg
    <3>1. /\ Taken(e.link) /\ e.link[1] # Avatars
          /\ \A c \in loading : c.target = e.link => c.what = e.msg
          /\ e.link \in fetched => files[e.link] = e.msg
      BY <1>1, <2>2 DEF Inv, Home
    <3>2. ASSUME e.link \in fetched' PROVE files'[e.link] = e.msg
      <4>1. CASE e.link = d.target
        BY <1>4, <3>1, <3>2, <4>1
      <4>2. CASE e.link # d.target
        BY <1>3, <1>4, <3>1, <3>2, <4>2
      <4>3. QED
        BY <4>1, <4>2
    <3>3. QED
      BY <1>1, <3>1, <3>2
  <2>3. (\A c \in loading' : Taken(c.target)) /\ (\A t \in fetched' : Taken(t))
    BY <1>1, <1>2, <1>4 DEF Inv, Home
  <2>4. \A q \in DOMAIN pages : \A i \in DOMAIN pages[q] : pages[q][i].run <= starts
    BY DEF Inv, Home
  <2>5. QED
    BY <1>1, <2>1, <2>2, <2>3, <2>4 DEF Home
<1>8. Lists'
  BY <1>1, QuietLists
<1>9. QED
  BY <1>5, <1>6, <1>7, <1>8 DEF Inv

LEMMA UpdateKeeps ==
  ASSUME Inv, print_user_update_gw
  PROVE  Inv'
<1>1. /\ pc = "idle" /\ rands < MaxRand /\ rands' = rands + 1
      /\ UNCHANGED <<exists, pages, list, files, state, pc, message, counts, lines, loading,
                     pts, written, starts, skipped, cut, fetched>>
  BY DEF print_user_update_gw, Disk
<1>2. rands \in 0 .. MaxRand /\ MaxRand \in Nat
  BY GrabAssumption DEF Inv, TypeOK, HistoryType, GrabAssumption
<1>3. DiskType' /\ ProcessType'
  BY <1>1 DEF Inv, TypeOK, DiskType, ProcessType
<1>4. HistoryType'
  BY <1>1, <1>2 DEF Inv, TypeOK, HistoryType
<1>5. Phases' /\ Saved'
  BY <1>1, SamePages DEF Inv, Phases, Saved, SavedTo
<1>6. Home' /\ Lists'
  BY <1>1, <1>2, HomeStays, QuietLists DEF Inv
<1>7. QED
  BY <1>3, <1>4, <1>5, <1>6 DEF Inv, TypeOK

LEMMA BeginKeeps ==
  ASSUME Inv, NEW m \in Message, Begin(m), counts' \in BOOLEAN, counts' => m = pts + 1
  PROVE  Inv'
<1>1. /\ pc = "idle" /\ rands < MaxRand - 1 /\ message' = m
      /\ pc' = IF ChatOf[m] \in DOMAIN pages THEN "list" ELSE "page"
      /\ UNCHANGED <<exists, pages, list, files, state, lines, loading, pts, written, rands,
                     starts, skipped, cut, fetched>>
  BY DEF Begin, Disk
<1>2. rands \in 0 .. MaxRand /\ MaxRand \in Nat /\ m # 0
  BY GrabAssumption, MessagesTyped DEF Inv, TypeOK, HistoryType, GrabAssumption
<1>3. DiskType' /\ HistoryType'
  BY <1>1 DEF Inv, TypeOK, DiskType, HistoryType
<1>4. ProcessType'
  BY <1>1, <1>2 DEF Inv, TypeOK, ProcessType
<1>5. Phases'
  <2>1. rands + 2 <= MaxRand
    BY <1>1, <1>2
  <2>2. QED
    BY <1>1, <2>1 DEF Inv, Phases
<1>6. Saved'
  BY <1>1, SamePages DEF Inv, Saved, SavedTo
<1>7. Home' /\ Lists'
  BY <1>1, <1>2, HomeStays, QuietLists DEF Inv
<1>8. QED
  BY <1>3, <1>4, <1>5, <1>6, <1>7 DEF Inv, TypeOK

(* A message that is counted and not dumped. *)
LEMMA CountKeeps ==
  ASSUME Inv, pts + 1 \in NotDumped, pc = "idle", pts' = pts + 1,
         UNCHANGED <<exists, pages, list, files, state, pc, message, counts, lines, loading,
                     written, rands, starts, skipped, cut, fetched>>
  PROVE  Inv'
<1>1. /\ pts \in 0 .. Len(ChatOf) /\ pts + 1 \in 0 .. Len(ChatOf) /\ rands \in Nat
      /\ message = 0
  BY GrabAssumption, MessagesTyped
     DEF Inv, TypeOK, ProcessType, HistoryType, GrabAssumption
<1>2. DiskType' /\ HistoryType'
  BY DEF Inv, TypeOK, DiskType, HistoryType
<1>3. ProcessType'
  BY <1>1 DEF Inv, TypeOK, ProcessType
<1>4. Phases'
  <2>1. ~counts
    BY <1>1 DEF Inv, Phases
  <2>2. QED
    BY <2>1 DEF Inv, Phases
<1>5. Saved'
  <2>1. \A m \in 1 .. pts + 1 : m \in 1 .. pts \/ m \in NotDumped
    BY <1>1
  <2>2. \A r : Dumped(r)' = Dumped(r)
    BY SamePages
  <2>3. QED
    BY <2>1, <2>2 DEF Inv, Saved, SavedTo
<1>6. Home' /\ Lists'
  BY <1>1, HomeStays, QuietLists DEF Inv
<1>7. QED
  BY <1>2, <1>3, <1>4, <1>5, <1>6 DEF Inv, TypeOK

LEMMA PrintKeeps ==
  ASSUME Inv, print_message_gw \/ print_msg_list_gw
  PROVE  Inv'
<1>1. pts \in 0 .. Len(ChatOf) /\ Len(ChatOf) \in Nat /\ Message = 1 .. Len(ChatOf)
  BY MessagesTyped DEF Inv, TypeOK, ProcessType
<1>2. CASE pts < Len(ChatOf) /\ Begin(pts + 1) /\ counts' = TRUE
  <2>1. pts + 1 \in Message
    BY <1>1, <1>2
  <2>2. QED
    BY <1>2, <2>1, BeginKeeps
<1>3. CASE \E m \in 1 .. pts : Begin(m) /\ counts' = FALSE
  <2>1. PICK m \in 1 .. pts : Begin(m) /\ counts' = FALSE
    BY <1>3
  <2>2. m \in Message
    BY <1>1
  <2>3. QED
    BY <2>1, <2>2, BeginKeeps
<1>4. CASE ~(pts < Len(ChatOf) /\ Begin(pts + 1) /\ counts' = TRUE) /\ print_message_gw
  <2>1. /\ pts + 1 \in NotDumped /\ pc = "idle" /\ pts' = pts + 1
        /\ UNCHANGED <<exists, pages, list, files, state, pc, message, counts, lines,
                       loading, written, rands, starts, skipped, cut, fetched>>
    BY <1>4 DEF print_message_gw, Disk
  <2>2. QED
    BY <2>1, CountKeeps
<1>5. print_msg_list_gw => \E m \in 1 .. pts : Begin(m) /\ counts' = FALSE
  BY DEF print_msg_list_gw
<1>6. QED
  BY <1>2, <1>3, <1>4, <1>5

LEMMA WriteStateKeeps ==
  ASSUME Inv, write_state_file
  PROVE  Inv'
<1>1. /\ pc = "idle" /\ written' = pts /\ state' = pts
      /\ UNCHANGED <<exists, pages, list, files, pc, message, counts, lines, loading, pts,
                     rands, starts, skipped, cut, fetched>>
  BY DEF write_state_file
<1>2. pts \in 0 .. Len(ChatOf)
  BY DEF Inv, TypeOK, ProcessType
<1>3. DiskType' /\ HistoryType'
  BY <1>1, <1>2 DEF Inv, TypeOK, DiskType, HistoryType
<1>4. ProcessType'
  BY <1>1, <1>2 DEF Inv, TypeOK, ProcessType
<1>5. Phases' /\ Saved'
  BY <1>1, SamePages DEF Inv, Phases, Saved, SavedTo
<1>6. Home' /\ Lists'
  <2>1. rands \in Nat
    BY GrabAssumption DEF Inv, TypeOK, HistoryType, GrabAssumption
  <2>2. QED
    BY <1>1, <2>1, HomeStays, QuietLists DEF Inv
<1>7. QED
  BY <1>3, <1>4, <1>5, <1>6 DEF Inv, TypeOK

LEMMA NoListKeeps ==
  ASSUME Inv, no_list
  PROVE  Inv'
<1>1. /\ pc = "list" /\ Down /\ pc' = "down"
      /\ UNCHANGED <<list, cut, exists, pages>>
  BY DEF no_list, Down
<1>2. Lists'
  BY <1>1, QuietLists
<1>3. QED
  BY <1>1, <1>2, DownKeeps DEF Inv, TypeOK, DiskType, HistoryType

(* A new page, which is empty. *)
LEMMA PageKeeps ==
  ASSUME Inv, pc \in {"page", "frame"}, pc' = "list",
         pages' = Put(pages, ChatOf[message], <<>>),
         exists' \subseteq {"index", "list"}, list' \in Seq(Line), Lists',
         UNCHANGED <<files, state, message, counts, lines, loading, pts, written, rands,
                     starts, skipped, cut, fetched>>
  PROVE  Inv'
<1> DEFINE q == ChatOf[message]
<1>1. message \in Message /\ message # 0 /\ q \in Peer /\ q \notin DOMAIN pages
  BY AtWork DEF Inv, Phases
<1>2. pages \in [DOMAIN pages -> Seq(Entry)] /\ DOMAIN pages \subseteq Peer
  BY DEF Inv, TypeOK, DiskType
<1>3. /\ DOMAIN pages' = DOMAIN pages \cup {q} /\ DOMAIN pages'[q] = {}
      /\ pages' \in [DOMAIN pages' -> Seq(Entry)]
      /\ \A y \in DOMAIN pages : pages'[y] = pages[y]
  BY <1>1, <1>2 DEF Put
<1>4. DiskType'
  BY <1>1, <1>2, <1>3 DEF Inv, TypeOK, DiskType
<1>5. ProcessType' /\ HistoryType'
  BY <1>1 DEF Inv, TypeOK, ProcessType, HistoryType
<1>6. Phases'
  BY <1>3 DEF Inv, Phases
<1>7. Saved'
  <2>1. \A r : Dumped(r)' = Dumped(r)
    BY <1>1, <1>2, NewPage
  <2>2. QED
    BY <2>1 DEF Inv, Saved, SavedTo
<1>8. Home'
  <2>1. \A t : Taken(t)' <=> Taken(t)
    BY DEF Taken
  <2>2. \A r \in DOMAIN pages' : \A i \in DOMAIN pages'[r] :
          r \in DOMAIN pages /\ i \in DOMAIN pages[r] /\ pages'[r][i] = pages[r][i]
    BY <1>3
  <2>3. QED
    BY <2>1, <2>2 DEF Inv, Home
<1>9. QED
  BY <1>4, <1>5, <1>6, <1>7, <1>8 DEF Inv, TypeOK

LEMMA InitiateKeeps ==
  ASSUME Inv, initiate_html
  PROVE  Inv'
<1> DEFINE q == ChatOf[message]
<1>1. /\ pc = "page"
      /\ UNCHANGED <<list, files, state, message, counts, lines, loading, pts, written,
                     rands, starts, skipped, cut, fetched>>
  BY DEF initiate_html
<1>2. /\ message \in Message /\ message # 0 /\ q \in Peer /\ q \notin DOMAIN pages
  BY <1>1, AtWork DEF Inv, Phases
<1>3. CASE "index" \notin exists
  <2>1. pc' = "frame" /\ exists' = exists \cup {"index"} /\ pages' = pages
    BY <1>3 DEF initiate_html
  <2>2. DiskType'
    BY <1>1, <2>1 DEF Inv, TypeOK, DiskType
  <2>3. ProcessType' /\ HistoryType'
    BY <1>1, <1>2, <2>1 DEF Inv, TypeOK, ProcessType, HistoryType
  <2>4. Phases' /\ Saved'
    BY <1>1, <1>2, <2>1, SamePages DEF Inv, Phases, Saved, SavedTo
  <2>5. Home'
    <3>1. rands \in Nat
      BY <1>1, AtWork
    <3>2. QED
      BY <1>1, <2>1, <3>1, HomeStays DEF Inv
  <2>6. Lists'
    <3>1. ~cut /\ Uncut
      BY <1>3 DEF Inv, Lists, CutOff
    <3>2. Uncut'
      BY <1>1, <1>3, <2>1, <3>1 DEF Uncut
    <3>3. QED
      BY <1>1, <3>1, <3>2 DEF Lists
  <2>7. QED
    BY <2>2, <2>3, <2>4, <2>5, <2>6 DEF Inv, TypeOK
<1>4. CASE "index" \in exists
  <2>1. pc' = "list" /\ pages' = Put(pages, q, <<>>) /\ exists' = exists
    BY <1>4 DEF initiate_html
  <2>2. pages \in [DOMAIN pages -> Seq(Entry)]
    BY DEF Inv, TypeOK, DiskType
  <2>3. \A r : Dumped(r)' = Dumped(r)
    BY <1>2, <2>1, <2>2, NewPage
  <2>5. ASSUME ~cut PROVE Uncut'
    <3>1. Uncut
      BY <2>5 DEF Inv, Lists
    <3>2. PICK l : l = list
      OBVIOUS
    <3>3. Complete(l) => Complete(l)'
      BY <2>3, CompleteStays
    <3>4. "list" \in exists /\ Complete(l)
      BY <1>1, <1>4, <3>1, <3>2 DEF Uncut, Current
    <3>5. Complete(Current)'
      BY <1>1, <2>1, <3>2, <3>3, <3>4 DEF Current, Complete
    <3>6. QED
      BY <1>4, <2>1, <3>4, <3>5 DEF Uncut
  <2>6. Lists'
    BY <1>1, <1>4, <2>1, <2>5 DEF Inv, Lists, CutOff
  <2>7. QED
    BY <1>1, <2>1, <2>6, PageKeeps DEF Inv, TypeOK, DiskType
<1>5. QED
  BY <1>3, <1>4

LEMMA FramesetKeeps ==
  ASSUME Inv, initialize_frameset
  PROVE  Inv'
<1>1. /\ pc = "frame" /\ pc' = "list"
      /\ exists' = exists \cup {"list"} /\ list' = <<Total(0)>>
      /\ pages' = Put(pages, ChatOf[message], <<>>)
      /\ UNCHANGED <<files, state, message, counts, lines, loading, pts, written, rands,
                     starts, skipped, cut, fetched>>
  BY DEF initialize_frameset
<1>2. Total(0) \in Line /\ Total(0)[1] = "total"
  BY LinesApart
<1>3. list' \in Seq(Line) /\ Len(list') = 1 /\ list'[1] = Total(0) /\ list' # <<>>
  BY <1>1, <1>2
<1>4. ~cut
  BY <1>1 DEF Inv, Lists, CutOff
<1>5. Uncut'
  <2>1. Uncut /\ "list" \notin exists /\ DOMAIN pages = {}
    BY <1>1, <1>4 DEF Inv, Lists, Uncut
  <2>2. \A r \in Peer : Dumped(r)' = {}
    <3>1. /\ pages \in [DOMAIN pages -> Seq(Entry)]
          /\ ChatOf[message] \notin DOMAIN pages
      BY <1>1, <2>1 DEF Inv, TypeOK, DiskType
    <3>2. \A r : Dumped(r)' = Dumped(r)
      BY <1>1, <3>1, NewPage
    <3>3. QED
      BY <2>1, <3>2 DEF Dumped
  <2>3. Current' = list'
    BY <1>1 DEF Current
  <2>4. 2 .. Len(list') = {} /\ list'[1] = Total(Len(list') - 1)
    BY <1>3
  <2>5. Complete(Current)'
    BY <1>3, <2>2, <2>3, <2>4 DEF Complete
  <2>6. "index" \in exists'
    BY <1>1, <2>1 DEF Uncut
  <2>7. QED
    BY <1>1, <2>5, <2>6 DEF Uncut
<1>6. Lists'
  BY <1>1, <1>4, <1>5 DEF Lists
<1>7. QED
  BY <1>1, <1>3, <1>6, PageKeeps DEF Inv, TypeOK, DiskType

(* Downloads of avatars never go where a link of a message leads. *)
LEMMA AvatarTyped ==
  ASSUME NEW q \in Peer, NEW d \in download_avatar(q)
  PROVE  /\ d \in [target : Target, what : Message \cup Peer]
         /\ d.target[1] = Avatars /\ Taken(d.target)
<1>1. d = [target |-> <<Avatars, Number[q]>>, what |-> q]
  BY DEF download_avatar, Load
<1>2. <<Avatars, Number[q]>> \in Target /\ <<Avatars, Number[q]>>[1] = Avatars
  BY MessagesTyped DEF Target
<1>3. QED
  BY <1>1, <1>2 DEF Taken

LEMMA AddKeeps ==
  ASSUME Inv, add_to_list
  PROVE  Inv'
<1> DEFINE q == ChatOf[message]
<1>1. /\ pc = "list" /\ "list" \in exists
      /\ UNCHANGED <<exists, pages, files, state, message, counts, pts, written, rands,
                     starts, skipped, cut, fetched>>
  BY DEF add_to_list
<1>2. message \in Message /\ message # 0 /\ q \in Peer /\ rands \in Nat
  BY <1>1, AtWork
<1>3. CASE list = <<>>
  <2>1. pc' = "lost" /\ UNCHANGED <<list, lines, loading>>
    BY <1>3 DEF add_to_list
  <2>2. cut
    BY <1>1, <1>3 DEF Inv, Lists, Uncut, Complete, Current
  <2>3. DiskType' /\ ProcessType' /\ HistoryType'
    BY <1>1, <1>2, <2>1 DEF Inv, TypeOK, DiskType, ProcessType, HistoryType
  <2>4. Phases' /\ Saved'
    BY <1>1, <2>1, SamePages DEF Inv, Phases, Saved, SavedTo
  <2>5. Home'
    BY <1>1, <1>2, <2>1, HomeStays DEF Inv
  <2>6. Lists'
    BY <1>1, <2>1, <2>2 DEF Inv, Lists, CutOff
  <2>7. QED
    BY <2>3, <2>4, <2>5, <2>6 DEF Inv, TypeOK
<1>4. CASE list # <<>>
  <2>1. /\ pc' = "rewrite" /\ list' = <<>>
        /\ lines' = Listing(q)
        /\ \A d \in loading' : d \in loading \/ d \in download_avatar(q)
    BY <1>3, <1>4 DEF add_to_list
  <2>2. list \in Seq(Line) /\ (~cut => Complete(list))
    BY <1>1 DEF Inv, TypeOK, DiskType, Lists, Uncut, Current
  <2>3. PICK l : l = lines'
    OBVIOUS
  <2>4. /\ l \in Seq(Line) /\ (~cut => Complete(l) /\ Tops(l, q))
        /\ cut => list = Damaged /\ l = Damaged
    <3>1. CASE cut
      <4>1. list = Damaged /\ l = Damaged
        BY <1>4, <2>1, <2>3, <3>1 DEF Inv, Lists, CutOff, Listing
      <4>2. QED
        BY <3>1, <4>1, DamagedApart
    <3>2. CASE ~cut
      <4>1. list # Damaged
        BY <2>2, <3>2, LinksRead
      <4>2. l = <<Total(Len(OnTop(Links, q)))>> \o OnTop(Links, q)
        BY <2>1, <2>3, <4>1 DEF Listing
      <4>3. QED
        BY <1>2, <2>2, <3>2, <4>2, AddTops, AddComplete
    <3>3. QED
      BY <3>1, <3>2
  <2>5. \A d \in loading' : d \in loading \/
          (/\ d \in [target : Target, what : Message \cup Peer]
           /\ d.target[1] = Avatars /\ Taken(d.target))
    BY <1>2, <2>1, AvatarTyped
  <2>6. DiskType'
    BY <1>1, <2>1 DEF Inv, TypeOK, DiskType
  <2>7. ProcessType'
    <3>1. loading' \subseteq [target : Target, what : Message \cup Peer]
      BY <2>5 DEF Inv, TypeOK, ProcessType
    <3>2. lines' \in Seq(Line)
      BY <2>3, <2>4
    <3>3. QED
      BY <1>1, <1>2, <2>1, <3>1, <3>2 DEF Inv, TypeOK, ProcessType
  <2>8. HistoryType'
    BY <1>1 DEF Inv, TypeOK, HistoryType
  <2>9. Phases' /\ Saved'
    BY <1>1, <2>1, SamePages DEF Inv, Phases, Saved, SavedTo
  <2>10. Home'
    <3>1. \A t : Taken(t)' <=> Taken(t)
      BY <1>1 DEF Taken
    <3>2. \A d \in loading' : Taken(d.target) /\ (d \in loading \/ d.target[1] = Avatars)
      BY <2>5 DEF Inv, Home
    <3>3. QED
      BY <1>1, <2>1, <3>1, <3>2 DEF Inv, Home
  <2>11. Lists'
    <3>1. Current' = l
      BY <2>1, <2>3 DEF Current
    <3>2. ASSUME cut PROVE CutOff'
      BY <1>1, <2>1, <2>3, <2>4, <3>2 DEF Inv, Lists, CutOff
    <3>3. ASSUME ~cut PROVE Uncut'
      <4>1. Complete(l)'
        BY <1>1, <2>4, <3>3, SamePages, CompleteStays
      <4>2. Tops(l, q)'
        BY <1>1, <2>4, <3>3 DEF Tops
      <4>3. Complete(Current)'
        BY <3>1, <4>1 DEF Complete
      <4>4. Tops(Current, ChatOf[message])'
        BY <1>1, <3>1, <4>2 DEF Tops
      <4>5. QED
        BY <1>1, <2>1, <3>3, <4>3, <4>4 DEF Inv, Lists, Uncut
    <3>4. QED
      BY <1>1, <3>2, <3>3 DEF Lists
  <2>12. QED
    BY <2>6, <2>7, <2>8, <2>9, <2>10, <2>11 DEF Inv, TypeOK
<1>5. QED
  BY <1>3, <1>4

LEMMA WriteListKeeps ==
  ASSUME Inv, write_list
  PROVE  Inv'
<1>1. /\ pc = "rewrite" /\ list' = lines /\ lines' = <<>> /\ pc' = "append"
      /\ UNCHANGED <<exists, pages, files, state, message, counts, loading, pts, written,
                     rands, starts, skipped, cut, fetched>>
  BY DEF write_list
<1>2. message # 0 /\ rands \in Nat
  BY <1>1, AtWork
<1>3. DiskType' /\ ProcessType' /\ HistoryType'
  BY <1>1, <1>2 DEF Inv, TypeOK, DiskType, ProcessType, HistoryType
<1>4. Phases' /\ Saved'
  BY <1>1, SamePages DEF Inv, Phases, Saved, SavedTo
<1>5. Home'
  BY <1>1, <1>2, HomeStays DEF Inv
<1>6. Lists'
  <2>1. PICK l : l = lines
    OBVIOUS
  <2>2. Current = l /\ Current' = l
    BY <1>1, <2>1 DEF Current
  <2>3. ASSUME cut PROVE CutOff'
    BY <1>1, <2>3 DEF Inv, Lists, CutOff
  <2>4. ASSUME ~cut PROVE Uncut'
    <3>1. Uncut /\ Tops(l, ChatOf[message])
      BY <1>1, <2>2, <2>4 DEF Inv, Lists, Uncut
    <3>2. Complete(l) => Complete(l)'
      BY <1>1, SamePages, CompleteStays
    <3>3. "list" \in exists => Complete(Current)'
      BY <2>2, <3>1, <3>2 DEF Uncut, Complete
    <3>4. Tops(Current, ChatOf[message])'
      BY <1>1, <2>2, <3>1 DEF Tops
    <3>5. "list" \in exists
      BY <1>1, <3>1 DEF Inv, Phases, Uncut
    <3>6. QED
      BY <1>1, <3>1, <3>3, <3>4, <3>5 DEF Uncut
  <2>5. QED
    BY <1>1, <2>3, <2>4 DEF Lists
<1>7. QED
  BY <1>3, <1>4, <1>5, <1>6 DEF Inv, TypeOK

LEMMA AppendKeeps ==
  ASSUME Inv, append_html
  PROVE  Inv'
<1>0. PICK q, name, link, new :
        /\ q = ChatOf[message] /\ name = <<q, rands>>
        /\ link = IF message \in WithMedia THEN create_download_file(q) ELSE <<>>
        /\ new = [msg |-> message, link |-> link, run |-> starts]
  OBVIOUS
<1>1. /\ pc = "append" /\ pc' = "idle" /\ message' = 0 /\ counts' = FALSE
      /\ rands' = IF message \in WithMedia THEN rands + 2 ELSE rands
      /\ pages' = [pages EXCEPT ![q] = Append(@, new)]
      /\ pts' = (IF counts THEN message ELSE pts)
      /\ \A d \in loading' :
           \/ d \in loading
           \/ \E r \in Sender[message] : d \in download_avatar(r)
           \/ message \in WithMedia /\ d = Load(link[1], link[2], message)
      /\ UNCHANGED <<exists, list, files, state, lines, written, starts, skipped, cut, fetched>>
  BY <1>0 DEF append_html
<1>2. /\ message \in Message /\ message # 0 /\ q \in Peer
      /\ rands \in Nat /\ MaxRand \in Nat /\ rands + 2 <= MaxRand
      /\ starts \in 1 .. MaxStarts /\ Sender[message] \subseteq Peer
  BY <1>0, <1>1, AtWork
<1>3. q \in DOMAIN pages /\ pages \in [DOMAIN pages -> Seq(Entry)]
  BY <1>0, <1>1 DEF Inv, Phases, TypeOK, DiskType
<1>4. /\ rands' \in Nat /\ rands <= rands' /\ rands' <= MaxRand
      /\ message \in WithMedia => rands < rands'
  BY <1>1, <1>2
<1>5. /\ name \in Target /\ name \in Peer \X (0 .. MaxRand) /\ name # <<>>
      /\ name[1] = q /\ name[2] = rands /\ q # Avatars
      /\ message \in WithMedia => link = name
      /\ message \notin WithMedia => link = <<>>
  <2>1. q # Avatars
    BY <1>2, MessagesTyped DEF Avatars
  <2>2. name \in Target /\ name \in Peer \X (0 .. MaxRand) /\ name[1] = q /\ name[2] = rands
    BY <1>0, <1>2 DEF Target
  <2>3. name # <<>>
    BY <1>0
  <2>4. QED
    BY <1>0, <2>1, <2>2, <2>3 DEF create_download_file
<1>6. /\ new \in Entry /\ new.msg = message /\ new.link = link /\ new.run = starts
      /\ link # <<>> => link = name /\ message \in WithMedia
  BY <1>0, <1>2, <1>5 DEF Entry
<1>7. /\ pages' \in [DOMAIN pages -> Seq(Entry)] /\ DOMAIN pages' = DOMAIN pages
      /\ \A r \in DOMAIN pages : \A i \in DOMAIN pages'[r] :
           (i \in DOMAIN pages[r] /\ pages'[r][i] = pages[r][i])
             \/ (r = q /\ pages'[r][i] = new)
      /\ Dumped(q)' = Dumped(q) \cup {message}
      /\ \A r : r # q => Dumped(r)' = Dumped(r)
  <2>1. pages' = [pages EXCEPT ![q] = Append(@, new)] /\ new \in Entry
    BY <1>1, <1>6
  <2>2. /\ pages' \in [DOMAIN pages -> Seq(Entry)] /\ DOMAIN pages' = DOMAIN pages
        /\ \A r \in DOMAIN pages : \A i \in DOMAIN pages'[r] :
             (i \in DOMAIN pages[r] /\ pages'[r][i] = pages[r][i])
               \/ (r = q /\ pages'[r][i] = new)
        /\ Dumped(q)' = Dumped(q) \cup {new.msg}
        /\ \A r : r # q => Dumped(r)' = Dumped(r)
    BY <1>3, <2>1, NewEntry
  <2>3. QED
    BY <1>6, <2>2
<1>8. \A d \in loading' :
        \/ d \in loading
        \/ /\ d \in [target : Target, what : Message \cup Peer]
           /\ d.target[1] = Avatars /\ Taken(d.target)
        \/ /\ message \in WithMedia
           /\ d \in [target : Target, what : Message \cup Peer]
           /\ d.target = name /\ d.what = message
  <2>1. ASSUME NEW r \in Sender[message], NEW d \in download_avatar(r)
        PROVE  /\ d \in [target : Target, what : Message \cup Peer]
               /\ d.target[1] = Avatars /\ Taken(d.target)
    BY <1>2, AvatarTyped
  <2>2. ASSUME NEW d, message \in WithMedia, d = Load(link[1], link[2], message)
        PROVE  /\ d \in [target : Target, what : Message \cup Peer]
               /\ d.target = name /\ d.what = message
    <3>1. <<link[1], link[2]>> = name
      BY <1>0, <1>5, <2>2
    <3>2. d = [target |-> name, what |-> message]
      BY <2>2, <3>1 DEF Load
    <3>3. QED
      BY <1>2, <1>5, <3>2
  <2>3. QED
    BY <1>1, <2>1, <2>2
<1>9. DiskType'
  BY <1>1, <1>7 DEF Inv, TypeOK, DiskType
<1>10. ProcessType'
  <2>1. loading' \subseteq [target : Target, what : Message \cup Peer]
    BY <1>8 DEF Inv, TypeOK, ProcessType
  <2>2. pts' \in 0 .. Len(ChatOf)
    BY <1>1, <1>2, MessagesTyped DEF Inv, TypeOK, ProcessType
  <2>3. counts' \in BOOLEAN
    BY <1>1
  <2>4. QED
    BY <1>1, <2>1, <2>2, <2>3 DEF Inv, TypeOK, ProcessType
<1>11. HistoryType'
  BY <1>1, <1>2, <1>4 DEF Inv, TypeOK, HistoryType
<1>12. Phases'
  BY <1>1 DEF Inv, Phases
<1>13. Saved'
  <2>1. \A r : Dumped(r) \subseteq Dumped(r)'
    BY <1>7
  <2>2. ASSUME NEW m \in (1 .. pts') \ NotDumped
        PROVE  m \in skipped' \/ m \in Dumped(ChatOf[m])'
    <3>1. CASE m \in 1 .. pts
      BY <1>1, <2>1, <3>1 DEF Inv, Saved, SavedTo
    <3>2. CASE m \notin 1 .. pts
      <4>1. pts \in Nat
        BY MessagesTyped DEF Inv, TypeOK, ProcessType
      <4>2. counts
        BY <1>1, <2>2, <3>2
      <4>3. pts' = pts + 1 /\ message = pts + 1
        BY <1>1, <4>2 DEF Inv, Phases
      <4>4. m = message
        BY <3>2, <4>1, <4>3
      <4>5. ChatOf[m] = q
        BY <1>0, <4>4
      <4>6. QED
        BY <1>7, <4>4, <4>5
    <3>3. QED
      BY <3>1, <3>2
  <2>3. SavedTo(state)'
    BY <1>1, <2>1 DEF Inv, Saved, SavedTo
  <2>4. QED
    BY <2>2, <2>3 DEF Saved, SavedTo
<1>14. Home'
  <2>1. \A t : Taken(t) => Taken(t)'
    <3> SUFFICES ASSUME NEW t, Taken(t) PROVE Taken(t)'
      OBVIOUS
    <3>1. t \in Target /\ (t[1] # Avatars => t[2] \in Nat /\ t[2] < rands)
      BY DEF Taken, Target
    <3>2. t[1] # Avatars => t[2] < rands'
      BY <1>2, <1>4, <3>1
    <3>3. QED
      BY <3>1, <3>2 DEF Taken
  <2>2. ~Taken(name)
    BY <1>2, <1>5 DEF Taken
  <2>3. message \in WithMedia => Taken(name)'
    BY <1>4, <1>5 DEF Taken
  <2>4. \A d \in loading' : Taken(d.target)'
    BY <1>8, <2>1, <2>3 DEF Inv, Home
  <2>5. \A t \in fetched' : Taken(t)'
    BY <1>1, <2>1 DEF Inv, Home
  <2>6. ASSUME NEW e, e.run = starts, e.link # <<>>,
               \/ e = new
               \/ /\ Taken(e.link) /\ e.link[1] # Avatars
                  /\ \A d \in loading : d.target = e.link => d.what = e.msg
                  /\ e.link \in fetched => files[e.link] = e.msg
        PROVE  /\ Taken(e.link)' /\ e.link[1] # Avatars
               /\ \A d \in loading' : d.target = e.link => d.what = e.msg
               /\ e.link \in fetched' => files'[e.link] = e.msg
    <3>1. CASE e = new
      <4>1. e.link = name /\ e.msg = message /\ message \in WithMedia
        BY <1>6, <2>6, <3>1
      <4>2. \A d \in loading' : d.target = name => d.what = message
        BY <1>5, <1>8, <2>2 DEF Inv, Home
      <4>3. name \notin fetched'
        BY <1>1, <2>2 DEF Inv, Home
      <4>4. QED
        BY <1>5, <2>3, <4>1, <4>2, <4>3
    <3>2. CASE /\ Taken(e.link) /\ e.link[1] # Avatars
               /\ \A d \in loading : d.target = e.link => d.what = e.msg
               /\ e.link \in fetched => files[e.link] = e.msg
      <4>1. e.link # name
        BY <2>2, <3>2
      <4>2. \A d \in loading' : d.target = e.link => d.what = e.msg
        BY <1>8, <3>2, <4>1
      <4>3. QED
        BY <1>1, <2>1, <3>2, <4>2
    <3>3. QED
      BY <2>6, <3>1, <3>2
  <2>7. ASSUME NEW r \in DOMAIN pages', NEW i \in DOMAIN pages'[r], NEW e, e = pages'[r][i]
        PROVE  /\ e.run <= starts'
               /\ pc' # "down" /\ e.run = starts' /\ e.link # <<>> =>
                    /\ Taken(e.link)' /\ e.link[1] # Avatars
                    /\ \A d \in loading' : d.target = e.link => d.what = e.msg
                    /\ e.link \in fetched' => files'[e.link] = e.msg
    <3>1. CASE e = new
      BY <1>1, <1>2, <1>6, <2>6, <3>1
    <3>2. CASE i \in DOMAIN pages[r] /\ e = pages[r][i]
      <4>1. /\ e.run <= starts
            /\ e.run = starts /\ e.link # <<>> =>
                 /\ Taken(e.link) /\ e.link[1] # Avatars
                 /\ \A d \in loading : d.target = e.link => d.what = e.msg
                 /\ e.link \in fetched => files[e.link] = e.msg
        BY <1>1, <1>7, <3>2 DEF Inv, Home
      <4>2. QED
        BY <1>1, <2>6, <4>1
    <3>3. QED
      BY <1>7, <2>7, <3>1, <3>2
  <2>8. QED
    BY <2>4, <2>5, <2>7 DEF Home
<1>15. Lists'
  <2>1. PICK l : l = list
    OBVIOUS
  <2>2. Current = l /\ Current' = l
    BY <1>1, <2>1 DEF Current
  <2>3. ASSUME ~cut PROVE Uncut'
    <3>1. Uncut /\ "list" \in exists /\ Complete(l)
      BY <1>3, <2>2, <2>3 DEF Inv, Lists, Uncut
    <3>2. 2 \in 2 .. Len(l) /\ NumberIn(l[2]) = Number[q]
      <4>1. Len(l) > 1 /\ NumberIn(l[2]) = Number[q]
        BY <1>0, <1>1, <2>2, <3>1 DEF Uncut, Tops
      <4>2. Len(l) \in Nat
        BY <2>1, LenProperties DEF Inv, TypeOK, DiskType
      <4>3. QED
        BY <4>1, <4>2
    <3>3. \A r \in Peer : Dumped(r)' # {} =>
            Dumped(r) # {} \/ \E i \in 2 .. Len(l) : NumberIn(l[i]) = Number[r]
      BY <1>7, <3>2
    <3>4. Complete(l)'
      BY <3>1, <3>3, CompleteStays
    <3>5. Complete(Current)'
      BY <2>2, <3>4 DEF Complete
    <3>6. QED
      BY <1>1, <3>1, <3>5 DEF Uncut
  <2>4. ASSUME cut PROVE CutOff'
    BY <1>1, <2>4 DEF Inv, Lists, CutOff
  <2>5. QED
    BY <1>1, <2>3, <2>4 DEF Lists
<1>16. QED
  BY <1>9, <1>10, <1>11, <1>12, <1>13, <1>14, <1>15 DEF Inv, TypeOK

LEMMA NextInv ==
  ASSUME Inv, [Next]_vars
  PROVE  Inv'
<1>1. CASE start \/ kill \/ print_user_update_gw
  BY <1>1, StartKeeps, KillKeeps, UpdateKeeps
<1>2. CASE \E d \in loading : download_callback(d)
  BY <1>2, CallbackKeeps
<1>3. CASE print_message_gw \/ print_msg_list_gw
  BY <1>3, PrintKeeps
<1>4. CASE initiate_html \/ initialize_frameset
  BY <1>4, InitiateKeeps, FramesetKeeps
<1>5. CASE add_to_list \/ no_list
  BY <1>5, AddKeeps, NoListKeeps
<1>6. CASE write_list \/ append_html \/ write_state_file
  BY <1>6, WriteListKeeps, AppendKeeps, WriteStateKeeps
<1>7. CASE UNCHANGED vars
  <2>1. UNCHANGED <<exists, pages, list, files, state, pc, message, counts, lines, loading,
                    pts, written, rands, starts, skipped, cut, fetched>>
    BY <1>7 DEF vars
  <2>2. TypeOK'
    BY <2>1 DEF Inv, TypeOK, DiskType, ProcessType, HistoryType
  <2>3. Phases' /\ Saved'
    BY <2>1, SamePages DEF Inv, Phases, Saved, SavedTo
  <2>4. Home'
    BY <2>1 DEF Inv, Home, Taken
  <2>5. Lists'
    <3>1. Current' = Current
      BY <2>1 DEF Current
    <3>2. Complete(Current)' <=> Complete(Current)
      BY <2>1, <3>1 DEF Complete, Dumped
    <3>3. Tops(Current, ChatOf[message])' <=> Tops(Current, ChatOf[message])
      BY <2>1, <3>1 DEF Tops
    <3>4. QED
      BY <2>1, <3>1, <3>2, <3>3 DEF Inv, Lists, Uncut, CutOff
  <2>6. QED
    BY <2>2, <2>3, <2>4, <2>5 DEF Inv
<1>8. QED
  BY <1>1, <1>2, <1>3, <1>4, <1>5, <1>6, <1>7 DEF Next

-----------------------------------------------------------------------------
(* The theorems. *)

(* The invariant holds: phases, what is saved, names and lists. *)
THEOREM InvCorrect == Spec => []Inv
<1>1. Init => Inv
  BY InitInv
<1>2. Inv /\ [Next]_vars => Inv'
  BY NextInv
<1>3. QED
  BY <1>1, <1>2, PTL DEF Spec

(* Pages, list, files and the array of add_to_list have their types, and   *)
(* what was fetched in this run is there (telegrab.c:66).                  *)
THEOREM TypeCorrect == Spec => []TypeOK
<1>1. Inv => TypeOK
  BY DEF Inv
<1>2. QED
  BY <1>1, InvCorrect, PTL

(* A message that the state file counts was dumped to its page, if one of  *)
(* its kind is dumped at all, at whatever point the process was killed     *)
(* (loop.c:441), for any number of messages and starts.                    *)
THEOREM SavedCorrect == Spec => []NeverLost
<1>1. Inv => NeverLost
  BY DEF Inv, Saved, SavedTo, NeverLost
<1>2. QED
  BY <1>1, InvCorrect, PTL

(* In one run a link leads to what was downloaded for its message          *)
(* (telegrab.c:82): the names made of rand never meet, and never the names *)
(* of avatars.                                                             *)
THEOREM LinksCorrect == Spec => []LinksLeadHome
<1>1. Inv => LinksLeadHome
  <2> SUFFICES ASSUME Inv, NEW q \in DOMAIN pages, NEW i \in DOMAIN pages[q],
                      NEW e, e = pages[q][i], e.run = starts, e.link \in fetched
               PROVE  files[e.link] = e.msg
    BY DEF LinksLeadHome
  <2>1. pc # "down"
    BY DEF Inv, Phases
  <2>2. e.link \in Target
    BY DEF Inv, Home, Taken
  <2>3. e.link # <<>>
    <3>1. PICK a \in {Avatars} \cup Peer, b \in Nat : e.link = <<a, b>>
      BY <2>2 DEF Target
    <3>2. QED
      BY <3>1
  <2>4. QED
    BY <2>1, <2>3 DEF Inv, Home
<1>2. QED
  BY <1>1, InvCorrect, PTL

(* A list of which no write was cut off has each chat that was dumped to   *)
(* exactly once, and the chat of the message that is dumped at the top,    *)
(* wherever else the process was killed (telegrab-html.c:229 and 287).     *)
THEOREM ListedCorrect == Spec => []Listed
<1>1. Inv => Listed
  <2> SUFFICES ASSUME Inv PROVE Listed
    OBVIOUS
  <2>1. ~cut /\ pc = "append" => Tops(list, ChatOf[message])
    BY DEF Inv, Lists, Uncut, Current
  <2>2. ASSUME ~cut, pc \in {"idle", "down"}, NEW q \in Peer, Dumped(q) # {}
        PROVE  /\ list[1] = Total(Len(list) - 1)
               /\ Cardinality({i \in 2 .. Len(list) : NumberIn(list[i]) = Number[q]}) = 1
    <3>1. "list" \in exists
      BY <2>2 DEF Inv, Lists, Uncut, Dumped
    <3>2. Complete(list)
      BY <2>2, <3>1 DEF Inv, Lists, Uncut, Current
    <3>3. PICK k \in 2 .. Len(list) : NumberIn(list[k]) = Number[q]
      BY <2>2, <3>2 DEF Complete
    <3>4. {i \in 2 .. Len(list) : NumberIn(list[i]) = Number[q]} = {k}
      BY <3>2, <3>3 DEF Complete
    <3>5. QED
      BY <3>2, <3>4, FS_Singleton DEF Complete
  <2>3. QED
    BY <2>1, <2>2 DEF Listed, Tops
<1>2. QED
  BY <1>1, InvCorrect, PTL
=============================================================================
