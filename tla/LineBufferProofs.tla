-------------------------- MODULE LineBufferProofs --------------------------
(***************************************************************************)
(* Theorems of LineBuffer for every buffer size and every bound on what    *)
(* the client sends.                                                       *)
(***************************************************************************)
EXTENDS LineBuffer, SequenceTheorems, TLAPS

(* in_buf holds the bytes that were taken and have not left yet. *)
Window == /\ taken = base + in_buf_pos
          /\ \A i \in 0 .. in_buf_pos - 1 : in_buf[i] = sent[base + i + 1]

(* It starts at the beginning of a line. *)
AtLineStart == base = 0 \/ sent[base] = Newline

(* The part of in_buf that was scanned has no newline, and when the scan   *)
(* is over it was all of it.                                               *)
Scanned == /\ \A i \in 0 .. pos - 1 : in_buf[i] # Newline
           /\ pc = "idle" => pos = in_buf_pos
           /\ pc = "scan" /\ ~ok /\ in_buf_pos < Size => taken = Len(sent)
           /\ pc = "idle" /\ in_buf_pos < Size => taken = Len(sent)

(* An error means a full buffer without a newline. *)
ErrorMeansFull == /\ error => /\ in_buf_pos = Size
                              /\ ~ok
                              /\ \A i \in Index : in_buf[i] # Newline
                  /\ pc = "idle" /\ in_buf_pos = Size => error

(* The lines interpreted are those that ended in the bytes that have left. *)
Interpreted == \A a, b \in Nat :
                 <<a, b>> \in lines <=> (b < base /\ IsLine(sent, a, b))

Inv == TypeOK /\ Window /\ AtLineStart /\ Scanned /\ ErrorMeansFull /\ Interpreted

-----------------------------------------------------------------------------
(* What is sent next changes nothing of what was sent before. *)
LEMMA Appended ==
  ASSUME NEW s \in Seq(Byte), NEW chunk \in Chunk
  PROVE  /\ s \o chunk \in Seq(Byte)
         /\ Len(s \o chunk) = Len(s) + Len(chunk)
         /\ Len(chunk) \in Nat
         /\ \A i \in 1 .. Len(s) : (s \o chunk)[i] = s[i]
<1>1. PICK n \in 1 .. MaxSent : chunk \in [1 .. n -> Byte]
  BY DEF Chunk
<1>2. chunk \in Seq(Byte)
  BY <1>1, LineBufferAssumption DEF LineBufferAssumption
<1>3. QED
  BY <1>2, ConcatProperties, LenProperties

LEMMA SameLines ==
  ASSUME NEW s \in Seq(Byte), NEW chunk \in Chunk,
         NEW a \in Nat, NEW b \in Nat, b < Len(s)
  PROVE  IsLine(s, a, b) <=> IsLine(s \o chunk, a, b)
<1>1. Len(s) \in Nat
  BY LenProperties
<1>2. QED
  BY <1>1, Appended DEF IsLine

LEMMA ReadKeeps ==
  ASSUME Inv, NEW chunk \in Chunk, read_incoming(chunk)
  PROVE  Inv'
<1>0. Len(sent) \in Nat /\ base + in_buf_pos <= Len(sent) /\ in_buf_pos \in Nat
      /\ base \in Nat
  BY LenProperties, LineBufferAssumption DEF LineBufferAssumption, Inv, TypeOK, Window
<1>1. /\ sent' \in Seq(Byte) /\ Len(sent') \in Nat /\ Len(sent') >= Len(sent)
      /\ \A i \in 1 .. Len(sent) : sent'[i] = sent[i]
  BY <1>0, Appended DEF read_incoming, Inv, TypeOK
<1>2. TypeOK'
  BY <1>0, <1>1 DEF read_incoming, Inv, TypeOK
<1>3. Window'
  BY <1>0, <1>1 DEF read_incoming, Inv, Window
<1>4. AtLineStart'
  BY <1>0, <1>1 DEF read_incoming, Inv, AtLineStart
<1>5. Scanned' /\ ErrorMeansFull'
  BY DEF read_incoming, Inv, Scanned, ErrorMeansFull
<1>6. Interpreted'
  <2> SUFFICES ASSUME NEW a \in Nat, NEW b \in Nat
               PROVE  <<a, b>> \in lines <=> (b < base /\ IsLine(sent', a, b))
    BY DEF read_incoming, Interpreted
  <2>1. b < base => (IsLine(sent, a, b) <=> IsLine(sent', a, b))
    BY <1>0, SameLines DEF read_incoming, Inv, TypeOK
  <2>2. QED
    BY <2>1 DEF Inv, Interpreted
<1>7. QED
  BY <1>2, <1>3, <1>4, <1>5, <1>6 DEF Inv

LEMMA LeastIs ==
  ASSUME NEW m \in Int, NEW k \in Int
  PROVE  /\ Least(m, k) \in Int /\ Least(m, k) <= m /\ Least(m, k) <= k
         /\ Least(m, k) = m \/ Least(m, k) = k
BY DEF Least

LEMMA FillKeeps ==
  ASSUME Inv, bufferevent_read
  PROVE  Inv'
<1> DEFINE n == Least(Size - in_buf_pos, Len(sent) - taken)
<1>0. /\ Len(sent) \in Nat /\ in_buf_pos \in Nat /\ base \in Nat /\ Size \in Nat
      /\ taken \in Nat /\ taken = base + in_buf_pos
      /\ taken <= Len(sent) /\ in_buf_pos <= Size
  BY LenProperties, LineBufferAssumption DEF LineBufferAssumption, Inv, TypeOK, Window
<1>1. n \in Nat /\ in_buf_pos + n <= Size /\ taken + n <= Len(sent)
      /\ (in_buf_pos + n = Size \/ taken + n = Len(sent))
  <2>1. Size - in_buf_pos \in Int /\ Len(sent) - taken \in Int
    BY <1>0
  <2>2. /\ n \in Int /\ n <= Size - in_buf_pos /\ n <= Len(sent) - taken
        /\ n = Size - in_buf_pos \/ n = Len(sent) - taken
    BY <2>1, LeastIs
  <2> HIDE DEF n
  <2>3. QED
    BY <1>0, <2>2
<1>2. /\ in_buf_pos' = in_buf_pos + n /\ taken' = taken + n
      /\ in_buf' = [i \in Index |->
                     IF i \in in_buf_pos .. in_buf_pos + n - 1
                       THEN sent[taken + (i - in_buf_pos) + 1] ELSE in_buf[i]]
      /\ pc' = "scan" /\ pos' = 0 /\ ok' = FALSE
      /\ UNCHANGED <<sent, error, base, lines>>
  BY DEF bufferevent_read
<1>2a. /\ in_buf_pos' = in_buf_pos + n /\ taken' = taken + n
       /\ pc' = "scan" /\ pos' = 0 /\ ok' = FALSE
       /\ sent' = sent /\ error' = error /\ base' = base /\ lines' = lines
  BY <1>2
<1> HIDE DEF n
<1>3. \A i \in Index : in_buf'[i] = IF i \in in_buf_pos .. in_buf_pos + n - 1
                                    THEN sent[base + i + 1] ELSE in_buf[i]
  <2> SUFFICES ASSUME NEW i \in Index
               PROVE  in_buf'[i] = IF i \in in_buf_pos .. in_buf_pos + n - 1
                                     THEN sent[base + i + 1] ELSE in_buf[i]
    OBVIOUS
  <2>1. taken + (i - in_buf_pos) + 1 = base + i + 1
    BY <1>0 DEF Index
  <2>2. QED
    BY <1>2, <2>1
<1>4. TypeOK'
  <2>1. \A i \in Index : in_buf'[i] \in Byte \cup {Blank}
    <3> SUFFICES ASSUME NEW i \in Index PROVE in_buf'[i] \in Byte \cup {Blank}
      OBVIOUS
    <3>1. CASE i \in in_buf_pos .. in_buf_pos + n - 1
      <4>1. base + i + 1 \in 1 .. Len(sent)
        BY <1>0, <1>1, <3>1 DEF Index
      <4>2. sent[base + i + 1] \in Byte
        BY <4>1, ElementOfSeq DEF Inv, TypeOK
      <4>3. QED
        BY <1>3, <3>1, <4>2
    <3>2. CASE i \notin in_buf_pos .. in_buf_pos + n - 1
      BY <1>3, <3>2 DEF Inv, TypeOK
    <3>3. QED
      BY <3>1, <3>2
  <2>2. in_buf' \in [Index -> Byte \cup {Blank}]
    BY <1>2, <2>1
  <2>3. taken' \in 0 .. Len(sent') /\ in_buf_pos' \in 0 .. Size
        /\ pos' \in 0 .. in_buf_pos' /\ base' \in Nat
    BY <1>0, <1>1, <1>2a
  <2>4. /\ sent' \in Seq(Byte) /\ error' \in BOOLEAN /\ ok' \in BOOLEAN
        /\ lines' \subseteq Nat \X Nat /\ pc' \in {"idle", "fill", "scan"}
    BY <1>2a DEF Inv, TypeOK
  <2>5. QED
    BY <2>2, <2>3, <2>4 DEF TypeOK
<1>5. Window'
  <2>1. ASSUME NEW i \in 0 .. in_buf_pos + n - 1 PROVE in_buf'[i] = sent[base + i + 1]
    BY <1>0, <1>1, <1>3, <2>1 DEF Index, Inv, Window
  <2>2. taken' = base' + in_buf_pos'
    BY <1>0, <1>1, <1>2a
  <2>3. ASSUME NEW i \in 0 .. in_buf_pos' - 1
        PROVE  in_buf'[i] = sent'[base' + i + 1]
    <3>1. i \in 0 .. in_buf_pos + n - 1
      BY <1>0, <1>1, <1>2a, <2>3
    <3>2. in_buf'[i] = sent[base + i + 1]
      BY <3>1, <2>1
    <3>3. QED
      BY <3>2, <1>2a
  <2>4. QED
    BY <2>2, <2>3 DEF Window
<1>6. AtLineStart'
  BY <1>2 DEF Inv, AtLineStart
<1>7. Scanned'
  BY <1>0, <1>1, <1>2 DEF Scanned
<1>8. ErrorMeansFull'
  <2>1. ASSUME error PROVE n = 0 /\ in_buf_pos = Size
    BY <1>0, <1>1, <2>1 DEF Inv, ErrorMeansFull
  <2>2. ASSUME error PROVE \A i \in Index : in_buf'[i] # Newline
    BY <1>0, <1>3, <2>1, <2>2 DEF Inv, ErrorMeansFull
  <2>3. QED
    BY <1>0, <1>2, <2>1, <2>2 DEF ErrorMeansFull
<1>9. Interpreted'
  BY <1>2 DEF Inv, Interpreted
<1>10. QED
  BY <1>4, <1>5, <1>6, <1>7, <1>8, <1>9 DEF Inv

LEMMA ByteKeeps ==
  ASSUME Inv, scan_byte
  PROVE  Inv'
<1>0. pos \in Nat /\ pos + 1 \in 0 .. in_buf_pos
  BY LineBufferAssumption DEF LineBufferAssumption, Inv, TypeOK, scan_byte
<1>1. TypeOK'
  BY <1>0 DEF scan_byte, Inv, TypeOK
<1>2. Window' /\ AtLineStart' /\ Interpreted' /\ ErrorMeansFull'
  BY DEF scan_byte, Inv, Window, AtLineStart, Interpreted, ErrorMeansFull
<1>3. \A i \in 0 .. pos : in_buf[i] # Newline
  BY <1>0 DEF scan_byte, Inv, Scanned
<1>4. Scanned'
  <2>1. pos' - 1 = pos
    BY <1>0 DEF scan_byte
  <2>2. QED
    BY <1>3, <2>1 DEF scan_byte, Inv, Scanned
<1>5. QED
  BY <1>1, <1>2, <1>4 DEF Inv

(* The line that ends at pos is the one line that ends in the bytes that   *)
(* leave with it.                                                          *)
LEMMA NextLine ==
  ASSUME Inv, pc = "scan", pos < in_buf_pos, in_buf[pos] = Newline,
         NEW a \in Nat, NEW b \in Nat, b < base + pos + 1, b >= base
  PROVE  IsLine(sent, a, b) <=> a = base /\ b = base + pos
<1>0. /\ Len(sent) \in Nat /\ in_buf_pos \in Nat /\ base \in Nat /\ pos \in Nat
      /\ base + in_buf_pos <= Len(sent)
  BY LenProperties, LineBufferAssumption DEF LineBufferAssumption, Inv, TypeOK, Window
<1>1. sent[base + pos + 1] = Newline
  BY <1>0 DEF Inv, Window
<1>2. ASSUME NEW j \in base + 1 .. base + pos PROVE sent[j] # Newline
  <2>1. j - base - 1 \in 0 .. pos - 1 /\ j - base - 1 \in 0 .. in_buf_pos - 1
        /\ base + (j - base - 1) + 1 = j
    BY <1>0
  <2>2. in_buf[j - base - 1] # Newline
    BY <2>1 DEF Inv, Scanned
  <2>3. in_buf[j - base - 1] = sent[base + (j - base - 1) + 1]
    BY <2>1 DEF Inv, Window
  <2>4. QED
    BY <2>1, <2>2, <2>3
<1>3. base = 0 \/ sent[base] = Newline
  BY DEF Inv, AtLineStart
<1>4. ASSUME a = base, b = base + pos PROVE IsLine(sent, a, b)
  BY <1>0, <1>1, <1>2, <1>3, <1>4 DEF IsLine
<1>5. ASSUME IsLine(sent, a, b) PROVE a = base /\ b = base + pos
  <2>1. b = base + pos
    <3>1. sent[b + 1] = Newline
      BY <1>5 DEF IsLine
    <3>2. b + 1 \notin base + 1 .. base + pos
      BY <1>2, <3>1
    <3>3. QED
      BY <1>0, <3>2
  <2>2. ~(a > base)
    <3>1. SUFFICES ASSUME a > base PROVE FALSE
      OBVIOUS
    <3>2. a \in base + 1 .. base + pos /\ a # 0
      BY <1>0, <1>5, <2>1, <3>1 DEF IsLine
    <3>3. sent[a] = Newline
      BY <1>5, <3>2 DEF IsLine
    <3>4. QED
      BY <1>2, <3>2, <3>3
  <2>3. ~(a < base)
    <3>1. SUFFICES ASSUME a < base PROVE FALSE
      OBVIOUS
    <3>2. base \in a + 1 .. b /\ base # 0
      BY <1>0, <3>1
    <3>3. sent[base] # Newline
      BY <1>5, <3>2 DEF IsLine
    <3>4. QED
      BY <1>3, <3>2, <3>3
  <2>4. QED
    BY <1>0, <2>1, <2>2, <2>3
<1>6. QED
  BY <1>4, <1>5

LEMMA NewlineKeeps ==
  ASSUME Inv, scan_newline
  PROVE  Inv'
<1>0. /\ Len(sent) \in Nat /\ in_buf_pos \in Nat /\ base \in Nat /\ pos \in Nat
      /\ taken = base + in_buf_pos /\ taken <= Len(sent)
      /\ in_buf_pos <= Size /\ Size \in Nat /\ pos < in_buf_pos
  BY LenProperties, LineBufferAssumption
     DEF LineBufferAssumption, Inv, TypeOK, Window, scan_newline
<1>1. ~error
  BY <1>0 DEF Inv, ErrorMeansFull, scan_newline, Index
<1>2. /\ in_buf_pos' = in_buf_pos - (pos + 1) /\ base' = base + pos + 1 /\ pos' = 0
      /\ ok' = TRUE /\ lines' = lines \cup {<<base, base + pos>>}
      /\ error' = error /\ sent' = sent /\ taken' = taken /\ pc' = pc /\ pc = "scan"
      /\ in_buf[pos] = Newline
  BY <1>1 DEF scan_newline
<1>3. in_buf' = [i \in Index |-> IF i < in_buf_pos' THEN in_buf[pos + 1 + i]
                                ELSE in_buf[i]]
  BY DEF scan_newline
<1>4. TypeOK'
  <2>1. ASSUME NEW i \in Index PROVE in_buf'[i] \in Byte \cup {Blank}
    <3>1. CASE i < in_buf_pos'
      <4>1. pos + 1 + i \in Index
        BY <1>0, <1>2, <3>1 DEF Index
      <4>2. QED
        BY <1>3, <3>1, <4>1 DEF Inv, TypeOK
    <3>2. CASE ~(i < in_buf_pos')
      BY <1>3, <3>2 DEF Inv, TypeOK
    <3>3. QED
      BY <3>1, <3>2
  <2>2. in_buf' \in [Index -> Byte \cup {Blank}]
    BY <1>3, <2>1
  <2>3. /\ in_buf_pos' \in 0 .. Size /\ base' \in Nat /\ pos' \in 0 .. in_buf_pos'
        /\ taken' \in 0 .. Len(sent') /\ <<base, base + pos>> \in Nat \X Nat
    BY <1>0, <1>2
  <2>4. /\ sent' \in Seq(Byte) /\ error' \in BOOLEAN /\ ok' \in BOOLEAN
        /\ lines' \subseteq Nat \X Nat /\ pc' \in {"idle", "fill", "scan"}
    BY <1>2, <2>3 DEF Inv, TypeOK
  <2>5. QED
    BY <2>2, <2>3, <2>4 DEF TypeOK
<1>5. Window'
  <2>1. taken' = base' + in_buf_pos'
    BY <1>0, <1>2
  <2>2. ASSUME NEW i \in 0 .. in_buf_pos' - 1
        PROVE  in_buf'[i] = sent'[base' + i + 1]
    <3>1. /\ i \in Index /\ i < in_buf_pos' /\ pos + 1 + i \in 0 .. in_buf_pos - 1
          /\ base + (pos + 1 + i) + 1 = base' + i + 1
      BY <1>0, <1>2, <2>2 DEF Index
    <3>2. in_buf'[i] = in_buf[pos + 1 + i]
      BY <1>3, <3>1
    <3>3. in_buf[pos + 1 + i] = sent[base + (pos + 1 + i) + 1]
      BY <3>1 DEF Inv, Window
    <3>4. QED
      BY <1>2, <3>1, <3>2, <3>3
  <2>3. QED
    BY <2>1, <2>2 DEF Window
<1>6. AtLineStart'
  <2>1. in_buf[pos] = sent[base + pos + 1]
    BY <1>0 DEF Inv, Window
  <2>2. QED
    BY <1>2, <2>1 DEF AtLineStart
<1>7. Scanned'
  BY <1>2 DEF Scanned
<1>8. ErrorMeansFull'
  BY <1>1, <1>2 DEF ErrorMeansFull
<1>9. Interpreted'
  <2> SUFFICES ASSUME NEW a \in Nat, NEW b \in Nat
               PROVE  <<a, b>> \in lines' <=> (b < base' /\ IsLine(sent, a, b))
    BY <1>2 DEF Interpreted
  <2>1. <<a, b>> \in lines <=> (b < base /\ IsLine(sent, a, b))
    BY DEF Inv, Interpreted
  <2>2. <<a, b>> \in lines' <=> <<a, b>> \in lines \/ (a = base /\ b = base + pos)
    BY <1>2
  <2>3. CASE b < base
    BY <1>0, <1>2, <2>1, <2>2, <2>3
  <2>4. CASE b >= base /\ b < base'
    <3>1. IsLine(sent, a, b) <=> a = base /\ b = base + pos
      BY <1>0, <1>2, <2>4, NextLine
    <3>2. QED
      BY <1>0, <2>1, <2>2, <2>4, <3>1
  <2>5. CASE b >= base'
    BY <1>0, <1>2, <2>1, <2>2, <2>5
  <2>6. QED
    BY <1>0, <1>2, <2>3, <2>4, <2>5
<1>10. QED
  BY <1>4, <1>5, <1>6, <1>7, <1>8, <1>9 DEF Inv

LEMMA EndKeeps ==
  ASSUME Inv, scan_end
  PROVE  Inv'
<1>0. /\ in_buf_pos \in Nat /\ pos \in Nat /\ pos = in_buf_pos /\ in_buf_pos <= Size
      /\ Size \in Nat
  BY LineBufferAssumption DEF LineBufferAssumption, Inv, TypeOK, scan_end
<1>1. Window' /\ AtLineStart' /\ Interpreted'
  BY DEF scan_end, Inv, Window, AtLineStart, Interpreted
<1>2. TypeOK'
  <2>1. error' \in BOOLEAN
    BY Zenon DEF scan_end, Inv, TypeOK
  <2>2. QED
    BY <2>1 DEF scan_end, Inv, TypeOK
<1>3. Scanned'
  BY <1>0 DEF scan_end, Inv, Scanned
<1>4. ErrorMeansFull'
  <2>1. CASE ok
    BY <2>1 DEF scan_end, Inv, ErrorMeansFull
  <2>2. CASE ~ok
    <3>1. error' <=> in_buf_pos = Size
      BY <2>2 DEF scan_end, Inv, ErrorMeansFull
    <3>2. in_buf_pos = Size => \A i \in Index : in_buf[i] # Newline
      BY <1>0 DEF Inv, Scanned, Index
    <3>3. QED
      BY <2>2, <3>1, <3>2 DEF scan_end, ErrorMeansFull
  <2>3. QED
    BY <2>1, <2>2
<1>5. QED
  BY <1>1, <1>2, <1>3, <1>4 DEF Inv

-----------------------------------------------------------------------------
(* The invariant of the buffer: it is a window on what the client sent,    *)
(* from the beginning of a line on (loop.c:691-725).                       *)
THEOREM InvCorrect == Spec => []Inv
<1>1. Init => Inv
  <2> SUFFICES ASSUME Init PROVE Inv
    OBVIOUS
  <2>1. sent \in Seq(Byte) /\ Len(sent) = 0
    BY EmptySeq DEF Init
  <2>2. TypeOK
    <3>1. error \in BOOLEAN /\ ok \in BOOLEAN /\ in_buf \in [Index -> Byte \cup {Blank}]
      BY Zenon DEF Init
    <3>2. QED
      BY <2>1, <3>1, LineBufferAssumption DEF LineBufferAssumption, Init, TypeOK
  <2>3. Window /\ AtLineStart /\ Scanned
    BY <2>1, LineBufferAssumption
       DEF LineBufferAssumption, Init, Window, AtLineStart, Scanned
  <2>4. ErrorMeansFull
    BY LineBufferAssumption DEF LineBufferAssumption, Init, ErrorMeansFull
  <2>5. Interpreted
    BY DEF Init, Interpreted
  <2>6. QED
    BY <2>2, <2>3, <2>4, <2>5 DEF Inv
<1>2. Inv /\ [Next]_vars => Inv'
  <2>1. Inv /\ Next => Inv'
    BY ReadKeeps, FillKeeps, ByteKeeps, NewlineKeeps, EndKeeps DEF Next
  <2>2. Inv /\ UNCHANGED vars => Inv'
    BY DEF vars, Inv, TypeOK, Window, AtLineStart, Scanned, ErrorMeansFull,
           Interpreted
  <2>3. QED
    BY <2>1, <2>2
<1>3. QED
  BY <1>1, <1>2, PTL DEF Spec

(* The state has its type: in particular in_buf_pos never leaves the       *)
(* buffer, however much data one event brings (loop.c:695, 715).           *)
THEOREM TypeCorrect == Spec => []TypeOK
BY InvCorrect, PTL DEF Inv

(* However the data is cut, only whole lines of the client are interpreted. *)
THEOREM OnlyLinesCorrect == Spec => []OnlyLines
<1>1. Inv => OnlyLines
  BY DEF Inv, TypeOK, Interpreted, OnlyLines
<1>2. QED
  BY <1>1, InvCorrect, PTL

(* And all complete ones are, when the callback returns without an error.  *)
THEOREM AllLinesCorrect == Spec => []AllLines
<1>1. Inv => AllLines
  <2> SUFFICES ASSUME Inv, pc = "idle", ~error
               PROVE  /\ taken = Len(sent)
                      /\ \A a, b \in 0 .. Len(sent) :
                           IsLine(sent, a, b) => <<a, b>> \in lines
    BY DEF AllLines
  <2>0. /\ Len(sent) \in Nat /\ in_buf_pos \in Nat /\ base \in Nat
        /\ in_buf_pos <= Size /\ Size \in Nat /\ taken = base + in_buf_pos
    BY LenProperties, LineBufferAssumption
       DEF LineBufferAssumption, Inv, TypeOK, Window
  <2>1. taken = Len(sent) /\ pos = in_buf_pos
    BY <2>0 DEF Inv, ErrorMeansFull, Scanned
  <2>2. ASSUME NEW a \in 0 .. Len(sent), NEW b \in 0 .. Len(sent),
               IsLine(sent, a, b)
        PROVE  b < base
    <3>1. SUFFICES ASSUME b >= base PROVE FALSE
      BY <2>0
    <3>2. b - base \in 0 .. in_buf_pos - 1 /\ base + (b - base) + 1 = b + 1
      BY <2>0, <2>1, <2>2, <3>1 DEF IsLine
    <3>3. in_buf[b - base] = sent[base + (b - base) + 1]
      BY <3>2 DEF Inv, Window
    <3>4. in_buf[b - base] # Newline
      BY <2>1, <3>2 DEF Inv, Scanned
    <3>5. QED
      BY <2>2, <3>2, <3>3, <3>4 DEF IsLine
  <2>3. QED
    BY <2>0, <2>1, <2>2 DEF Inv, Interpreted
<1>2. QED
  BY <1>1, InvCorrect, PTL

(* Only a line longer than the buffer, newline and all, is an error.       *)
THEOREM ErrorCorrect == Spec => []ErrorMeansTooLong
<1>1. Inv => ErrorMeansTooLong
  <2> SUFFICES ASSUME Inv, error
               PROVE  \E a \in 0 .. Len(sent) - Size :
                        \A j \in a + 1 .. a + Size : sent[j] # Newline
    BY DEF ErrorMeansTooLong
  <2>0. /\ Len(sent) \in Nat /\ base \in Nat /\ Size \in Nat /\ in_buf_pos = Size
        /\ taken = base + in_buf_pos /\ taken <= Len(sent)
    BY LenProperties, LineBufferAssumption
       DEF LineBufferAssumption, Inv, TypeOK, Window, ErrorMeansFull
  <2>1. ASSUME NEW j \in base + 1 .. base + Size PROVE sent[j] # Newline
    <3>1. /\ j - base - 1 \in Index /\ j - base - 1 \in 0 .. in_buf_pos - 1
          /\ base + (j - base - 1) + 1 = j
      BY <2>0, <2>1 DEF Index
    <3>2. QED
      BY <3>1 DEF Inv, ErrorMeansFull, Window
  <2>2. base \in 0 .. Len(sent) - Size
    BY <2>0
  <2>3. QED
    BY <2>1, <2>2
<1>2. QED
  BY <1>1, InvCorrect, PTL

(* And after it no line of the connection is interpreted any more.         *)
THEOREM ErrorStays == Spec => ErrorIsForever
<1>1. Inv /\ [Next]_vars => [error => error' /\ lines' = lines]_vars
  <2> SUFFICES ASSUME Inv, Next, error PROVE error' /\ lines' = lines
    OBVIOUS
  <2>1. CASE scan_newline
    <3>1. pos \in Index
      BY <2>1, LineBufferAssumption
         DEF LineBufferAssumption, Inv, TypeOK, scan_newline, Index
    <3>2. QED
      BY <2>1, <3>1 DEF scan_newline, Inv, ErrorMeansFull
  <2>2. CASE ~scan_newline
    BY <2>2 DEF Next, read_incoming, bufferevent_read, scan_byte, scan_end
  <2>3. QED
    BY <2>1, <2>2
<1>2. QED
  BY <1>1, InvCorrect, PTL DEF Spec, ErrorIsForever
=============================================================================
