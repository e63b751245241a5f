----------------------------- MODULE LineBuffer -----------------------------
(***************************************************************************)
(* How the bytes of a control connection become command lines: the input   *)
(* buffer of struct in_ev (interface.h:65) and read_incoming (loop.c:691). *)
(* Data comes in chunks; libevent keeps what bufferevent_read has not yet  *)
(* taken, and calls back only when more data comes.                        *)
(*                                                                         *)
(* Only newlines matter here.  What the client has sent is kept in full,   *)
(* and a line that was interpreted is recorded by the positions around it, *)
(* so that it can be compared with the lines the client meant.             *)
(***************************************************************************)
EXTENDS Integers, Sequences

CONSTANTS Size,        \* sizeof (ev->in_buf), 4096
          MaxSent,     \* bound on the bytes a client sends
          Blank        \* what an in_buf fresh from malloc holds

Newline == "newline"
Byte == {Newline, "other"}

ASSUME LineBufferAssumption ==
  Size \in Nat \ {0} /\ MaxSent \in Nat /\ Blank \notin Byte

VARIABLES
  sent,          \* all bytes that reached the process on this connection
  taken,         \* how many of them bufferevent_read has returned
  in_buf, in_buf_pos, error,     \* the fields of struct in_ev
  pc,            \* "idle": no callback; "fill": before a bufferevent_read;
                 \* "scan": in the inner loop
  pos, ok,       \* the local variables of read_incoming
  base,          \* how many bytes have left in_buf
  lines          \* <<a, b>>: the bytes after the a first ones, up to the
                 \* b-th, were interpreted as a line

vars == <<sent, taken, in_buf, in_buf_pos, error, pc, pos, ok, base, lines>>

Index == 0 .. Size - 1

TypeOK ==
  /\ sent \in Seq(Byte)
  /\ taken \in 0 .. Len(sent)
  /\ in_buf \in [Index -> Byte \cup {Blank}]
  /\ in_buf_pos \in 0 .. Size
  /\ error \in BOOLEAN
  /\ pc \in {"idle", "fill", "scan"}
  /\ pos \in 0 .. in_buf_pos
  /\ ok \in BOOLEAN
  /\ base \in Nat
  /\ lines \subseteq Nat \X Nat

(* accept_incoming *)
Init ==
  /\ sent = <<>> /\ taken = 0
  /\ in_buf = [i \in Index |-> Blank] /\ in_buf_pos = 0 /\ error = FALSE
  /\ pc = "idle" /\ pos = 0 /\ ok = FALSE
  /\ base = 0 /\ lines = {}

(* A chunk of data arrives, and libevent calls back. *)
read_incoming(chunk) ==
  /\ pc = "idle"
  /\ Len(sent) + Len(chunk) <= MaxSent
  /\ sent' = sent \o chunk
  /\ pc' = "fill"
  /\ UNCHANGED <<taken, in_buf, in_buf_pos, error, pos, ok, base, lines>>

Least(m, n) == IF m <= n THEN m ELSE n

(* A mutant: every read starts at the beginning of in_buf. *)
bufferevent_read_at_start ==
  /\ pc = "fill"
  /\ LET n == Least(Size - in_buf_pos, Len(sent) - taken)
     IN /\ in_buf' = [i \in Index |-> IF i < n THEN sent[taken + i + 1]
                                      ELSE in_buf[i]]
        /\ in_buf_pos' = in_buf_pos + n
        /\ taken' = taken + n
  /\ pc' = "scan" /\ pos' = 0 /\ ok' = FALSE
  /\ UNCHANGED <<sent, error, base, lines>>

(* A mutant: all that libevent has is read, whether there is room or not. *)
bufferevent_read_all ==
  /\ pc = "fill"
  /\ in_buf_pos' = in_buf_pos + Len(sent) - taken
  /\ in_buf' = [i \in Index |->
                  IF i \in in_buf_pos .. in_buf_pos' - 1
                    THEN sent[taken + (i - in_buf_pos) + 1] ELSE in_buf[i]]
  /\ taken' = Len(sent)
  /\ pc' = "scan" /\ pos' = 0 /\ ok' = FALSE
  /\ UNCHANGED <<sent, error, base, lines>>

(* bufferevent_read fills up in_buf, and the scan starts. *)
bufferevent_read ==
  /\ pc = "fill"
  /\ LET n == Least(Size - in_buf_pos, Len(sent) - taken)
     IN /\ in_buf' = [i \in Index |->
                        IF i \in in_buf_pos .. in_buf_pos + n - 1
                          THEN sent[taken + (i - in_buf_pos) + 1]
                          ELSE in_buf[i]]
        /\ in_buf_pos' = in_buf_pos + n
        /\ taken' = taken + n
  /\ pc' = "scan" /\ pos' = 0 /\ ok' = FALSE
  /\ UNCHANGED <<sent, error, base, lines>>

scan_byte ==
  /\ pc = "scan" /\ pos < in_buf_pos /\ in_buf[pos] # Newline
  /\ pos' = pos + 1
  /\ UNCHANGED <<sent, taken, in_buf, in_buf_pos, error, pc, ok, base, lines>>

(* A line ends at pos: interpreter_ex gets it, unless it is the rest of a  *)
(* line that was too long, and what follows moves to the front (memmove).  *)
scan_newline ==
  /\ pc = "scan" /\ pos < in_buf_pos /\ in_buf[pos] = Newline
  /\ IF error THEN error' = FALSE /\ UNCHANGED lines
     ELSE lines' = lines \cup {<<base, base + pos>>} /\ UNCHANGED error
  /\ ok' = TRUE
  /\ in_buf_pos' = in_buf_pos - (pos + 1)
  /\ in_buf' = [i \in Index |-> IF i < in_buf_pos' THEN in_buf[pos + 1 + i]
                                ELSE in_buf[i]]
  /\ base' = base + pos + 1
  /\ pos' = 0
  /\ UNCHANGED <<sent, taken, pc>>

(* Mutants: the callback returns although it made room; a buffer that is   *)
(* nearly full counts as full; and a full buffer is emptied.               *)
scan_end_returns ==
  /\ pc = "scan" /\ pos >= in_buf_pos
  /\ pc' = "idle" /\ error' = (error \/ (~ok /\ in_buf_pos = Size))
  /\ UNCHANGED <<sent, taken, in_buf, in_buf_pos, pos, ok, base, lines>>

scan_end_early ==
  /\ pc = "scan" /\ pos >= in_buf_pos
  /\ IF ok THEN pc' = "fill" /\ UNCHANGED error
     ELSE pc' = "idle" /\ error' = (error \/ in_buf_pos >= Size - 1)
  /\ UNCHANGED <<sent, taken, in_buf, in_buf_pos, pos, ok, base, lines>>

scan_end_empties ==
  /\ pc = "scan" /\ pos >= in_buf_pos
  /\ IF ok THEN pc' = "fill" /\ UNCHANGED <<error, in_buf_pos, base, pos>>
     ELSE /\ pc' = "idle" /\ error' = (error \/ in_buf_pos = Size)
          /\ in_buf_pos' = IF in_buf_pos = Size THEN 0 ELSE in_buf_pos
          /\ base' = base + in_buf_pos - in_buf_pos'
          /\ pos' = 0
  /\ UNCHANGED <<sent, taken, in_buf, ok, lines>>

(* No line is left.  After one, there is room to read again; a full buffer *)
(* without any is an error.                                                *)
scan_end ==
  /\ pc = "scan" /\ pos >= in_buf_pos
  /\ IF ok THEN pc' = "fill" /\ UNCHANGED error
     ELSE pc' = "idle" /\ error' = (error \/ in_buf_pos = Size)
  /\ UNCHANGED <<sent, taken, in_buf, in_buf_pos, pos, ok, base, lines>>

(* What one event brings: at least a byte, and maybe more than in_buf holds. *)
Chunk == UNION {[1 .. n -> Byte] : n \in 1 .. MaxSent}

Next == \/ \E chunk \in Chunk : read_incoming(chunk)
        \/ bufferevent_read
        \/ scan_byte \/ scan_newline \/ scan_end

Spec == Init /\ [][Next]_vars

-----------------------------------------------------------------------------
(* Properties. *)

(* The bytes after the a first ones, up to the b-th, are a line of s. *)
IsLine(s, a, b) ==
  /\ a <= b /\ b < Len(s)
  /\ a = 0 \/ s[a] = Newline
  /\ \A j \in a + 1 .. b : s[j] # Newline
  /\ s[b + 1] = Newline

(* However the data is cut into chunks, only lines the client sent are     *)
(* interpreted, each in full and not joined with another (loop.c:699-712). *)
OnlyLines == \A l \in lines : IsLine(sent, l[1], l[2])

(* And none is left over: when the callback returns without an error,      *)
(* every line that is complete has been interpreted, and libevent keeps    *)
(* nothing that no callback would come for (loop.c:714).                   *)
AllLines ==
  (pc = "idle" /\ ~error) =>
    /\ taken = Len(sent)
    /\ \A a, b \in 0 .. Len(sent) : IsLine(sent, a, b) => <<a, b>> \in lines

(* Only a line that does not fit in the buffer with its newline is an      *)
(* error: one of Size - 1 bytes is not (loop.c:717).                       *)
ErrorMeansTooLong ==
  error => \E a \in 0 .. Len(sent) - Size :
             \A j \in a + 1 .. a + Size : sent[j] # Newline

(* The error is never left: a full buffer takes in nothing, so the newline *)
(* that would end the long line is never seen, and no later line of the    *)
(* connection is interpreted (loop.c:695 and 705).                         *)
ErrorIsForever == [][error => error' /\ lines' = lines]_vars
=============================================================================
