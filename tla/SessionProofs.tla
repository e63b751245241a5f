---------------------------- MODULE SessionProofs ---------------------------
(***************************************************************************)
(* Theorems of Session for every set of handles, every finite set of query *)
(* slots and every bound.                                                  *)
(***************************************************************************)
EXTENDS Session, FiniteSetTheorems, TLAPS

(* While a read callback of a process that is no daemon runs, the          *)
(* connection it reads from stays open.                                    *)
ReaderOpen == (~daemonize /\ pc # "loop" /\ cur \in Handle) => bev[cur]

(* The count as a number, so that one fact says how a step changes it. *)
Held(e) == One(bev[e]) + One(notify_ev = e) + Cardinality(Asked(e)) + lost[e]

Inv == TypeOK /\ HandleCounted /\ ReaderOpen /\ FaultOnlyByDaemonQuit

-----------------------------------------------------------------------------
(* The beginning of a quit command keeps the type of the handles. *)
LEMMA Quitting ==
  ASSUME TypeOK, quit_connection
  PROVE  /\ live' \subseteq Handle /\ bev' \in [Handle -> BOOLEAN]
         /\ refcnt' \in [Handle -> Int] /\ UNCHANGED <<notify_ev, extra, lost>>
<1>1. CASE UNCHANGED handles
  BY <1>1 DEF TypeOK, handles
<1>2. CASE cur # NoEv /\ close_incoming(cur)
  BY <1>2 DEF TypeOK, close_incoming, release
<1>3. QED
  BY <1>1, <1>2 DEF quit_connection

(* The initial state has its type. *)
LEMMA InitType == Init => TypeOK
<1> SUFFICES ASSUME Init PROVE TypeOK
  OBVIOUS
<1>1. /\ daemonize \in BOOLEAN /\ in_chat_mode \in BOOLEAN /\ ran \in BOOLEAN
      /\ safe_quit \in BOOLEAN /\ fault \in BOOLEAN
      /\ bev \in [Handle -> BOOLEAN]
  BY Zenon DEF Init
<1>2. QED
  BY <1>1, SessionAssumption DEF SessionAssumption, Init, TypeOK, Command, Signal

(* And no action of the loop, of the interpreter or of a command leaves it. *)
LEMMA NextType == TypeOK /\ [Next]_vars => TypeOK'
<1> SUFFICES ASSUME TypeOK, [Next]_vars PROVE TypeOK'
  OBVIOUS
<1> USE SessionAssumption DEF SessionAssumption, TypeOK, handles, reader, process, Running, AtLoop
<1>1. CASE UNCHANGED vars
  BY <1>1 DEF vars
<1>2. ASSUME NEW e \in Handle, accept_incoming(e) PROVE TypeOK'
  BY <1>2 DEF accept_incoming
<1>3. ASSUME NEW e \in Handle, event_incoming(e) PROVE TypeOK'
  BY <1>3 DEF event_incoming, close_incoming, release
<1>4. ASSUME NEW e \in Handle \cup {NoEv}, NEW n \in 0 .. MaxLines,
             start_reading(e, n)
      PROVE  TypeOK'
  BY <1>4 DEF start_reading
<1>5. ASSUME NEW f \in Command, NEW n \in 0 .. MaxCount, interpreter_ex(f, n)
      PROVE  TypeOK'
  BY <1>5 DEF interpreter_ex
<1>6. CASE interpreter_chat_mode
  <2>1. in_chat_mode' \in BOOLEAN
    BY <1>6, Zenon DEF interpreter_chat_mode
  <2>2. UNCHANGED <<live, bev, notify_ev, lost, refcnt>>
        /\ extra' \in [Query -> Handle \cup {NoEv, Idle}]
    BY <1>6 DEF interpreter_chat_mode, issue
  <2>3. lines' \in 0 .. MaxLines
        /\ UNCHANGED <<daemonize, pc, cur, fun, count, process, fault>>
    BY <1>6 DEF interpreter_chat_mode
  <2>4. QED
    BY <2>1, <2>2, <2>3
<1>7. CASE do_plain
  BY <1>7 DEF do_plain, Calling
<1>8. CASE do_query
  BY <1>8 DEF do_query, Calling, issue
<1>9. CASE do_load_photo
  BY <1>9 DEF do_load_photo, Calling, issue
<1>10. CASE do_chat_with_peer
  <2>1. in_chat_mode' \in BOOLEAN
    BY <1>10, Zenon DEF do_chat_with_peer
  <2>2. count' \in 0 .. MaxCount
        /\ UNCHANGED <<daemonize, handles, process, fault, pc, cur, lines, fun>>
    BY <1>10 DEF do_chat_with_peer, Calling
  <2>3. QED
    BY <2>1, <2>2
<1>11. CASE do_main_session
  <2>1. CASE fault' = TRUE /\ UNCHANGED handles
    BY <1>11, <2>1 DEF do_main_session, Calling
  <2>2. CASE ~(fault' = TRUE /\ UNCHANGED handles)
    BY <1>11, <2>2 DEF do_main_session, Calling
  <2> QED BY <2>1, <2>2
<1>12. CASE do_quit
  <2>1. fault' \in BOOLEAN /\ safe_quit' \in BOOLEAN
    BY <1>12, Zenon DEF do_quit, quit_connection
  <2>2. live' \subseteq Handle /\ bev' \in [Handle -> BOOLEAN]
        /\ refcnt' \in [Handle -> Int] /\ UNCHANGED <<notify_ev, extra, lost>>
    BY <1>12, Quitting DEF do_quit
  <2>3. exited' \in {"no", "quit", "safe_quit", "sigterm", "killed"}
    BY <1>12 DEF do_quit, do_halt
  <2>4. count' \in 0 .. MaxCount
        /\ UNCHANGED <<daemonize, pc, cur, lines, fun, in_chat_mode, sigterm, ran>>
    BY <1>12 DEF do_quit, Calling
  <2>5. QED
    BY <2>1, <2>2, <2>3, <2>4
<1>13. CASE do_safe_quit
  <2>1. fault' \in BOOLEAN /\ safe_quit' \in BOOLEAN
    BY <1>13, Zenon DEF do_safe_quit, quit_connection
  <2>2. live' \subseteq Handle /\ bev' \in [Handle -> BOOLEAN]
        /\ refcnt' \in [Handle -> Int] /\ UNCHANGED <<notify_ev, extra, lost>>
    BY <1>13, Quitting DEF do_safe_quit
  <2>3. count' \in 0 .. MaxCount
        /\ UNCHANGED <<daemonize, pc, cur, lines, fun, in_chat_mode, sigterm,
                       ran, exited>>
    BY <1>13 DEF do_safe_quit, Calling
  <2>4. QED
    BY <2>1, <2>2, <2>3
<1>14. CASE return_to_reader \/ use_after_free \/ read_end \/ tick
  BY <1>14 DEF return_to_reader, use_after_free, read_end, tick, Command
<1>15. ASSUME NEW q \in Query, print_gw(q) PROVE TypeOK'
  BY <1>15 DEF print_gw, release
<1>16. ASSUME NEW q \in Query, own_query(q) PROVE TypeOK'
  BY <1>16 DEF own_query, issue
<1>17. ASSUME NEW s \in Signal, sig_term_handler(s) PROVE TypeOK'
  BY <1>17 DEF sig_term_handler
<1>18. CASE net_loop
  BY <1>18 DEF net_loop, do_halt
<1> QED
  BY <1>1, <1>2, <1>3, <1>4, <1>5, <1>6, <1>7, <1>8, <1>9, <1>10, <1>11,
     <1>12, <1>13, <1>14, <1>15, <1>16, <1>17, <1>18
     DEF Next, Call, Stopped, read_incoming, stdin_read_callback

(* The state has its type after every step (loop.c and interface.c). *)
THEOREM TypeCorrect == Spec => []TypeOK
BY InitType, NextType, PTL DEF Spec

-----------------------------------------------------------------------------
(* The queries in flight of one handle are finitely many. *)
LEMMA FibreFinite ==
  ASSUME NEW f, NEW e
  PROVE  /\ IsFiniteSet({q \in Query : f[q] = e})
         /\ Cardinality({q \in Query : f[q] = e}) \in Nat
<1>1. IsFiniteSet({q \in Query : f[q] = e})
  BY SessionAssumption, FS_Subset DEF SessionAssumption
<1>2. QED
  BY <1>1, FS_CardinalityType

LEMMA AskedFinite ==
  ASSUME NEW e
  PROVE  IsFiniteSet(Asked(e)) /\ Cardinality(Asked(e)) \in Nat
BY FibreFinite DEF Asked

(* A query that is issued adds one to those of its handle. *)
LEMMA AskedIssue ==
  ASSUME TypeOK, NEW q \in Query, NEW e \in Handle \cup {NoEv},
         extra[q] = Idle, extra' = [extra EXCEPT ![q] = e], NEW h \in Handle
  PROVE  Cardinality(Asked(h)') = Cardinality(Asked(h)) + One(h = e)
<1>0. q \notin Asked(h)
  BY SessionAssumption DEF SessionAssumption, Asked
<1>1. CASE h = e
  <2>1. Asked(h)' = Asked(h) \cup {q}
    BY <1>1 DEF TypeOK, Asked
  <2>2. QED
    BY <1>0, <1>1, <2>1, AskedFinite, FS_AddElement DEF One
<1>2. CASE h # e
  <2>1. Asked(h)' = Asked(h)
    BY <1>0, <1>2 DEF TypeOK, Asked
  <2>2. QED
    BY <1>2, <2>1, AskedFinite DEF One
<1>3. QED
  BY <1>1, <1>2

(* A query that is answered takes one from those of its handle. *)
LEMMA AskedAnswer ==
  ASSUME TypeOK, NEW q \in Query, extra[q] # Idle,
         extra' = [extra EXCEPT ![q] = Idle], NEW h \in Handle
  PROVE  Cardinality(Asked(h)') = Cardinality(Asked(h)) - One(h = extra[q])
<1>1. CASE h = extra[q]
  <2>1. Asked(h)' = Asked(h) \ {q} /\ q \in Asked(h)
    BY <1>1, SessionAssumption DEF SessionAssumption, TypeOK, Asked
  <2>2. QED
    BY <1>1, <2>1, AskedFinite, FS_RemoveElement DEF One
<1>2. CASE h # extra[q]
  <2>1. Asked(h)' = Asked(h)
    BY <1>2, SessionAssumption DEF SessionAssumption, TypeOK, Asked
  <2>2. QED
    BY <1>2, <2>1, AskedFinite DEF One
<1>3. QED
  BY <1>1, <1>2

(* HandleCounted for one handle. *)
Counted(h) == refcnt[h] = Held(h) /\ (h \in live <=> refcnt[h] > 0)

LEMMA CountedEach == HandleCounted <=> \A h \in Handle : Counted(h)
BY DEF HandleCounted, Counted, Held

(* Issuing a query for a live session keeps the count. *)
LEMMA IssueCounts ==
  ASSUME TypeOK, HandleCounted, NEW q \in Query, NEW e \in live \cup {NoEv},
         issue(q, e)
  PROVE  HandleCounted'
<1> SUFFICES ASSUME NEW h \in Handle PROVE Counted(h)'
  BY DEF HandleCounted, Counted, Held
<1>1. Counted(h) /\ Cardinality(Asked(h)) \in Nat
  BY CountedEach, AskedFinite
<1>2. Cardinality(Asked(h)') = Cardinality(Asked(h)) + One(h = e)
  <2>1. e \in Handle \cup {NoEv} /\ extra[q] = Idle
        /\ extra' = [extra EXCEPT ![q] = e]
    BY DEF issue, TypeOK
  <2>2. QED
    BY <2>1, AskedIssue
<1>3. refcnt'[h] = refcnt[h] + One(h = e)
  BY SessionAssumption DEF SessionAssumption, issue, TypeOK, One
<1>4. Held(h)' = Held(h) + One(h = e)
  BY <1>1, <1>2 DEF issue, TypeOK, Held, One
<1>5. (h \in live)' <=> h \in live
  BY DEF issue
<1>6. QED
  BY <1>1, <1>3, <1>4, <1>5, SessionAssumption
     DEF SessionAssumption, Counted, TypeOK, One

(* So does the end of a connection that is open. *)
LEMMA CloseCounts ==
  ASSUME TypeOK, HandleCounted, NEW e \in Handle, bev[e], close_incoming(e)
  PROVE  HandleCounted'
<1> SUFFICES ASSUME NEW h \in Handle PROVE Counted(h)'
  BY DEF HandleCounted, Counted, Held
<1>1. Counted(h) /\ Cardinality(Asked(h)) \in Nat
  BY CountedEach, AskedFinite
<1>2. refcnt'[h] = refcnt[h] - One(h = e)
  BY DEF close_incoming, release, TypeOK, One
<1>3. Held(h)' = Held(h) - One(h = e)
  BY <1>1 DEF close_incoming, TypeOK, Held, One, Asked
<1>4. h \in live' <=> h \in live /\ ~(h = e /\ refcnt[e] = 1)
  BY DEF close_incoming, release
<1>5. QED
  BY <1>1, <1>2, <1>3, <1>4 DEF Counted, TypeOK, One, Held

(* And the answer to a query. *)
LEMMA AnswerCounts ==
  ASSUME TypeOK, HandleCounted, NEW q \in Query, print_gw(q)
  PROVE  HandleCounted'
<1> SUFFICES ASSUME NEW h \in Handle PROVE Counted(h)'
  BY DEF HandleCounted, Counted, Held
<1>1. Counted(h) /\ Cardinality(Asked(h)) \in Nat /\ Cardinality(Asked(h)') \in Nat
  BY CountedEach, AskedFinite, FibreFinite DEF Asked
<1>2. Cardinality(Asked(h)') = Cardinality(Asked(h)) - One(h = extra[q])
  BY AskedAnswer DEF print_gw
<1>3. refcnt'[h] = refcnt[h] - One(h = extra[q])
  BY SessionAssumption DEF SessionAssumption, print_gw, release, TypeOK, One
<1>4. Held(h)' = Held(h) - One(h = extra[q])
  BY <1>1, <1>2 DEF print_gw, TypeOK, Held, One
<1>5. h \in live' <=> h \in live /\ ~(h = extra[q] /\ refcnt[h] = 1)
  BY SessionAssumption DEF SessionAssumption, print_gw, release, TypeOK
<1>6. QED
  BY <1>1, <1>2, <1>3, <1>4, <1>5 DEF Counted, TypeOK, One, Held

-----------------------------------------------------------------------------
(* Taking notify_ev over keeps the count, of the one session and the other. *)
LEMMA HandOverCounts ==
  ASSUME TypeOK, HandleCounted, do_main_session
  PROVE  HandleCounted'
<1>1. CASE UNCHANGED handles
  BY <1>1 DEF handles, HandleCounted, Asked
<1> DEFINE freed == {e \in {notify_ev} \ {NoEv} : refcnt[e] = 1}
           without == IF notify_ev = NoEv THEN refcnt
                      ELSE [refcnt EXCEPT ![notify_ev] = @ - 1]
<1>2. ASSUME cur \notin freed, cur \in live \cup {NoEv},
             live' = live \ freed,
             refcnt' = IF cur = NoEv THEN without
                       ELSE [without EXCEPT ![cur] = @ + 1],
             notify_ev' = cur, UNCHANGED <<bev, extra, lost>>
      PROVE  HandleCounted'
  <2> SUFFICES ASSUME NEW h \in Handle PROVE Counted(h)'
    BY DEF HandleCounted, Counted, Held
  <2>1. Counted(h) /\ Cardinality(Asked(h)) \in Nat
    BY CountedEach, AskedFinite
  <2>2. without \in [Handle -> Int] /\ without[h] = refcnt[h] - One(notify_ev = h)
    BY SessionAssumption DEF SessionAssumption, TypeOK, One
  <2>3. refcnt'[h] = refcnt[h] - One(notify_ev = h) + One(cur = h)
    BY <1>2, <2>2, SessionAssumption DEF SessionAssumption, TypeOK, One
  <2>4. Held(h)' = Held(h) - One(notify_ev = h) + One(cur = h)
    BY <1>2, <2>1 DEF TypeOK, Held, One, Asked
  <2>5. h \in live' <=> h \in live /\ ~(notify_ev = h /\ refcnt[h] = 1)
    BY <1>2, SessionAssumption DEF SessionAssumption
  <2>6. h = cur => h \in live /\ ~(notify_ev = h /\ refcnt[h] = 1)
    BY <1>2, SessionAssumption DEF SessionAssumption
  <2>7. QED
    BY <2>1, <2>3, <2>4, <2>5, <2>6 DEF Counted, TypeOK, One, Held
<1>3. QED
  BY <1>1, <1>2 DEF do_main_session, Calling

(* A command of a session that lives keeps the count. *)
LEMMA CallCounts ==
  ASSUME TypeOK, HandleCounted, Call
  PROVE  HandleCounted'
<1>0. UNCHANGED handles => HandleCounted'
  BY DEF handles, HandleCounted, Asked
<1>1. CASE do_plain \/ do_chat_with_peer
  BY <1>0, <1>1 DEF do_plain, do_chat_with_peer
<1>2. CASE do_query
  <2>1. CASE UNCHANGED handles
    BY <1>0, <2>1
  <2>2. CASE \E q \in Query : issue(q, cur)
    BY <1>2, <2>2, IssueCounts DEF do_query, Calling
  <2>3. QED
    BY <1>2, <2>1, <2>2 DEF do_query
<1>3. CASE do_load_photo
  <2>1. ASSUME NEW q \in Query, issue(q, cur), cur \in live \cup {NoEv}
        PROVE  HandleCounted'
    BY <2>1, IssueCounts
  <2>2. ASSUME cur \in live, cur # NoEv,
               refcnt' = [refcnt EXCEPT ![cur] = @ + 1],
               lost' = [lost EXCEPT ![cur] = @ + 1],
               UNCHANGED <<live, bev, notify_ev, extra>>
        PROVE  HandleCounted'
    <3> SUFFICES ASSUME NEW h \in Handle PROVE Counted(h)'
      BY DEF HandleCounted, Counted, Held
    <3>1. Counted(h) /\ Cardinality(Asked(h)) \in Nat
      BY CountedEach, AskedFinite
    <3>2. QED
      BY <2>2, <3>1 DEF Counted, Held, TypeOK, One, Asked
  <2>3. QED
    BY <1>0, <1>3, <2>1, <2>2 DEF do_load_photo, Calling
<1>4. CASE do_main_session
  BY <1>4, HandOverCounts
<1>5. CASE quit_connection
  <2>1. ASSUME cur # NoEv, bev[cur], close_incoming(cur) PROVE HandleCounted'
    BY <2>1, CloseCounts DEF TypeOK
  <2>2. QED
    BY <1>0, <1>5, <2>1 DEF quit_connection
<1>6. QED
  BY <1>1, <1>2, <1>3, <1>4, <1>5 DEF Call, do_quit, do_safe_quit

(* The reader's connection can be closed by its own quit only, in a daemon. *)
LEMMA ReaderKept ==
  ASSUME TypeOK, ReaderOpen, Next
  PROVE  ReaderOpen'
<1> USE DEF ReaderOpen
<1>1. ASSUME NEW e \in Handle, accept_incoming(e) PROVE ReaderOpen'
  BY <1>1 DEF accept_incoming, AtLoop, reader
<1>2. ASSUME NEW e \in Handle, event_incoming(e) PROVE ReaderOpen'
  BY <1>2 DEF event_incoming, AtLoop, reader
<1>3. ASSUME NEW e \in Handle, NEW n, read_incoming(e, n) PROVE ReaderOpen'
  BY <1>3 DEF read_incoming, start_reading, handles
<1>4. ASSUME NEW n, stdin_read_callback(n) PROVE ReaderOpen'
  BY <1>4, SessionAssumption DEF SessionAssumption, stdin_read_callback, start_reading
<1>5. ASSUME NEW f, NEW n, interpreter_ex(f, n) PROVE ReaderOpen'
  BY <1>5 DEF interpreter_ex, handles
<1>6. CASE interpreter_chat_mode
  BY <1>6 DEF interpreter_chat_mode, issue, handles
<1>7. CASE Call
  <2>1. UNCHANGED <<daemonize, pc, cur>> /\ (~daemonize => UNCHANGED bev)
    <3>1. UNCHANGED <<daemonize, pc, cur>>
      BY <1>7 DEF Call, do_plain, do_query, do_load_photo, do_chat_with_peer,
                  do_main_session, do_quit, do_safe_quit, Calling
    <3>2. CASE quit_connection
      BY <3>1, <3>2 DEF quit_connection, handles
    <3>3. CASE do_main_session
      BY <3>1, <3>3 DEF do_main_session, handles
    <3>4. CASE do_plain \/ do_query \/ do_load_photo \/ do_chat_with_peer
      BY <3>1, <3>4 DEF do_plain, do_query, do_load_photo, do_chat_with_peer,
                        issue, handles
    <3>5. QED
      BY <1>7, <3>1, <3>2, <3>3, <3>4 DEF Call, do_quit, do_safe_quit
  <2>2. QED
    BY <2>1
<1>8. CASE return_to_reader \/ use_after_free \/ read_end \/ tick \/ net_loop
  BY <1>8 DEF return_to_reader, use_after_free, read_end, tick, net_loop,
              handles, reader
<1>9. ASSUME NEW q \in Query, print_gw(q) \/ own_query(q) PROVE ReaderOpen'
  BY <1>9 DEF print_gw, own_query, AtLoop, reader
<1>10. ASSUME NEW s \in Signal, sig_term_handler(s) PROVE ReaderOpen'
  BY <1>10 DEF sig_term_handler, reader, handles
<1>11. CASE Stopped
  BY <1>11 DEF Stopped, vars, reader, handles
<1>12. QED
  BY <1>1, <1>2, <1>3, <1>4, <1>5, <1>6, <1>7, <1>8, <1>9, <1>10, <1>11 DEF Next

(* Every step keeps the count. *)
LEMMA CountKept ==
  ASSUME TypeOK, HandleCounted, Next
  PROVE  HandleCounted'
<1>0. UNCHANGED handles => HandleCounted'
  BY DEF handles, HandleCounted, Asked
<1>1. ASSUME NEW e \in Handle, accept_incoming(e) PROVE HandleCounted'
  <2> SUFFICES ASSUME NEW h \in Handle PROVE Counted(h)'
    BY DEF HandleCounted, Counted, Held
  <2>1. Counted(h) /\ Counted(e) /\ Cardinality(Asked(h)) \in Nat
        /\ Cardinality(Asked(e)) \in Nat
    BY CountedEach, AskedFinite
  <2>2. refcnt[e] = 0 /\ ~bev[e] /\ notify_ev # e /\ Cardinality(Asked(e)) = 0
        /\ lost[e] = 0
    BY <1>1, <2>1 DEF accept_incoming, Counted, Held, One, TypeOK
  <2>3. Asked(h)' = Asked(h)
    BY <1>1 DEF accept_incoming, Asked
  <2>4. QED
    BY <1>1, <2>1, <2>2, <2>3 DEF accept_incoming, Counted, Held, One, TypeOK
<1>2. ASSUME NEW e \in Handle, event_incoming(e) PROVE HandleCounted'
  BY <1>2, CloseCounts DEF event_incoming
<1>3. CASE interpreter_chat_mode
  <2>1. NoEv \in live \cup {NoEv}
    OBVIOUS
  <2>2. QED
    BY <1>0, <1>3, <2>1, IssueCounts DEF interpreter_chat_mode
<1>4. CASE Call
  BY <1>4, CallCounts
<1>5. ASSUME NEW q \in Query, print_gw(q) PROVE HandleCounted'
  BY <1>5, AnswerCounts
<1>6. ASSUME NEW q \in Query, own_query(q) PROVE HandleCounted'
  <2>1. NoEv \in live \cup {NoEv}
    OBVIOUS
  <2>2. QED
    BY <1>6, <2>1, IssueCounts DEF own_query
<1>7. QED
  BY <1>0, <1>1, <1>2, <1>3, <1>4, <1>5, <1>6
     DEF Next, read_incoming, stdin_read_callback, start_reading, interpreter_ex,
         return_to_reader, use_after_free, read_end, tick, net_loop,
         sig_term_handler, Stopped, vars, handles

(* A fault needs a handle that is freed or NULL, in a daemon. *)
LEMMA FaultKept ==
  ASSUME TypeOK, HandleCounted, ReaderOpen, FaultOnlyByDaemonQuit, Next
  PROVE  FaultOnlyByDaemonQuit'
<1>0. \A h \in Handle : refcnt[h] >= One(bev[h]) + One(notify_ev = h)
                      /\ (bev[h] => h \in live)
  <2> SUFFICES ASSUME NEW h \in Handle
               PROVE  refcnt[h] >= One(bev[h]) + One(notify_ev = h)
                      /\ (bev[h] => h \in live)
    OBVIOUS
  <2>1. Counted(h) /\ Cardinality(Asked(h)) \in Nat
    BY CountedEach, AskedFinite
  <2>2. QED
    BY <2>1 DEF Counted, Held, TypeOK, One
<1>1. CASE UNCHANGED fault
  <2>1. fault => Stopped
    BY DEF Next, Stopped, Call, Running, AtLoop, Calling, accept_incoming,
           event_incoming, read_incoming, stdin_read_callback, start_reading,
           interpreter_ex, interpreter_chat_mode, do_plain, do_query,
           do_load_photo, do_chat_with_peer, do_main_session, do_quit,
           do_safe_quit, return_to_reader, use_after_free, read_end, print_gw,
           own_query, sig_term_handler, tick, net_loop
  <2>2. QED
    BY <1>1, <2>1 DEF FaultOnlyByDaemonQuit, Stopped, vars, handles, reader
<1>2. CASE use_after_free
  BY <1>0, <1>2 DEF use_after_free, handles, reader, FaultOnlyByDaemonQuit,
                    ReaderOpen
<1>3. CASE do_main_session
  <2>1. CASE cur \in {e \in {notify_ev} \ {NoEv} : refcnt[e] = 1}
    <3>1. cur \in Handle /\ refcnt[cur] = 1 /\ notify_ev = cur /\ ~bev[cur]
      BY <1>0, <2>1 DEF TypeOK, One
    <3>2. UNCHANGED <<bev, cur, daemonize>> /\ pc = "call"
      BY <1>3, <2>1 DEF do_main_session, handles, Calling
    <3>3. QED
      BY <3>1, <3>2 DEF FaultOnlyByDaemonQuit, ReaderOpen
  <2>2. QED
    BY <1>1, <1>3, <2>1 DEF do_main_session
<1>4. CASE quit_connection /\ UNCHANGED <<daemonize, cur>>
  BY <1>1, <1>4, SessionAssumption
     DEF SessionAssumption, quit_connection, handles, FaultOnlyByDaemonQuit
<1>5. QED
  BY <1>1, <1>2, <1>3, <1>4
     DEF Next, Stopped, vars, Call, Calling, accept_incoming,
         event_incoming, read_incoming, stdin_read_callback, start_reading,
         interpreter_ex, interpreter_chat_mode, do_plain, do_query,
         do_load_photo, do_chat_with_peer, do_quit, do_safe_quit,
         return_to_reader, read_end, print_gw, own_query, sig_term_handler,
         tick, net_loop

(* The inductive invariant: every reference is one of the holders', in     *)
(* every state of every session and of the reader (loop.c:691-755).        *)
THEOREM InvCorrect == Spec => []Inv
<1>1. Init => Inv
  <2>1. ASSUME Init PROVE HandleCounted
    <3> SUFFICES ASSUME NEW h \in Handle PROVE Counted(h)
      BY DEF HandleCounted, Counted, Held
    <3>1. Asked(h) = {}
      BY <2>1, SessionAssumption DEF SessionAssumption, Init, Asked
    <3>2. QED
      BY <2>1, <3>1, FS_EmptySet, SessionAssumption
         DEF SessionAssumption, Init, Counted, Held, One
  <2>2. Init => TypeOK
    BY InitType
  <2>3. QED
    BY <2>1, <2>2 DEF Init, Inv, ReaderOpen, FaultOnlyByDaemonQuit
<1>2. Inv /\ [Next]_vars => Inv'
  <2>1. CASE Next
    BY <2>1, NextType, CountKept, ReaderKept, FaultKept DEF Inv
  <2>2. CASE UNCHANGED vars
    BY <2>2 DEF vars, handles, reader, process, Inv, TypeOK, HandleCounted, Asked,
                ReaderOpen, FaultOnlyByDaemonQuit
  <2>3. QED
    BY <2>1, <2>2
<1>3. QED
  BY <1>1, <1>2, PTL DEF Spec

(* The reference count of a handle is the number of its holders, and it is *)
(* allocated just while that is positive (loop.c:734, interface.c:2329).   *)
THEOREM CountCorrect == Spec => []HandleCounted
BY InvCorrect, PTL DEF Inv

(* No handle is used after its free, or through NULL, but by a session     *)
(* that quit, in a daemon (interface.c:769-781).                           *)
THEOREM FaultCorrect == Spec => []FaultOnlyByDaemonQuit
BY InvCorrect, PTL DEF Inv

(* While the console chats, the only command that can be running is the    *)
(* one that began the chat, with some repetitions left.                    *)
ChatCommand == in_chat_mode /\ pc = "call" => fun = "chat_with_peer"

LEMMA ChatCommandKept == Spec => []ChatCommand
<1>1. Init => ChatCommand
  BY DEF Init, ChatCommand
<1>2. ChatCommand /\ [Next]_vars => ChatCommand'
  <2> SUFFICES ASSUME ChatCommand, [Next]_vars PROVE ChatCommand'
    OBVIOUS
  <2> USE DEF ChatCommand, reader
  <2>1. CASE Call
    BY <2>1 DEF Call, Calling, do_plain, do_query, do_load_photo, do_chat_with_peer,
                do_main_session, do_quit, do_safe_quit
  <2>2. CASE UNCHANGED vars
    BY <2>2 DEF vars
  <2>3. CASE \/ \E f \in Command, n \in 0 .. MaxCount : interpreter_ex(f, n)
             \/ interpreter_chat_mode \/ return_to_reader \/ read_end
    BY <2>3 DEF interpreter_ex, interpreter_chat_mode, return_to_reader, read_end
  <2>4. CASE \/ \E e \in Handle, n \in 0 .. MaxLines : read_incoming(e, n)
             \/ \E n \in 0 .. MaxLines : stdin_read_callback(n)
    BY <2>4 DEF read_incoming, stdin_read_callback, start_reading
  <2>5. CASE \/ \E e \in Handle : accept_incoming(e) \/ event_incoming(e)
             \/ \E q \in Query : print_gw(q) \/ own_query(q)
             \/ \E s \in Signal : sig_term_handler(s)
             \/ use_after_free \/ tick \/ net_loop \/ Stopped
    BY <2>5 DEF accept_incoming, event_incoming, print_gw, own_query, sig_term_handler,
                use_after_free, tick, net_loop, Stopped, vars
  <2>6. QED
    BY <2>1, <2>2, <2>3, <2>4, <2>5 DEF Next
<1>3. QED
  BY <1>1, <1>2, PTL DEF Spec

(* While the console chats, no line of a session takes the updates over    *)
(* or asks the program to quit (interface.c:3393).                         *)
THEOREM ChatModeCorrect == Spec => ChatModeShields
<1> DEFINE Shielded == /\ notify_ev' = notify_ev
                       /\ safe_quit' => safe_quit
                       /\ exited' # "quit" \/ exited = "quit"
<1> DEFINE Same == /\ notify_ev' = notify_ev
                   /\ safe_quit' = safe_quit \/ safe_quit' = FALSE
                   /\ exited' = exited \/ exited' # "quit"
<1>1. ChatCommand /\ [Next]_vars => [in_chat_mode => Shielded]_vars
  <2> SUFFICES ASSUME ChatCommand, in_chat_mode, [Next]_vars PROVE Same
    BY Zenon
  <2> USE DEF ChatCommand, handles, process
  <2>1. CASE Call
    <3>1. fun = "chat_with_peer"
      BY <2>1 DEF Call, Calling, do_plain, do_query, do_load_photo, do_chat_with_peer,
                  do_main_session, do_quit, do_safe_quit
    <3>2. do_chat_with_peer
      BY <2>1, <3>1 DEF Call, Calling, do_plain, do_query, do_load_photo,
                        do_main_session, do_quit, do_safe_quit
    <3>3. QED
      BY <3>2 DEF do_chat_with_peer
  <2>2. CASE UNCHANGED vars
    BY <2>2 DEF vars
  <2>3. CASE \/ \E f \in Command, n \in 0 .. MaxCount : interpreter_ex(f, n)
             \/ interpreter_chat_mode \/ return_to_reader \/ read_end
    <3>1. CASE interpreter_chat_mode
      BY <3>1 DEF interpreter_chat_mode, issue
    <3>2. CASE return_to_reader \/ read_end
      BY <3>2 DEF return_to_reader, read_end
    <3>3. CASE \E f \in Command, n \in 0 .. MaxCount : interpreter_ex(f, n)
      BY <3>3 DEF interpreter_ex
    <3>4. QED
      BY <2>3, <3>1, <3>2, <3>3
  <2>4. CASE \/ \E e \in Handle, n \in 0 .. MaxLines : read_incoming(e, n)
             \/ \E n \in 0 .. MaxLines : stdin_read_callback(n)
    BY <2>4 DEF read_incoming, stdin_read_callback, start_reading
  <2>5. CASE \/ \E e \in Handle : accept_incoming(e) \/ event_incoming(e)
             \/ \E q \in Query : print_gw(q) \/ own_query(q)
    BY <2>5 DEF accept_incoming, event_incoming, close_incoming, print_gw, own_query, issue
  <2>6. CASE \/ \E s \in Signal : sig_term_handler(s)
             \/ use_after_free \/ tick \/ net_loop \/ Stopped
    BY <2>6 DEF sig_term_handler, use_after_free, tick, net_loop, do_halt, Stopped, vars
  <2>7. QED
    BY <2>1, <2>2, <2>3, <2>4, <2>5, <2>6 DEF Next
<1>2. QED
  BY <1>1, ChatCommandKept, PTL DEF Spec, ChatModeShields

-----------------------------------------------------------------------------
(***************************************************************************)
(* Session implements SharedHandle: whatever a step does to the counts of  *)
(* the handles is one holder of SharedHandle coming, going or changing     *)
(* hands, or nothing.                                                      *)
(***************************************************************************)
(* A handle is held by nobody, in the sense of SharedHandle, just when its *)
(* count is that of its lost references.                                   *)
LEMMA HeldByNobody ==
  ASSUME TypeOK, HandleCounted, NEW h \in Handle
  PROVE  /\ Holders(h) = {} <=> refcnt[h] = lost[h]
         /\ h \in live <=> (Holders(h) # {} \/ lost[h] > 0)
         /\ \A k : Holders(h) = {k} => refcnt[h] = lost[h] + 1
<1>1. Counted(h) /\ IsFiniteSet(Asked(h)) /\ Cardinality(Asked(h)) \in Nat
  BY CountedEach, AskedFinite
<1>2. Cardinality(Asked(h)) = 0 <=> Asked(h) = {}
  BY <1>1, FS_EmptySet
<1>3. Holders(h) = {} <=> ~bev[h] /\ notify_ev # h /\ Asked(h) = {}
  BY DEF Holders
<1>4. ASSUME NEW k, Holders(h) = {k} PROVE refcnt[h] = lost[h] + 1
  <2>1. "conn" \notin Asked(h) /\ "notify" \notin Asked(h)
    BY SessionAssumption DEF SessionAssumption, Asked
  <2>2. CASE k = "conn"
    <3>1. bev[h] /\ notify_ev # h /\ Asked(h) = {}
      BY <1>4, <2>1, <2>2 DEF Holders
    <3>2. QED
      BY <1>1, <1>2, <3>1 DEF Counted, Held, One, TypeOK
  <2>3. CASE k = "notify"
    <3>1. ~bev[h] /\ notify_ev = h /\ Asked(h) = {}
      BY <1>4, <2>1, <2>3 DEF Holders
    <3>2. QED
      BY <1>1, <1>2, <3>1 DEF Counted, Held, One, TypeOK
  <2>4. CASE k # "conn" /\ k # "notify"
    <3>1. ~bev[h] /\ notify_ev # h /\ Asked(h) = {k}
      BY <1>4, <2>4 DEF Holders
    <3>2. Cardinality(Asked(h)) = 1
      BY <3>1, FS_Singleton
    <3>3. QED
      BY <1>1, <3>1, <3>2 DEF Counted, Held, One, TypeOK
  <2>5. QED
    BY <2>2, <2>3, <2>4
<1>5. Holders(h) = {} <=> refcnt[h] = lost[h]
  <2>1. Holders(h) = {} => refcnt[h] = lost[h]
    BY <1>1, <1>2, <1>3 DEF Counted, Held, One, TypeOK
  <2>2. refcnt[h] = lost[h] => Holders(h) = {}
    BY <1>1, <1>2, <1>3 DEF Counted, Held, One, TypeOK
  <2>3. QED
    BY <2>1, <2>2
<1>6. h \in live <=> (Holders(h) # {} \/ lost[h] > 0)
  <2>1. refcnt[h] >= lost[h] /\ lost[h] \in Nat /\ refcnt[h] \in Int
    BY <1>1, SessionAssumption DEF SessionAssumption, Counted, Held, One, TypeOK
  <2>2. h \in live <=> refcnt[h] > 0
    BY <1>1 DEF Counted
  <2>3. QED
    BY <1>5, <2>1, <2>2
<1>7. QED
  BY <1>4, <1>5, <1>6

(* A holder of a handle whose count is one is its only one. *)
LEMMA HeldOnce ==
  ASSUME TypeOK, HandleCounted, NEW h \in Handle, NEW k \in Holders(h),
         refcnt[h] = 1
  PROVE  Holders(h) = {k} /\ lost[h] = 0
<1>1. Counted(h) /\ IsFiniteSet(Asked(h)) /\ Cardinality(Asked(h)) \in Nat
  BY CountedEach, AskedFinite
<1>2. Cardinality(Asked(h)) = 0 <=> Asked(h) = {}
  BY <1>1, FS_EmptySet
<1>3. lost[h] \in Nat
  BY SessionAssumption DEF SessionAssumption, TypeOK
<1>4. One(bev[h]) + One(notify_ev = h) + Cardinality(Asked(h)) + lost[h] = 1
  BY <1>1 DEF Counted, Held
<1>5. CASE k \in Asked(h)
  <2>1. Cardinality(Asked(h)) # 0
    BY <1>2, <1>5
  <2>2. ~bev[h] /\ notify_ev # h /\ Cardinality(Asked(h)) = 1 /\ lost[h] = 0
    BY <1>1, <1>3, <1>4, <2>1 DEF One
  <2>3. Asked(h) = {k}
    <3>1. PICK x : Asked(h) = {x}
      BY <1>1, <2>2, FS_Singleton
    <3>2. QED
      BY <1>5, <3>1
  <2>4. QED
    BY <2>2, <2>3 DEF Holders
<1>6. CASE k \notin Asked(h)
  <2>1. bev[h] \/ notify_ev = h
    BY <1>6 DEF Holders
  <2>2. Cardinality(Asked(h)) = 0 /\ lost[h] = 0 /\ ~(bev[h] /\ notify_ev = h)
    BY <1>1, <1>3, <1>4, <2>1 DEF One
  <2>3. QED
    BY <1>2, <2>1, <2>2 DEF Holders
<1>7. QED
  BY <1>5, <1>6

(* The abstract state, by name. *)
HolderMap == [e \in Handle |-> Holders(e)]
Pinned    == {e \in Handle : lost[e] > 0}

(* A query issued for a session is a new holder of its handle. *)
LEMMA IssueRefines ==
  ASSUME TypeOK, NEW q \in Query, NEW e \in live \cup {NoEv}, issue(q, e)
  PROVE  Shared!Next \/ UNCHANGED <<live, HolderMap, Pinned>>
<1>1. UNCHANGED <<live, Pinned>>
  BY DEF issue, Pinned
<1>2. \A h \in Handle : Holders(h)' = IF h = e THEN Holders(h) \cup {q} ELSE Holders(h)
  <2> SUFFICES ASSUME NEW h \in Handle
               PROVE Holders(h)' = IF h = e THEN Holders(h) \cup {q} ELSE Holders(h)
    OBVIOUS
  <2>1. Asked(h)' = IF h = e THEN Asked(h) \cup {q} ELSE Asked(h)
    BY SessionAssumption DEF SessionAssumption, issue, Asked, TypeOK
  <2>2. QED
    BY <2>1 DEF Holders, issue
<1>3. CASE e = NoEv
  <2>1. HolderMap' = HolderMap
    BY <1>2, <1>3, SessionAssumption DEF SessionAssumption, HolderMap
  <2>2. QED
    BY <1>1, <2>1
<1>4. CASE e # NoEv
  <2>1. e \in Handle /\ e \in live
    BY <1>4 DEF TypeOK
  <2>2. q \notin Holders(e)
    BY SessionAssumption DEF SessionAssumption, Holders, Asked, issue, TypeOK
  <2>3. HolderMap' = [HolderMap EXCEPT ![e] = @ \cup {q}]
    BY <1>2, <2>1 DEF HolderMap
  <2>4. Shared!Take(e, q)
    BY <1>1, <2>1, <2>2, <2>3 DEF Shared!Take, HolderMap, Pinned
  <2>5. QED
    BY <2>1, <2>4 DEF Shared!Next, Shared!Holder
<1>5. QED
  BY <1>3, <1>4

(* A holder that leaves is dropped, and frees the handle if it is the last. *)
LEMMA DropRefines ==
  ASSUME TypeOK, HandleCounted, NEW e \in Handle, NEW k \in Holders(e),
         release(e), UNCHANGED lost,
         \A h \in Handle :
           Holders(h)' = IF h = e THEN Holders(h) \ {k} ELSE Holders(h)
  PROVE  Shared!Drop(e, k)
<1>1. UNCHANGED Pinned
  BY DEF Pinned
<1>2. HolderMap' = [HolderMap EXCEPT ![e] = @ \ {k}]
  BY DEF HolderMap
<1>3. e \in live
  BY HeldByNobody
<1>4. refcnt[e] \in Int /\ lost[e] \in Nat
  BY SessionAssumption DEF SessionAssumption, TypeOK
<1>5. refcnt[e] = 1 <=> Holders(e) = {k} /\ lost[e] = 0
  <2>1. ASSUME Holders(e) = {k}, lost[e] = 0 PROVE refcnt[e] = 1
    BY <2>1, HeldByNobody
  <2>2. ASSUME refcnt[e] = 1 PROVE Holders(e) = {k} /\ lost[e] = 0
    BY <2>2, HeldOnce
  <2>3. QED
    BY <2>1, <2>2
<1>6. live' = IF Holders(e) = {k} /\ e \notin Pinned THEN live \ {e} ELSE live
  BY <1>4, <1>5 DEF release, Pinned
<1>7. QED
  BY <1>1, <1>2, <1>3, <1>6 DEF Shared!Drop, HolderMap, Pinned

(* The end of a connection. *)
LEMMA CloseRefines ==
  ASSUME TypeOK, HandleCounted, NEW e \in Handle, bev[e], close_incoming(e)
  PROVE  Shared!Next
<1>1. "conn" \in Holders(e)
  BY DEF Holders
<1>2. ASSUME NEW h \in Handle
      PROVE  Holders(h)' = IF h = e THEN Holders(h) \ {"conn"} ELSE Holders(h)
  <2>1. Asked(h)' = Asked(h) /\ "conn" \notin Asked(h)
    BY SessionAssumption DEF SessionAssumption, close_incoming, Asked
  <2>2. bev'[h] = IF h = e THEN FALSE ELSE bev[h]
    BY DEF close_incoming, TypeOK
  <2>3. QED
    BY <2>1, <2>2 DEF Holders, close_incoming
<1>3. Shared!Drop(e, "conn")
  BY <1>1, <1>2, DropRefines DEF close_incoming
<1>4. QED
  BY <1>3 DEF Shared!Next, Shared!Holder

(* The answer to a query. *)
LEMMA AnswerRefines ==
  ASSUME TypeOK, HandleCounted, NEW q \in Query, print_gw(q)
  PROVE  Shared!Next \/ UNCHANGED <<live, HolderMap, Pinned>>
<1> DEFINE e == extra[q]
<1>1. UNCHANGED <<bev, notify_ev, lost, Pinned>>
  BY DEF print_gw, Pinned
<1>2. ASSUME NEW h \in Handle
      PROVE  Holders(h)' = IF h = e THEN Holders(h) \ {q} ELSE Holders(h)
  <2>1. Asked(h)' = IF h = e THEN Asked(h) \ {q} ELSE Asked(h)
    BY SessionAssumption DEF SessionAssumption, print_gw, Asked, TypeOK
  <2>2. QED
    BY <1>1, <2>1, SessionAssumption DEF SessionAssumption, Holders
<1>3. CASE e = NoEv
  <2>1. HolderMap' = HolderMap
    BY <1>2, <1>3, SessionAssumption DEF SessionAssumption, HolderMap
  <2>2. QED
    BY <1>1, <1>3, <2>1 DEF print_gw
<1>4. CASE e # NoEv
  <2>1. e \in Handle /\ release(e) /\ q \in Holders(e)
    BY <1>4 DEF print_gw, TypeOK, Holders, Asked
  <2>2. Shared!Drop(e, q)
    BY <1>1, <1>2, <2>1, DropRefines
  <2>3. QED
    BY <2>1, <2>2 DEF Shared!Next, Shared!Holder
<1>5. QED
  BY <1>3, <1>4

(* Taking the updates over: a holder comes, goes or moves. *)
LEMMA HandOverRefines ==
  ASSUME TypeOK, HandleCounted, do_main_session
  PROVE  Shared!Next \/ UNCHANGED <<live, HolderMap, Pinned>>
<1> DEFINE freed == {e \in {notify_ev} \ {NoEv} : refcnt[e] = 1}
           g == notify_ev
<1>1. CASE UNCHANGED handles
  BY <1>1 DEF handles, HolderMap, Pinned, Holders, Asked
<1>2. ASSUME cur \notin freed, cur \in live \cup {NoEv},
             live' = live \ freed, notify_ev' = cur, UNCHANGED <<bev, extra, lost>>
      PROVE  Shared!Next \/ UNCHANGED <<live, HolderMap, Pinned>>
  <2>1. UNCHANGED Pinned
    BY <1>2 DEF Pinned
  <2>2. ASSUME NEW h \in Handle
        PROVE  /\ "notify" \in Holders(h) <=> h = g
               /\ Holders(h)' = IF h = cur THEN Holders(h) \cup {"notify"}
                                ELSE Holders(h) \ {"notify"}
               /\ h # g => Holders(h) \ {"notify"} = Holders(h)
    <3>1. Asked(h)' = Asked(h) /\ "notify" \notin Asked(h)
      BY <1>2, SessionAssumption DEF SessionAssumption, Asked
    <3>2. QED
      BY <1>2, <3>1 DEF Holders
  <2>3. cur \in Handle \cup {NoEv} /\ g \in Handle \cup {NoEv}
    BY DEF TypeOK
  <2>4. ASSUME g # NoEv
        PROVE  /\ g \in Handle /\ g \in live /\ "notify" \in Holders(g)
               /\ refcnt[g] = 1 <=> (Holders(g) = {"notify"} /\ lost[g] = 0)
               /\ (g \notin Pinned <=> lost[g] = 0)
    <3>1. g \in Handle /\ "notify" \in Holders(g)
      BY <2>2, <2>3, <2>4
    <3>2. lost[g] \in Nat
      BY <3>1, SessionAssumption DEF SessionAssumption, TypeOK
    <3>3. g \in live /\ (g \notin Pinned <=> lost[g] = 0)
      BY <3>1, <3>2, HeldByNobody DEF Pinned
    <3>4. refcnt[g] = 1 => Holders(g) = {"notify"} /\ lost[g] = 0
      BY <3>1, HeldOnce
    <3>5. Holders(g) = {"notify"} => refcnt[g] = lost[g] + 1
      BY <3>1, HeldByNobody
    <3>6. QED
      BY <3>1, <3>2, <3>3, <3>4, <3>5
  <2>5. CASE g = cur
    <3>1. HolderMap' = HolderMap
      BY <2>2, <2>5 DEF HolderMap
    <3>2. live' = live
      BY <1>2, <2>5
    <3>3. QED
      BY <2>1, <3>1, <3>2
  <2>6. CASE g = NoEv /\ cur # NoEv
    <3>1. HolderMap' = [HolderMap EXCEPT ![cur] = @ \cup {"notify"}]
      BY <2>2, <2>3, <2>6, SessionAssumption DEF SessionAssumption, HolderMap
    <3>2. live' = live /\ cur \in Handle /\ cur \in live
      BY <1>2, <2>3, <2>6
    <3>3. Shared!Take(cur, "notify")
      BY <2>1, <2>2, <2>6, <3>1, <3>2 DEF Shared!Take, HolderMap, Pinned
    <3>4. QED
      BY <3>2, <3>3 DEF Shared!Next, Shared!Holder
  <2>7. CASE g # NoEv /\ cur = NoEv
    <3>1. HolderMap' = [HolderMap EXCEPT ![g] = @ \ {"notify"}]
      BY <2>2, <2>4, <2>7, SessionAssumption DEF SessionAssumption, HolderMap
    <3>2. live' = IF Holders(g) = {"notify"} /\ g \notin Pinned
                    THEN live \ {g} ELSE live
      BY <1>2, <2>4, <2>7
    <3>3. Shared!Drop(g, "notify")
      BY <2>1, <2>4, <2>7, <3>1, <3>2 DEF Shared!Drop, HolderMap, Pinned
    <3>4. QED
      BY <2>4, <2>7, <3>3 DEF Shared!Next, Shared!Holder
  <2>8. CASE g # NoEv /\ cur # NoEv /\ g # cur
    <3>1. cur \in Handle /\ cur \in live
      BY <1>2, <2>3, <2>8
    <3>2. HolderMap' = [HolderMap EXCEPT ![g] = @ \ {"notify"},
                                         ![cur] = @ \cup {"notify"}]
      BY <2>2, <2>4, <2>8, <3>1 DEF HolderMap
    <3>3. live' = IF Holders(g) = {"notify"} /\ g \notin Pinned
                    THEN live \ {g} ELSE live
      BY <1>2, <2>4, <2>8
    <3>4. Shared!Move(g, cur)
      BY <2>1, <2>2, <2>4, <2>8, <3>1, <3>2, <3>3 DEF Shared!Move, HolderMap, Pinned
    <3>5. QED
      BY <2>4, <2>8, <3>1, <3>4 DEF Shared!Next
  <2>9. QED
    BY <2>5, <2>6, <2>7, <2>8
<1>3. QED
  BY <1>1, <1>2 DEF do_main_session, Calling

(* A step of a command. *)
LEMMA CallRefines ==
  ASSUME TypeOK, HandleCounted, Call
  PROVE  Shared!Next \/ UNCHANGED <<live, HolderMap, Pinned>>
<1>0. UNCHANGED handles => UNCHANGED <<live, HolderMap, Pinned>>
  BY DEF handles, HolderMap, Pinned, Holders, Asked
<1>1. CASE do_plain \/ do_chat_with_peer
  BY <1>0, <1>1 DEF do_plain, do_chat_with_peer
<1>2. CASE do_query
  <2>1. CASE UNCHANGED handles
    BY <1>0, <2>1
  <2>2. CASE \E q \in Query : issue(q, cur)
    BY <1>2, <2>2, IssueRefines DEF do_query, Calling
  <2>3. QED
    BY <1>2, <2>1, <2>2 DEF do_query
<1>3. CASE do_load_photo
  <2>1. ASSUME NEW q \in Query, issue(q, cur), cur \in live \cup {NoEv}
        PROVE  Shared!Next \/ UNCHANGED <<live, HolderMap, Pinned>>
    BY <2>1, IssueRefines
  <2>2. ASSUME cur \in live, lost' = [lost EXCEPT ![cur] = @ + 1],
               UNCHANGED <<live, bev, notify_ev, extra>>
        PROVE  Shared!Next
    <3>1. PICK e \in Handle : e = cur
      BY <2>2 DEF TypeOK
    <3>2. \A h \in Handle : lost[h] \in Nat
      BY SessionAssumption DEF SessionAssumption, TypeOK
    <3>3. Pinned' = Pinned \cup {e}
      BY <2>2, <3>1, <3>2 DEF Pinned, TypeOK
    <3>4. HolderMap' = HolderMap
      BY <2>2 DEF HolderMap, Holders, Asked
    <3>5. Shared!Pin(e)
      BY <2>2, <3>1, <3>3, <3>4 DEF Shared!Pin, HolderMap, Pinned
    <3>6. QED
      BY <3>5 DEF Shared!Next
  <2>3. QED
    BY <1>0, <1>3, <2>1, <2>2 DEF do_load_photo, Calling
<1>4. CASE do_main_session
  BY <1>4, HandOverRefines
<1>5. CASE quit_connection
  <2>1. ASSUME cur # NoEv, bev[cur], close_incoming(cur) PROVE Shared!Next
    BY <2>1, CloseRefines DEF TypeOK
  <2>2. QED
    BY <1>0, <1>5, <2>1 DEF quit_connection
<1>6. QED
  BY <1>1, <1>2, <1>3, <1>4, <1>5 DEF Call, do_quit, do_safe_quit

(* A connection gets a handle that nobody holds, and is its first holder. *)
LEMMA AcceptRefines ==
  ASSUME TypeOK, HandleCounted, NEW e \in Handle, accept_incoming(e)
  PROVE  Shared!Next
<1>1. Holders(e) = {}
  BY HeldByNobody DEF accept_incoming
<1>2. HolderMap' = [HolderMap EXCEPT ![e] = {"conn"}]
  <2>1. ASSUME NEW h \in Handle
        PROVE  Holders(h)' = IF h = e THEN {"conn"} ELSE Holders(h)
    <3>1. Asked(h)' = Asked(h)
      BY DEF accept_incoming, Asked
    <3>2. bev'[h] = IF h = e THEN TRUE ELSE bev[h]
      BY DEF accept_incoming, TypeOK
    <3>3. notify_ev' = notify_ev
      BY DEF accept_incoming
    <3>4. QED
      BY <1>1, <3>1, <3>2, <3>3 DEF Holders
  <2>2. QED
    BY <2>1 DEF HolderMap
<1>3. Shared!Create(e)
  BY <1>2 DEF Shared!Create, accept_incoming, HolderMap, Pinned
<1>4. QED
  BY <1>3 DEF Shared!Next

(* Every step of the sessions is a step of the shared handles, or changes  *)
(* nothing there: the counting of interface.c and loop.c does what         *)
(* SharedHandle promises.                                                  *)
THEOREM Refines == Spec => SharedSpec
<1>1. Init => Shared!Init
  <2> SUFFICES ASSUME Init PROVE Shared!Init
    OBVIOUS
  <2>1. \A e \in Handle : Holders(e) = {}
    BY SessionAssumption DEF SessionAssumption, Init, Holders, Asked
  <2>2. QED
    BY <2>1 DEF Init, Shared!Init
<1>2. Inv /\ [Next]_vars => [Shared!Next]_(Shared!vars)
  <2> SUFFICES ASSUME Inv, [Next]_vars
               PROVE  Shared!Next \/ UNCHANGED <<live, HolderMap, Pinned>>
    BY DEF Shared!vars, HolderMap, Pinned
  <2>0. UNCHANGED handles => UNCHANGED <<live, HolderMap, Pinned>>
    BY DEF handles, HolderMap, Pinned, Holders, Asked
  <2>1. ASSUME NEW e \in Handle, accept_incoming(e) PROVE Shared!Next
    BY <2>1, AcceptRefines DEF Inv
  <2>2. ASSUME NEW e \in Handle, event_incoming(e) PROVE Shared!Next
    BY <2>2, CloseRefines DEF event_incoming, Inv
  <2>3. ASSUME NEW q \in Query, issue(q, NoEv)
        PROVE  Shared!Next \/ UNCHANGED <<live, HolderMap, Pinned>>
    <3>1. NoEv \in live \cup {NoEv}
      OBVIOUS
    <3>2. QED
      BY <2>3, <3>1, IssueRefines DEF Inv
  <2>4. CASE Call
    BY <2>4, CallRefines DEF Inv
  <2>5. ASSUME NEW q \in Query, print_gw(q)
        PROVE  Shared!Next \/ UNCHANGED <<live, HolderMap, Pinned>>
    BY <2>5, AnswerRefines DEF Inv
  <2>6. QED
    BY <2>0, <2>1, <2>2, <2>3, <2>4, <2>5
       DEF Next, read_incoming, stdin_read_callback, start_reading,
           interpreter_ex, interpreter_chat_mode, own_query, return_to_reader,
           use_after_free, read_end, tick, net_loop, sig_term_handler, Stopped,
           vars, handles
<1>3. QED
  BY <1>1, <1>2, InvCorrect, PTL DEF Spec, SharedSpec, Shared!Spec

(* What SharedHandle keeps, of the sessions: a handle is allocated exactly *)
(* while somebody whom the code can name holds it, or a reference to it is *)
(* lost; it is neither freed under a connection, notify_ev or a query nor  *)
(* kept when the last of them is gone.                                     *)
THEOREM HeldLive == Spec => []Shared!LiveIffHeld
<1>1. Inv => Shared!LiveIffHeld
  <2> SUFFICES ASSUME Inv, NEW h \in Handle
               PROVE  h \in live <=> (HolderMap[h] # {} \/ h \in Pinned)
    BY DEF Shared!LiveIffHeld, HolderMap, Pinned
  <2>1. h \in live <=> (Holders(h) # {} \/ lost[h] > 0)
    BY HeldByNobody DEF Inv
  <2>2. QED
    BY <2>1 DEF HolderMap, Pinned
<1>2. QED
  BY <1>1, InvCorrect, PTL
=============================================================================
