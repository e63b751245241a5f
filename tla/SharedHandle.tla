---------------------------- MODULE SharedHandle ----------------------------
(***************************************************************************)
(* What the reference count of a connection handle (struct in_ev,          *)
(* interface.h:65) promises: a handle lives exactly as long as someone     *)
(* holds it, and only a live handle gets another holder.  The holders are  *)
(* named here, where the program only counts them.  A pinned handle has    *)
(* lost a holder that nobody can take away any more; it is never freed.    *)
(***************************************************************************)
EXTENDS FiniteSets

CONSTANTS Handle,      \* the addresses malloc returns for a handle
          Conn,        \* the holder that is the open connection
          Notify,      \* the holder that is the global notify_ev
          Query        \* the holders that are queries in flight

Holder == {Conn, Notify} \cup Query

VARIABLES live,        \* the handles that are allocated
          holders,     \* who holds each handle
          pinned       \* the live handles with a lost holder

vars == <<live, holders, pinned>>

TypeOK == /\ live \subseteq Handle
          /\ holders \in [Handle -> SUBSET Holder]
          /\ pinned \subseteq Handle

Init == /\ live = {}
        /\ holders = [h \in Handle |-> {}]
        /\ pinned = {}

(* A handle is allocated for a connection, which is its first holder. *)
Create(h) == /\ h \notin live
             /\ live' = live \cup {h}
             /\ holders' = [holders EXCEPT ![h] = {Conn}]
             /\ UNCHANGED pinned

(* Only a handle that lives can be taken. *)
Take(h, k) == /\ h \in live
              /\ k \notin holders[h]
              /\ holders' = [holders EXCEPT ![h] = @ \cup {k}]
              /\ UNCHANGED <<live, pinned>>

(* The last holder to go frees the handle, and no other one does. *)
Drop(h, k) == /\ h \in live
              /\ k \in holders[h]
              /\ holders' = [holders EXCEPT ![h] = @ \ {k}]
              /\ live' = IF holders[h] = {k} /\ h \notin pinned
                           THEN live \ {h} ELSE live
              /\ UNCHANGED pinned

(* notify_ev leaves one handle and takes another in one step. *)
Move(g, h) == /\ g \in live /\ h \in live /\ g # h
              /\ Notify \in holders[g] /\ Notify \notin holders[h]
              /\ holders' = [holders EXCEPT ![g] = @ \ {Notify},
                                            ![h] = @ \cup {Notify}]
              /\ live' = IF holders[g] = {Notify} /\ g \notin pinned
                           THEN live \ {g} ELSE live
              /\ UNCHANGED pinned

(* A holder whose reference nobody will give back. *)
Pin(h) == /\ h \in live
          /\ pinned' = pinned \cup {h}
          /\ UNCHANGED <<live, holders>>

Next == \E h \in Handle :
          \/ Create(h)
          \/ \E k \in Holder : Take(h, k) \/ Drop(h, k)
          \/ \E g \in Handle : Move(g, h)
          \/ Pin(h)

Spec == Init /\ [][Next]_vars

(* A handle is allocated exactly while it is held (or pinned): it is       *)
(* neither freed under a holder nor kept when the last one is gone.        *)
LiveIffHeld == \A h \in Handle : h \in live <=> (holders[h] # {} \/ h \in pinned)
=============================================================================
