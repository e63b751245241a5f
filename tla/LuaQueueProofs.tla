--------------------------- MODULE LuaQueueProofs ---------------------------
(***************************************************************************)
(* Theorems of LuaQueue for every number of slots, every choice of the     *)
(* functions a script uses and every set of waiters.                       *)
(***************************************************************************)
EXTENDS LuaQueue, SequenceTheorems, TLAPS

(* The slot behind the last one of the command behind the first h slots.   *)
End(h) == h + 3 + Arity(At(h).fun)

(* A whole command is behind the first h slots: its header is one that     *)
(* parse_lua_function wrote, and its strings, and nothing else of it but   *)
(* the slot of the waiter perhaps, are flagged.                            *)
Whole(h) ==
  /\ h \in 0 .. Slots /\ End(h) <= pos
  /\ \E f \in Function : /\ lua_ptr[h + 1] = Length(Arity(f) + 1)
                         /\ lua_ptr[h + 2] = Type(f)
  /\ \E e \in Extra : lua_ptr[h + 3] = Waiter(e)
  /\ \A k \in DOMAIN Params[At(h).fun] :
       IF Params[At(h).fun][k] = "string"
         THEN lua_ptr[h + 3 + k] = Str /\ flags[h + 3 + k]
         ELSE lua_ptr[h + 3 + k] = Arg /\ ~flags[h + 3 + k]

(* The commands not done lie one behind the other, from p to pos. *)
Tiled ==
  /\ p = IF heads = <<>> THEN pos ELSE heads[1]
  /\ \A i \in 1 .. Len(heads) :
       /\ Whole(heads[i])
       /\ End(heads[i]) = IF i = Len(heads) THEN pos ELSE heads[i + 1]
  /\ pc = "idle" => p = 0
  /\ pc = "cb" => heads # <<>>

(* Nobody waits for two calls, and whoever waits is alive. *)
WaitersApart ==
  /\ \A i \in 1 .. Len(heads) : At(heads[i]).extra \in alive
  /\ \A r \in asked : r.extra \in alive
  /\ \A i, j \in 1 .. Len(heads) :
       At(heads[i]).extra = At(heads[j]).extra => i = j
  /\ \A r, s \in asked : r.extra = s.extra => r = s
  /\ \A i \in 1 .. Len(heads), r \in asked :
       At(heads[i]).extra = r.extra => pc = "cb" /\ i = 1
  /\ pc = "cb" => At(p) \in asked

(* The third slot only ever holds a waiter, and the first command is done  *)
(* before any other.                                                       *)
FirstDone ==
  /\ 3 \in Slot => ~flags[3]
  /\ p > 0 => lua_ptr[1].num \in Nat /\ p >= lua_ptr[1].num + 2

Inv == TypeOK /\ Tiled /\ WaitersApart /\ StringsKept /\ FirstDone /\ FirstIsSafe

-----------------------------------------------------------------------------
(* The table, and what slots hold. *)
LEMMA ParamsTyped ==
  ASSUME NEW f \in Function
  PROVE  /\ Params[f] \in Seq({"peer", "string", "number"})
         /\ Arity(f) \in Nat
         /\ DOMAIN Params[f] = 1 .. Arity(f)
<1>1. f \in {"status_online", "user_info", "send_msg", "set_profile_photo",
             "set_profile_name", "restore_msg"}
  BY LuaQueueAssumption DEF LuaQueueAssumption, Params
<1>2. Params[f] \in Seq({"peer", "string", "number"})
  <2>1. /\ Params["status_online"] = <<>>
        /\ Params["user_info"] = <<"peer">>
        /\ Params["send_msg"] = <<"peer", "string">>
        /\ Params["set_profile_photo"] = <<"string">>
        /\ Params["set_profile_name"] = <<"string">>
        /\ Params["restore_msg"] = <<"number">>
    BY DEF Params
  <2> DEFINE Kinds == {"peer", "string", "number"}
  <2>2. /\ <<>> \in Seq(Kinds) /\ <<"peer">> \in Seq(Kinds) /\ <<"string">> \in Seq(Kinds)
        /\ <<"number">> \in Seq(Kinds) /\ <<"peer", "string">> \in Seq(Kinds)
    OBVIOUS
  <2>3. QED
    BY <1>1, <2>1, <2>2
<1>3. QED
  BY <1>2, LenProperties DEF Arity

LEMMA ContentsApart ==
  /\ \A n : Length(n) # Str /\ Length(n).num = n
  /\ \A f : Type(f) # Str /\ Type(f).fun = f
  /\ \A e : Waiter(e) # Str /\ Waiter(e).ptr = e
  /\ Arg # Str
BY DEF Length, Type, Waiter, Arg, Str

LEMMA PosNat ==
  ASSUME TypeOK
  PROVE  /\ pos \in Nat /\ pos <= Slots /\ Slots \in Nat
         /\ DOMAIN lua_ptr = 1 .. pos
         /\ Len(heads) \in Nat
         /\ \A i \in 1 .. Len(heads) : heads[i] \in 0 .. Slots
         /\ heads = <<>> <=> Len(heads) = 0
BY LuaQueueAssumption, LenProperties DEF LuaQueueAssumption, TypeOK, pos

(* A whole command has a function and a waiter, and the slots it takes. *)
LEMMA WholeTyped ==
  ASSUME TypeOK, NEW h, Whole(h)
  PROVE  /\ h \in 0 .. Slots
         /\ At(h) \in Request /\ At(h).fun \in Function /\ At(h).extra \in Extra
         /\ Arity(At(h).fun) \in Nat
         /\ DOMAIN Params[At(h).fun] = 1 .. Arity(At(h).fun)
         /\ End(h) \in Nat /\ h + 3 <= End(h) /\ End(h) <= pos
         /\ lua_ptr[h + 1] = Length(Arity(At(h).fun) + 1)
         /\ lua_ptr[h + 2] = Type(At(h).fun)
         /\ lua_ptr[h + 3] = Waiter(At(h).extra)
<1>1. PICK f \in Function : /\ lua_ptr[h + 1] = Length(Arity(f) + 1)
                            /\ lua_ptr[h + 2] = Type(f)
  BY DEF Whole
<1>2. PICK e \in Extra : lua_ptr[h + 3] = Waiter(e)
  BY DEF Whole
<1>3. At(h) = [fun |-> f, extra |-> e]
  BY <1>1, <1>2, ContentsApart DEF At
<1>4. h \in 0 .. Slots /\ End(h) <= pos
  BY DEF Whole
<1>5. /\ At(h) \in Request /\ At(h).fun = f /\ At(h).extra = e
      /\ Arity(f) \in Nat /\ DOMAIN Params[f] = 1 .. Arity(f)
  BY <1>3, ParamsTyped DEF Request
<1>6. End(h) \in Nat /\ h + 3 <= End(h)
  <2>1. End(h) = h + 3 + Arity(f)
    BY <1>5 DEF End
  <2>2. h \in Nat
    BY <1>4, PosNat
  <2>3. QED
    BY <1>5, <2>1, <2>2
<1>7. QED
  BY <1>1, <1>2, <1>4, <1>5, <1>6

(* A command stays whole while slots are only added behind the last one. *)
LEMMA WholeStays ==
  ASSUME TypeOK, NEW h, Whole(h),
         Len(lua_ptr') \in Nat, pos <= Len(lua_ptr'),
         \A i \in 1 .. pos : lua_ptr'[i] = lua_ptr[i] /\ (flags'[i] <=> flags[i])
  PROVE  Whole(h)' /\ At(h)' = At(h) /\ End(h)' = End(h)
<1>1. h + 1 \in 1 .. pos /\ h + 2 \in 1 .. pos /\ h + 3 \in 1 .. pos
  BY WholeTyped, PosNat
<1>2. At(h)' = At(h)
  BY <1>1 DEF At
<1>3. End(h)' = End(h)
  BY <1>2 DEF End
<1>4. \A k \in DOMAIN Params[At(h).fun] : h + 3 + k \in 1 .. pos
  BY WholeTyped, PosNat DEF End
<1>5. Len(lua_ptr') \in Nat /\ End(h) \in Nat /\ End(h) <= pos /\ pos \in Nat
  BY WholeTyped, PosNat
<1>6. End(h)' <= pos'
  BY <1>3, <1>5 DEF pos
<1>7. /\ \E f \in Function : /\ lua_ptr'[h + 1] = Length(Arity(f) + 1)
                             /\ lua_ptr'[h + 2] = Type(f)
      /\ \E e \in Extra : lua_ptr'[h + 3] = Waiter(e)
  BY <1>1 DEF Whole
<1>8. \A k \in DOMAIN Params[At(h).fun] :
        IF Params[At(h).fun][k] = "string"
          THEN lua_ptr'[h + 3 + k] = Str /\ flags'[h + 3 + k]
          ELSE lua_ptr'[h + 3 + k] = Arg /\ ~flags'[h + 3 + k]
  BY <1>4 DEF Whole
<1>9. h \in 0 .. Slots
  BY DEF Whole
<1>10. Whole(h)'
  BY <1>2, <1>6, <1>7, <1>8, <1>9 DEF Whole
<1>11. QED
  BY <1>2, <1>3, <1>10

-----------------------------------------------------------------------------
(* A call is written behind the queue. *)
LEMMA FlagsSet ==
  ASSUME TypeOK, NEW f \in Function, NEW bad, flag_arguments(f, bad)
  PROVE  /\ flags' \in [Slot -> BOOLEAN]
         /\ \A i \in Slot : i <= pos + 3 => (flags'[i] <=> flags[i])
         /\ bad = {} => \A k \in DOMAIN Params[f] : pos + 3 + k \in Slot =>
              (flags'[pos + 3 + k] <=> Params[f][k] = "string")
<1>1. /\ pos \in Nat /\ Slot \subseteq Nat /\ DOMAIN Params[f] \subseteq Nat
      /\ \A k \in DOMAIN Params[f] : k >= 1
  BY PosNat, ParamsTyped DEF Slot
<1>2. \A i \in Slot : flags'[i] <=> IF IsArg(f, i) THEN IsString(f, i) /\ i - pos - 3 \notin bad
                                  ELSE flags[i]
  BY DEF flag_arguments
<1>3. flags' \in [Slot -> BOOLEAN]
  BY DEF flag_arguments, TypeOK, IsString, IsArg
<1>4. \A i \in Slot : i <= pos + 3 => ~IsArg(f, i)
  BY <1>1 DEF IsArg
<1>5. \A k \in DOMAIN Params[f] :
        /\ IsArg(f, pos + 3 + k)
        /\ IsString(f, pos + 3 + k) <=> Params[f][k] = "string"
  <2> SUFFICES ASSUME NEW k \in DOMAIN Params[f]
               PROVE  /\ IsArg(f, pos + 3 + k)
                      /\ IsString(f, pos + 3 + k) <=> Params[f][k] = "string"
    OBVIOUS
  <2>1. k \in Nat /\ pos \in Nat
    BY <1>1
  <2>2. \A i : i = k => (i \in DOMAIN Params[f] /\ (Params[f][i] = "string" <=> Params[f][k] = "string"))
    OBVIOUS
  <2>3. QED
    BY <2>1, <2>2 DEF IsArg, IsString
<1>6. ASSUME bad = {}, NEW k \in DOMAIN Params[f], pos + 3 + k \in Slot
      PROVE  flags'[pos + 3 + k] <=> Params[f][k] = "string"
  <2>1. IsArg(f, pos + 3 + k) /\ (IsString(f, pos + 3 + k) <=> Params[f][k] = "string")
    BY <1>5, <1>6
  <2>2. flags'[pos + 3 + k] <=> IsString(f, pos + 3 + k)
    BY <1>2, <1>6, <2>1
  <2>3. QED
    BY <2>1, <2>2
<1>7. QED
  BY <1>2, <1>3, <1>4, <1>6

LEMMA CommandWritten ==
  ASSUME TypeOK, NEW f \in Function, NEW e \in Extra, keep_command(f, e),
         pos + 3 + Arity(f) < Slots
  PROVE  /\ lua_ptr' \in Seq(Content)
         /\ Len(lua_ptr') = pos + 3 + Arity(f)
         /\ \A i \in 1 .. pos : lua_ptr'[i] = lua_ptr[i]
         /\ lua_ptr'[pos + 1] = Length(Arity(f) + 1)
         /\ lua_ptr'[pos + 2] = Type(f)
         /\ lua_ptr'[pos + 3] = Waiter(e)
         /\ \A k \in 1 .. Arity(f) : lua_ptr'[pos + 3 + k] =
              IF Params[f][k] = "string" THEN Str ELSE Arg
<1> DEFINE head == <<Length(Arity(f) + 1), Type(f), Waiter(e)>>
           args == [k \in 1 .. Arity(f) |-> IF Params[f][k] = "string" THEN Str ELSE Arg]
<1>1. /\ DOMAIN Params[f] = 1 .. Arity(f) /\ Arity(f) \in Nat
      /\ pos \in Nat /\ lua_ptr \in Seq(Content) /\ Slots \in Nat
  BY ParamsTyped, PosNat DEF TypeOK
<1>2. lua_ptr' = (lua_ptr \o head) \o args
  BY <1>1 DEF keep_command
<1>3. Arity(f) + 1 \in 0 .. Slots
  BY <1>1
<1>4. /\ Length(Arity(f) + 1) \in Content /\ Type(f) \in Content /\ Waiter(e) \in Content
      /\ Str \in Content /\ Arg \in Content
  BY <1>3 DEF Content
<1>5. /\ head \in Seq(Content) /\ Len(head) = 3
      /\ head[1] = Length(Arity(f) + 1) /\ head[2] = Type(f) /\ head[3] = Waiter(e)
  BY <1>4
<1>6. args \in Seq(Content) /\ Len(args) = Arity(f)
  BY <1>1, <1>4
<1> HIDE DEF head
<1> DEFINE front == lua_ptr \o head
<1>7. /\ front \in Seq(Content)
      /\ Len(front) = pos + 3
      /\ \A i \in 1 .. pos + 3 : front[i] = IF i <= pos THEN lua_ptr[i] ELSE head[i - pos]
  <2>1. /\ front \in Seq(Content)
        /\ Len(front) = Len(lua_ptr) + Len(head)
        /\ \A i \in 1 .. Len(lua_ptr) + Len(head) :
             front[i] = IF i <= Len(lua_ptr) THEN lua_ptr[i] ELSE head[i - Len(lua_ptr)]
    BY <1>1, <1>5, ConcatProperties
  <2>2. QED
    BY <1>5, <2>1 DEF pos
<1> HIDE DEF front, args
<1>8. /\ lua_ptr' \in Seq(Content)
      /\ Len(lua_ptr') = pos + 3 + Arity(f)
      /\ \A i \in 1 .. pos + 3 + Arity(f) : lua_ptr'[i] =
           IF i <= pos + 3 THEN front[i] ELSE args[i - (pos + 3)]
  <2>1. lua_ptr' = front \o args
    BY <1>2 DEF front
  <2>2. /\ front \o args \in Seq(Content)
        /\ Len(front \o args) = Len(front) + Len(args)
        /\ \A i \in 1 .. Len(front) + Len(args) : (front \o args)[i] =
             IF i <= Len(front) THEN front[i] ELSE args[i - Len(front)]
    BY <1>6, <1>7, ConcatProperties
  <2>3. QED
    BY <1>6, <1>7, <2>1, <2>2
<1>9. /\ \A i \in 1 .. pos : lua_ptr'[i] = lua_ptr[i]
      /\ lua_ptr'[pos + 1] = head[1]
      /\ lua_ptr'[pos + 2] = head[2]
      /\ lua_ptr'[pos + 3] = head[3]
  BY <1>1, <1>7, <1>8
<1>10. \A k \in 1 .. Arity(f) : lua_ptr'[pos + 3 + k] = IF Params[f][k] = "string" THEN Str ELSE Arg
  <2> SUFFICES ASSUME NEW k \in 1 .. Arity(f) PROVE lua_ptr'[pos + 3 + k] = args[k]
    BY <1>1 DEF args
  <2>1. pos + 3 + k \in 1 .. pos + 3 + Arity(f) /\ ~(pos + 3 + k <= pos + 3)
        /\ (pos + 3 + k) - (pos + 3) = k
    BY <1>1
  <2>2. QED
    BY <1>8, <2>1
<1>11. QED
  BY <1>5, <1>8, <1>9, <1>10 DEF head

(* What parse_lua_function leaves when all arguments are good. *)
LEMMA EnqueueKeeps ==
  ASSUME Inv, NEW f \in Function, NEW e \in Extra, fault = "no", pc # "do",
         e \notin alive, pos + 3 + Arity(f) < Slots,
         flag_arguments(f, {}), keep_command(f, e), UNCHANGED <<p, pc, asked, fault>>
  PROVE  /\ Inv'
         /\ heads' = Append(heads, pos)
         /\ \A i \in 1 .. Len(heads) : At(heads[i])' = At(heads[i])
         /\ \A h : h = pos => At(h)' = [fun |-> f, extra |-> e]
<1>1. /\ pos \in Nat /\ pos <= Slots /\ Slots \in Nat
      /\ Len(heads) \in Nat /\ (heads = <<>> <=> Len(heads) = 0)
      /\ heads \in Seq(0 .. Slots)
      /\ Arity(f) \in Nat /\ DOMAIN Params[f] = 1 .. Arity(f)
  BY PosNat, ParamsTyped DEF Inv, TypeOK, Arity
<1>2. /\ lua_ptr' \in Seq(Content)
      /\ Len(lua_ptr') = pos + 3 + Arity(f) /\ pos' = pos + 3 + Arity(f)
      /\ \A i \in 1 .. pos : lua_ptr'[i] = lua_ptr[i]
      /\ lua_ptr'[pos + 1] = Length(Arity(f) + 1)
      /\ lua_ptr'[pos + 2] = Type(f)
      /\ lua_ptr'[pos + 3] = Waiter(e)
      /\ \A k \in 1 .. Arity(f) : lua_ptr'[pos + 3 + k] =
           IF Params[f][k] = "string" THEN Str ELSE Arg
  BY CommandWritten DEF Inv, pos
<1>3. /\ flags' \in [Slot -> BOOLEAN]
      /\ \A i \in Slot : i <= pos + 3 => (flags'[i] <=> flags[i])
      /\ \A k \in 1 .. Arity(f) : flags'[pos + 3 + k] <=> Params[f][k] = "string"
  <2>1. \A k \in 1 .. Arity(f) : pos + 3 + k \in Slot
    BY <1>1 DEF Slot
  <2>2. QED
    BY <1>1, <2>1, FlagsSet DEF Inv
<1>4. /\ heads' = Append(heads, pos)
      /\ heads' \in Seq(0 .. Slots) /\ Len(heads') = Len(heads) + 1
      /\ \A i \in 1 .. Len(heads) : heads'[i] = heads[i]
      /\ heads'[Len(heads) + 1] = pos
      /\ heads' # <<>>
  <2>1. heads' = Append(heads, pos) /\ pos \in 0 .. Slots
    BY <1>1 DEF keep_command
  <2>2. QED
    BY <1>1, <2>1, AppendProperties
<1>5. \A i \in 1 .. Len(heads) : /\ Whole(heads[i])' /\ Whole(heads[i])
                                /\ At(heads[i])' = At(heads[i])
                                /\ End(heads[i])' = End(heads[i])
  <2> SUFFICES ASSUME NEW i \in 1 .. Len(heads)
               PROVE  /\ Whole(heads[i])' /\ Whole(heads[i])
                      /\ At(heads[i])' = At(heads[i])
                      /\ End(heads[i])' = End(heads[i])
    OBVIOUS
  <2>1. Whole(heads[i])
    BY DEF Inv, Tiled
  <2>2. \A j \in 1 .. pos : lua_ptr'[j] = lua_ptr[j] /\ (flags'[j] <=> flags[j])
    <3> SUFFICES ASSUME NEW j \in 1 .. pos
                 PROVE  lua_ptr'[j] = lua_ptr[j] /\ (flags'[j] <=> flags[j])
      OBVIOUS
    <3>1. j \in Slot /\ j <= pos + 3
      BY <1>1 DEF Slot
    <3>2. QED
      BY <1>2, <1>3, <3>1
  <2>3. Len(lua_ptr') \in Nat /\ pos <= Len(lua_ptr')
    BY <1>1, <1>2
  <2>4. ASSUME NEW h, h = heads[i], Whole(h)
        PROVE  Whole(h)' /\ At(h)' = At(h) /\ End(h)' = End(h)
    BY <2>2, <2>3, <2>4, WholeStays DEF Inv
  <2>5. QED
    BY <2>1, <2>4, <1>4
<1>6. PICK h \in 0 .. Slots : h = pos
  BY <1>1
<1>7. At(h)' = [fun |-> f, extra |-> e]
  BY <1>1, <1>2, <1>6, ContentsApart DEF At
<1>8. End(h)' = pos'
  BY <1>1, <1>2, <1>6, <1>7 DEF End
<1>9. Whole(h)'
  <2>1. \A k \in 1 .. Arity(f) :
          IF Params[f][k] = "string" THEN lua_ptr'[h + 3 + k] = Str /\ flags'[h + 3 + k]
          ELSE lua_ptr'[h + 3 + k] = Arg /\ ~flags'[h + 3 + k]
    BY <1>2, <1>3, <1>6
  <2>2. /\ lua_ptr'[h + 1] = Length(Arity(f) + 1) /\ lua_ptr'[h + 2] = Type(f)
        /\ lua_ptr'[h + 3] = Waiter(e)
    BY <1>2, <1>6
  <2>3. End(h)' <= pos'
    BY <1>1, <1>2, <1>8
  <2>4. At(h)'.fun = f
    BY <1>7
  <2>5. QED
    BY <1>1, <2>1, <2>2, <2>3, <2>4 DEF Whole
<1>10. Tiled'
  <2>1. p' = heads'[1]
    BY <1>1, <1>4 DEF Inv, Tiled
  <2>2. ASSUME NEW i \in 1 .. Len(heads')
        PROVE  /\ Whole(heads[i])'
               /\ End(heads[i])' = IF i = Len(heads') THEN pos' ELSE heads'[i + 1]
    <3>1. CASE i = Len(heads) + 1
      <4>1. heads'[i] = h
        BY <1>4, <1>6, <3>1
      <4>2. QED
        BY <1>4, <1>8, <1>9, <3>1, <4>1
    <3>2. CASE i \in 1 .. Len(heads)
      <4>1. End(heads[i]) = IF i = Len(heads) THEN pos ELSE heads[i + 1]
        BY <3>2 DEF Inv, Tiled
      <4>2. End(heads[i])' = heads'[i + 1]
        BY <1>1, <1>4, <1>5, <3>2, <4>1
      <4>3. i # Len(heads')
        BY <1>1, <1>4, <3>2
      <4>4. QED
        BY <1>5, <3>2, <4>2, <4>3
    <3>3. QED
      BY <1>1, <1>4, <2>2, <3>1, <3>2
  <2>3. (pc = "idle" => p = 0) /\ UNCHANGED <<p, pc>>
    BY DEF Inv, Tiled
  <2>4. QED
    BY <1>4, <2>1, <2>2, <2>3 DEF Tiled
<1>11. alive' = alive \cup {e} /\ strs' = strs \cup {i \in Slot : IsString(f, i)}
  BY DEF keep_command
<1>12. WaitersApart'
  <2>1. ASSUME NEW i \in 1 .. Len(heads')
        PROVE  /\ i \in 1 .. Len(heads) => At(heads[i])' = At(heads[i])
               /\ i \notin 1 .. Len(heads) => i = Len(heads) + 1 /\ At(heads[i])'.extra = e
    BY <1>1, <1>4, <1>5, <1>6, <1>7
  <2>2. /\ \A i \in 1 .. Len(heads) : At(heads[i]).extra \in alive
        /\ \A r \in asked : r.extra \in alive
        /\ \A i, j \in 1 .. Len(heads) :
             At(heads[i]).extra = At(heads[j]).extra => i = j
        /\ \A r, s \in asked : r.extra = s.extra => r = s
        /\ \A i \in 1 .. Len(heads), r \in asked :
             At(heads[i]).extra = r.extra => pc = "cb" /\ i = 1
    BY DEF Inv, WaitersApart
  <2>3. /\ \A i \in 1 .. Len(heads') : At(heads[i])'.extra \in alive'
        /\ \A r \in asked' : r.extra \in alive'
    BY <1>11, <2>1, <2>2
  <2>4. \A i, j \in 1 .. Len(heads') :
          At(heads[i])'.extra = At(heads[j])'.extra => i = j
    BY <2>1, <2>2
  <2>5. /\ \A r, s \in asked' : r.extra = s.extra => r = s
        /\ \A i \in 1 .. Len(heads'), r \in asked' :
             At(heads[i])'.extra = r.extra => pc' = "cb" /\ i = 1
    BY <2>1, <2>2
  <2>6. pc' = "cb" => At(p)' \in asked'
    <3>1. CASE pc = "cb"
      <4>1. At(p) \in asked /\ 1 \in 1 .. Len(heads) /\ heads[1] = p
        BY <1>1, <3>1 DEF Inv, Tiled, WaitersApart
      <4>2. At(p)' = At(p)
        BY <1>4, <1>5, <4>1
      <4>3. QED
        BY <4>1, <4>2
    <3>2. QED
      BY <3>1
  <2>7. QED
    BY <2>3, <2>4, <2>5, <2>6 DEF WaitersApart
<1>13. p \in 0 .. pos
  BY DEF Inv, TypeOK
<1>14. StringsKept'
  <2>1. strs = {i \in p + 1 .. pos : lua_ptr[i] = Str}
    BY DEF Inv, StringsKept
  <2>2. \A i \in Slot : IsString(f, i) <=>
          \E k \in 1 .. Arity(f) : i = pos + 3 + k /\ Params[f][k] = "string"
    <3>1. ASSUME NEW i \in Slot, IsString(f, i)
          PROVE  \E k \in 1 .. Arity(f) : i = pos + 3 + k /\ Params[f][k] = "string"
      <4>1. i - pos - 3 \in 1 .. Arity(f) /\ Params[f][i - pos - 3] = "string"
        BY <1>1, <3>1 DEF IsString, IsArg
      <4>2. i = pos + 3 + (i - pos - 3)
        BY <1>1 DEF Slot
      <4>3. QED
        BY <4>1, <4>2
    <3>2. ASSUME NEW i \in Slot, NEW k \in 1 .. Arity(f), i = pos + 3 + k,
                 Params[f][k] = "string"
          PROVE  IsString(f, i)
      <4>1. i - pos - 3 = k
        BY <1>1, <3>2
      <4>2. QED
        BY <1>1, <3>2, <4>1 DEF IsString, IsArg
    <3>3. QED
      BY <3>1, <3>2
  <2>3. ASSUME NEW i \in p + 1 .. pos'
        PROVE  lua_ptr'[i] = Str <=> i \in strs'
    <3>1. CASE i <= pos
      BY <1>1, <1>2, <1>11, <1>13, <2>1, <2>2, <3>1
    <3>2. CASE i \in pos + 1 .. pos + 3
      <4>1. lua_ptr'[i] # Str
        <5>1. i = pos + 1 \/ i = pos + 2 \/ i = pos + 3
          BY <1>1, <3>2
        <5>2. /\ lua_ptr'[pos + 1] # Str /\ lua_ptr'[pos + 2] # Str
              /\ lua_ptr'[pos + 3] # Str
          BY <1>2, ContentsApart
        <5>3. QED
          BY <5>1, <5>2
      <4>2. i \notin strs'
        BY <1>1, <1>11, <2>1, <2>2, <3>2
      <4>3. QED
        BY <4>1, <4>2
    <3>3. CASE i > pos + 3
      <4>1. PICK k \in 1 .. Arity(f) : i = pos + 3 + k
        <5>1. i - pos - 3 \in 1 .. Arity(f) /\ i = pos + 3 + (i - pos - 3)
          BY <1>1, <1>2, <1>13, <3>3
        <5>2. QED
          BY <5>1
      <4>2. lua_ptr'[i] = Str <=> Params[f][k] = "string"
        BY <1>2, <4>1, ContentsApart
      <4>3. i \in Slot
        BY <1>1, <1>2, <1>13, <3>3 DEF Slot
      <4>4. i \in strs' <=> Params[f][k] = "string"
        BY <1>1, <1>11, <2>1, <2>2, <3>3, <4>1, <4>3
      <4>5. QED
        BY <4>2, <4>4
    <3>4. QED
      BY <1>1, <1>13, <3>1, <3>2, <3>3
  <2>4. \A i \in strs' : i \in p + 1 .. pos'
    BY <1>1, <1>2, <1>11, <1>13, <2>1, <2>2
  <2>5. QED
    BY <2>3, <2>4 DEF StringsKept
<1>15. FirstDone' /\ FirstIsSafe'
  <2>1. 3 \in Slot => ~flags'[3]
    BY <1>1, <1>3 DEF Inv, FirstDone
  <2>2. p > 0 => lua_ptr'[1].num \in Nat /\ p >= lua_ptr'[1].num + 2
    <3>1. p > 0 => 1 \in 1 .. pos
      BY <1>1, <1>13
    <3>2. QED
      BY <1>2, <3>1 DEF Inv, FirstDone
  <2>3. QED
    BY <2>1, <2>2 DEF FirstDone, FirstIsSafe
<1>16. TypeOK'
  <2>1. strs' \subseteq Slot /\ alive' \subseteq Extra
    BY <1>11 DEF Inv, TypeOK
  <2>2. pos' <= Slots /\ p' \in 0 .. pos'
    BY <1>1, <1>2, <1>13
  <2>3. QED
    BY <1>2, <1>3, <1>4, <2>1, <2>2 DEF Inv, TypeOK
<1>17. QED
  BY <1>4, <1>5, <1>6, <1>7, <1>10, <1>12, <1>14, <1>15, <1>16 DEF Inv

-----------------------------------------------------------------------------
(* The command at p is worked off. *)

LEMMA RestTyped ==
  ASSUME TypeOK, heads # <<>>
  PROVE  /\ Rest \in Seq(0 .. Slots) /\ Len(Rest) = Len(heads) - 1
         /\ \A i \in 1 .. Len(heads) - 1 : Rest[i] = heads[i + 1]
         /\ Rest = <<>> <=> Len(heads) = 1
<1>1. Len(heads) \in Nat /\ Len(heads) # 0
      /\ \A i \in 2 .. Len(heads) : heads[i] \in 0 .. Slots
  BY PosNat
<1>2. /\ Rest \in Seq(0 .. Slots)
      /\ Len(Rest) = IF 2 <= Len(heads) THEN Len(heads) - 2 + 1 ELSE 0
      /\ \A i \in 1 .. Len(heads) - 2 + 1 : Rest[i] = heads[2 + i - 1]
  BY <1>1, SubSeqProperties DEF Rest
<1>3. Len(Rest) = Len(heads) - 1
  <2>1. ASSUME NEW n \in Nat, n # 0, NEW l, l = IF 2 <= n THEN n - 2 + 1 ELSE 0
        PROVE  l = n - 1
    BY <2>1
  <2>2. QED
    BY <1>1, <1>2, <2>1
<1>4. \A i \in 1 .. Len(heads) - 1 : Rest[i] = heads[i + 1]
  <2> SUFFICES ASSUME NEW i \in 1 .. Len(heads) - 1 PROVE Rest[i] = heads[i + 1]
    OBVIOUS
  <2>1. i \in 1 .. Len(heads) - 2 + 1 /\ 2 + i - 1 = i + 1
    BY <1>1
  <2>2. QED
    BY <1>2, <2>1
<1>5. Rest = <<>> <=> Len(Rest) = 0
  BY <1>2
<1>6. QED
  BY <1>1, <1>2, <1>3, <1>4, <1>5

(* The first of the commands not done is the one at p. *)
LEMMA HeadIsAtP ==
  ASSUME TypeOK, Tiled, p < pos \/ pc = "cb"
  PROVE  /\ heads # <<>> /\ Len(heads) \in Nat /\ 1 \in 1 .. Len(heads)
         /\ heads[1] = p /\ Whole(p) /\ After = End(p)
         /\ After = IF Len(heads) = 1 THEN pos ELSE heads[2]
<1>1. Len(heads) \in Nat /\ pos \in Nat /\ (heads = <<>> <=> Len(heads) = 0)
  BY PosNat
<1>2. heads # <<>>
  BY <1>1 DEF Tiled
<1>3. 1 \in 1 .. Len(heads) /\ heads[1] = p
  BY <1>1, <1>2 DEF Tiled
<1>4. Whole(heads[1]) /\ End(heads[1]) = IF 1 = Len(heads) THEN pos ELSE heads[1 + 1]
  BY <1>3 DEF Tiled
<1>5. After = End(p)
  BY DEF After, End
<1>6. QED
  BY <1>1, <1>2, <1>3, <1>4, <1>5

(* Which slots are freed: the strings of the command, and the slot of the  *)
(* waiter if it is flagged.                                                *)
LEMMA FlaggedStrings ==
  ASSUME Inv, p < pos \/ pc = "cb"
  PROVE  /\ \A i \in p + 1 .. After : i # p + 3 => (i \in Flagged <=> lua_ptr[i] = Str)
         /\ lua_ptr[p + 3] # Str
         /\ Flagged \subseteq p + 1 .. After
<1>1. /\ Whole(p) /\ After = End(p) /\ p \in 0 .. Slots /\ Slots \in Nat
  BY HeadIsAtP, WholeTyped, PosNat DEF Inv
<1>2. /\ lua_ptr[p + 1] # Str /\ lua_ptr[p + 2] # Str /\ lua_ptr[p + 3] # Str
      /\ Arity(At(p).fun) \in Nat
      /\ DOMAIN Params[At(p).fun] = 1 .. Arity(At(p).fun)
  BY <1>1, WholeTyped, ContentsApart DEF Inv
<1>3. After = p + 3 + Arity(At(p).fun)
  BY DEF After
<1>4. \A k \in 1 .. Arity(At(p).fun) : flags[p + 3 + k] <=> lua_ptr[p + 3 + k] = Str
  BY <1>1, <1>2, ContentsApart DEF Whole
<1>5. Flagged \subseteq p + 1 .. After
  BY <1>1, <1>2, <1>3 DEF Flagged
<1>6. ASSUME NEW i \in p + 1 .. After, i # p + 3
      PROVE  i \in Flagged <=> lua_ptr[i] = Str
  <2>1. CASE i = p + 1 \/ i = p + 2
    BY <1>1, <1>2, <2>1 DEF Flagged
  <2>2. CASE i > p + 3
    <3>1. i - (p + 3) \in 1 .. Arity(At(p).fun) /\ i = p + 3 + (i - (p + 3))
      BY <1>1, <1>2, <1>3, <1>6, <2>2
    <3>2. flags[i] <=> lua_ptr[i] = Str
      BY <1>4, <3>1
    <3>3. i \in p + 3 .. After
      BY <1>1, <1>2, <1>3, <1>6, <2>2
    <3>4. QED
      BY <3>2, <3>3 DEF Flagged
  <2>3. QED
    BY <1>1, <1>2, <1>3, <1>6, <2>1, <2>2
<1>7. QED
  BY <1>2, <1>5, <1>6

LEMMA DequeueKeeps ==
  ASSUME Inv, fault = "no", p < pos \/ pc = "cb", free_strings, pc' = "do",
         UNCHANGED <<lua_ptr, flags>>
  PROVE  /\ heads' \in Seq(0 .. Slots) /\ p' \in 0 .. pos' /\ strs' \subseteq Slot
         /\ fault' \in {"no", "freed"}
         /\ Len(heads') = Len(heads) - 1
         /\ \A i \in 1 .. Len(heads') : heads'[i] = heads[i + 1]
         /\ \A i \in 1 .. Len(heads') : At(heads[i])' = At(heads[i + 1])
         /\ Tiled' /\ StringsKept' /\ FirstDone' /\ FirstIsSafe'
<1>1. /\ heads # <<>> /\ Len(heads) \in Nat /\ 1 \in 1 .. Len(heads) /\ heads[1] = p
      /\ Whole(p) /\ After = End(p)
      /\ After = IF Len(heads) = 1 THEN pos ELSE heads[2]
  BY HeadIsAtP DEF Inv
<1>2. /\ pos \in Nat /\ pos <= Slots /\ Slots \in Nat /\ pos' = pos
      /\ After \in Nat /\ p + 3 <= After /\ After <= pos /\ p \in 0 .. pos
  BY <1>1, PosNat, WholeTyped DEF Inv, TypeOK, pos
<1>3. /\ p' = After /\ heads' = Rest /\ strs' = strs \ Flagged
      /\ fault' = IF Flagged \subseteq strs THEN "no" ELSE "freed"
  BY DEF free_strings
<1>4. /\ heads' \in Seq(0 .. Slots) /\ Len(heads') = Len(heads) - 1
      /\ \A i \in 1 .. Len(heads) - 1 : heads'[i] = heads[i + 1]
      /\ heads' = <<>> <=> Len(heads) = 1
  BY <1>1, <1>3, RestTyped DEF Inv
<1>5. ASSUME NEW i \in 1 .. Len(heads')
      PROVE  /\ i + 1 \in 1 .. Len(heads) /\ heads'[i] = heads[i + 1]
             /\ At(heads[i])' = At(heads[i + 1])
             /\ End(heads[i])' = End(heads[i + 1])
             /\ Whole(heads[i])' <=> Whole(heads[i + 1])
  <2>1. i + 1 \in 1 .. Len(heads) /\ heads'[i] = heads[i + 1]
    BY <1>1, <1>4, <1>5
  <2>2. At(heads[i])' = At(heads[i + 1])
    BY <2>1 DEF At
  <2>3. End(heads[i])' = End(heads[i + 1])
    BY <2>1, <2>2 DEF End
  <2>4. Whole(heads[i])' <=> Whole(heads[i + 1])
    BY <1>2, <2>1, <2>2, <2>3 DEF Whole
  <2>5. QED
    BY <2>1, <2>2, <2>3, <2>4
<1>6. Tiled'
  <2>1. p' = IF heads' = <<>> THEN pos' ELSE heads'[1]
    BY <1>1, <1>2, <1>3, <1>4
  <2>2. ASSUME NEW i \in 1 .. Len(heads')
        PROVE  /\ Whole(heads[i])'
               /\ End(heads[i])' = IF i = Len(heads') THEN pos' ELSE heads'[i + 1]
    <3>1. /\ Whole(heads[i + 1])
          /\ End(heads[i + 1]) = IF i + 1 = Len(heads) THEN pos ELSE heads[i + 2]
      <4>1. i + 1 \in 1 .. Len(heads) /\ (i + 1) + 1 = i + 2
        BY <1>5, <1>1, <1>4
      <4>2. QED
        BY <4>1 DEF Inv, Tiled
    <3>2. i # Len(heads') => heads'[i + 1] = heads[i + 2]
      <4>1. i # Len(heads') => i + 1 \in 1 .. Len(heads) - 1 /\ (i + 1) + 1 = i + 2
        BY <1>1, <1>4, <2>2
      <4>2. QED
        BY <1>4, <4>1
    <3>3. i = Len(heads') <=> i + 1 = Len(heads)
      BY <1>1, <1>4, <2>2
    <3>4. QED
      BY <1>2, <1>5, <3>1, <3>2, <3>3
  <2>3. QED
    BY <2>1, <2>2 DEF Tiled
<1>7. /\ \A i \in p + 1 .. After : i # p + 3 => (i \in Flagged <=> lua_ptr[i] = Str)
      /\ lua_ptr[p + 3] # Str /\ Flagged \subseteq p + 1 .. After
  BY FlaggedStrings
<1>8. strs = {i \in p + 1 .. pos : lua_ptr[i] = Str}
  BY DEF Inv, StringsKept
<1>9. StringsKept'
  <2>1. ASSUME NEW i \in After + 1 .. pos, lua_ptr[i] = Str PROVE i \in strs \ Flagged
    BY <1>2, <1>7, <1>8, <2>1
  <2>2. ASSUME NEW i \in strs \ Flagged PROVE i \in After + 1 .. pos /\ lua_ptr[i] = Str
    <3>1. i \in p + 1 .. pos /\ lua_ptr[i] = Str /\ i \notin Flagged
      BY <1>8
    <3>2. ~(i \in p + 1 .. After)
      BY <1>7, <3>1
    <3>3. QED
      BY <1>2, <3>1, <3>2
  <2>3. QED
    BY <1>2, <1>3, <2>1, <2>2 DEF StringsKept
<1>10. FirstDone'
  <2>1. CASE p = 0
    <3>1. lua_ptr[1] = Length(Arity(At(p).fun) + 1) /\ Arity(At(p).fun) \in Nat
      BY <1>1, <2>1, WholeTyped DEF Inv
    <3>2. lua_ptr[1].num \in Nat /\ lua_ptr[1].num + 2 = After
      BY <2>1, <3>1, ContentsApart DEF After
    <3>3. QED
      BY <1>2, <1>3, <3>2 DEF Inv, FirstDone
  <2>2. CASE p > 0
    <3>1. lua_ptr[1].num \in Nat /\ p >= lua_ptr[1].num + 2
      BY <2>2 DEF Inv, FirstDone
    <3>2. After >= lua_ptr[1].num + 2
      BY <1>2, <3>1
    <3>3. QED
      BY <1>2, <1>3, <3>1, <3>2 DEF Inv, FirstDone
  <2>3. QED
    BY <1>2, <2>1, <2>2
<1>11. FirstIsSafe'
  <2>1. CASE p = 0
    <3>1. 3 \notin Flagged
      <4>1. 3 \in Slot
        BY <1>2, <2>1 DEF Slot
      <4>2. QED
        BY <4>1 DEF Inv, FirstDone, Flagged
    <3>2. ASSUME NEW i \in Flagged PROVE i \in strs
      <4>1. i \in p + 1 .. After /\ i # p + 3
        BY <1>7, <2>1, <3>1
      <4>2. lua_ptr[i] = Str /\ i \in p + 1 .. pos
        BY <1>2, <1>7, <3>2, <4>1
      <4>3. QED
        BY <1>8, <4>2
    <3>3. QED
      BY <1>3, <3>2 DEF FirstIsSafe
  <2>2. CASE p > 0
    <3>1. lua_ptr[1].num \in Nat /\ p >= lua_ptr[1].num + 2
      BY <2>2 DEF Inv, FirstDone
    <3>2. After > lua_ptr[1].num + 2
      BY <1>2, <3>1
    <3>3. QED
      BY <1>3, <3>2 DEF FirstIsSafe
  <2>3. QED
    BY <1>2, <2>1, <2>2
<1>12. QED
  BY <1>2, <1>3, <1>4, <1>5, <1>6, <1>9, <1>10, <1>11 DEF Inv, TypeOK

-----------------------------------------------------------------------------
(* The actions, one by one. *)

LEMMA SameSlots ==
  ASSUME UNCHANGED <<lua_ptr, flags>>, NEW h
  PROVE  At(h)' = At(h) /\ End(h)' = End(h) /\ (Whole(h)' <=> Whole(h))
<1>1. At(h)' = At(h)
  BY DEF At
<1>2. End(h)' = End(h)
  BY <1>1 DEF End
<1>3. QED
  BY <1>1, <1>2 DEF Whole, pos

(* The steps that leave the slots, the place in the queue and the strings  *)
(* alone keep everything that is said of these.                            *)
LEMMA SameQueue ==
  ASSUME Inv, UNCHANGED <<lua_ptr, flags, p, strs, heads>>,
         pc' = "idle" => p = 0, pc' = "cb" => heads # <<>>
  PROVE  /\ Tiled' /\ StringsKept' /\ FirstDone' /\ pos' = pos
         /\ \A i \in 1 .. Len(heads) : At(heads[i])' = At(heads[i])
         /\ At(p)' = At(p)
<1>1. \A i \in 1 .. Len(heads) : /\ At(heads[i])' = At(heads[i])
                                 /\ End(heads[i])' = End(heads[i])
                                 /\ Whole(heads[i])' <=> Whole(heads[i])
  <2> SUFFICES ASSUME NEW i \in 1 .. Len(heads)
               PROVE  /\ At(heads[i])' = At(heads[i])
                      /\ End(heads[i])' = End(heads[i])
                      /\ Whole(heads[i])' <=> Whole(heads[i])
    OBVIOUS
  <2>1. PICK h : h = heads[i]
    OBVIOUS
  <2>2. h = heads'[i]
    BY <2>1
  <2>3. At(h)' = At(h) /\ End(h)' = End(h) /\ (Whole(h)' <=> Whole(h))
    BY SameSlots
  <2>4. QED
    BY <2>1, <2>2, <2>3
<1>2. pos' = pos
  BY DEF pos
<1>3. Tiled'
  BY <1>1, <1>2 DEF Inv, Tiled
<1>4. At(p)' = At(p)
  BY DEF At
<1>5. QED
  BY <1>1, <1>2, <1>3, <1>4 DEF Inv, StringsKept, FirstDone

(* A call is not taken, because of the room or of a bad argument. *)
LEMMA NotKept ==
  ASSUME Inv, NEW f \in Function, NEW bad, fault = "no",
         flag_arguments(f, bad),
         UNCHANGED <<lua_ptr, p, pc, alive, asked, strs, heads, fault>>
  PROVE  Inv' /\ \A i \in 1 .. Len(heads) : At(heads[i])' = At(heads[i])
<1>1. /\ flags' \in [Slot -> BOOLEAN]
      /\ \A i \in Slot : i <= pos + 3 => (flags'[i] <=> flags[i])
  BY FlagsSet DEF Inv
<1>2. /\ pos \in Nat /\ pos <= Slots /\ Slots \in Nat /\ Len(lua_ptr') \in Nat
      /\ pos <= Len(lua_ptr') /\ pos' = pos
  BY PosNat DEF Inv, pos
<1>3. \A i \in 1 .. pos : lua_ptr'[i] = lua_ptr[i] /\ (flags'[i] <=> flags[i])
  BY <1>1, <1>2 DEF Slot
<1>4. \A i \in 1 .. Len(heads) : /\ Whole(heads[i])'
                                 /\ At(heads[i])' = At(heads[i])
                                 /\ End(heads[i])' = End(heads[i])
  <2> SUFFICES ASSUME NEW i \in 1 .. Len(heads)
               PROVE  /\ Whole(heads[i])'
                      /\ At(heads[i])' = At(heads[i])
                      /\ End(heads[i])' = End(heads[i])
    OBVIOUS
  <2>1. PICK h : h = heads[i]
    OBVIOUS
  <2>2. Whole(h) /\ h = heads'[i]
    BY <2>1 DEF Inv, Tiled
  <2>3. Whole(h)' /\ At(h)' = At(h) /\ End(h)' = End(h)
    BY <1>2, <1>3, <2>2, WholeStays DEF Inv
  <2>4. QED
    BY <2>1, <2>2, <2>3
<1>5. Tiled'
  BY <1>2, <1>4 DEF Inv, Tiled
<1>6. At(p)' = At(p)
  BY DEF At
<1>7. WaitersApart'
  BY <1>4, <1>6 DEF Inv, WaitersApart
<1>8. FirstDone'
  <2>1. 3 \in Slot => ~flags'[3]
    BY <1>1, <1>2 DEF Inv, FirstDone
  <2>2. QED
    BY <2>1 DEF Inv, FirstDone
<1>9. TypeOK' /\ StringsKept' /\ FirstIsSafe'
  BY <1>1, <1>2 DEF Inv, TypeOK, StringsKept, FirstIsSafe
<1>10. QED
  BY <1>4, <1>5, <1>7, <1>8, <1>9 DEF Inv

LEMMA ParseKeeps ==
  ASSUME Inv, NEW f \in Function, NEW e \in Extra, NEW bad,
         parse_lua_function(f, e, bad)
  PROVE  Inv'
<1>1. fault = "no" /\ pc # "do" /\ e \notin alive /\ UNCHANGED <<p, pc, asked>>
  BY DEF parse_lua_function
<1>2. CASE pos + 3 + Arity(f) >= Slots
  <2>1. fault' = "full" /\ UNCHANGED <<lua_ptr, flags, alive, strs, heads>>
    BY <1>2 DEF parse_lua_function
  <2>2. /\ Tiled' /\ StringsKept' /\ FirstDone' /\ pos' = pos
        /\ \A i \in 1 .. Len(heads) : At(heads[i])' = At(heads[i])
        /\ At(p)' = At(p)
    BY <1>1, <2>1, SameQueue DEF Inv, Tiled
  <2>3. WaitersApart'
    BY <1>1, <2>1, <2>2 DEF Inv, WaitersApart
  <2>4. TypeOK' /\ FirstIsSafe'
    BY <1>1, <2>1, <2>2 DEF Inv, TypeOK, FirstIsSafe
  <2>5. QED
    BY <2>2, <2>3, <2>4 DEF Inv
<1>3. CASE ~(pos + 3 + Arity(f) >= Slots) /\ bad = {}
  <2>1. flag_arguments(f, {}) /\ keep_command(f, e) /\ fault' = fault
    BY <1>3 DEF parse_lua_function
  <2>2. pos + 3 + Arity(f) < Slots
    BY <1>3, PosNat, ParamsTyped DEF Inv
  <2>3. QED
    BY <1>1, <2>1, <2>2, EnqueueKeeps
<1>4. CASE ~(pos + 3 + Arity(f) >= Slots) /\ bad # {}
  <2>1. flag_arguments(f, bad) /\ UNCHANGED <<lua_ptr, alive, strs, heads, fault>>
    BY <1>4 DEF parse_lua_function
  <2>2. QED
    BY <1>1, <2>1, NotKept
<1>5. QED
  BY <1>2, <1>3, <1>4

(* The command at p, whose waiter nobody else in the queue has. *)
LEMMA AtPWaits ==
  ASSUME Inv, p < pos \/ pc = "cb"
  PROVE  /\ At(p) \in Request /\ At(p) = At(heads[1]) /\ 1 \in 1 .. Len(heads)
         /\ Len(heads) \in Nat
         /\ \A i \in 1 .. Len(heads) : At(heads[i]).extra = At(p).extra => i = 1
BY HeadIsAtP, WholeTyped DEF Inv, WaitersApart

LEMMA DoneKeeps ==
  ASSUME Inv, fault = "no", p < pos, pc = "do", free_strings,
         asked' = asked \cup {At(p)}, UNCHANGED <<lua_ptr, flags, pc, alive>>
  PROVE  Inv'
<1>1. /\ heads' \in Seq(0 .. Slots) /\ p' \in 0 .. pos' /\ strs' \subseteq Slot
      /\ fault' \in {"no", "freed"}
      /\ Len(heads') = Len(heads) - 1
      /\ \A i \in 1 .. Len(heads') : At(heads[i])' = At(heads[i + 1])
      /\ Tiled' /\ StringsKept' /\ FirstDone' /\ FirstIsSafe'
  BY DequeueKeeps
<1>2. /\ At(p) \in Request /\ At(p) = At(heads[1]) /\ 1 \in 1 .. Len(heads)
      /\ Len(heads) \in Nat
      /\ \A i \in 1 .. Len(heads) : At(heads[i]).extra = At(p).extra => i = 1
  BY AtPWaits
<1>3. TypeOK'
  BY <1>1, <1>2 DEF Inv, TypeOK, pos
<1>4. \A i \in 1 .. Len(heads') : /\ i + 1 \in 1 .. Len(heads) /\ i + 1 # 1
                                  /\ At(heads[i])' = At(heads[i + 1])
  BY <1>1, <1>2
<1>5. WaitersApart'
  <2>1. /\ \A i \in 1 .. Len(heads') : At(heads[i])'.extra \in alive'
        /\ \A r \in asked' : r.extra \in alive'
    BY <1>2, <1>4 DEF Inv, WaitersApart
  <2>2. \A i, j \in 1 .. Len(heads') : At(heads[i])'.extra = At(heads[j])'.extra => i = j
    <3> SUFFICES ASSUME NEW i \in 1 .. Len(heads'), NEW j \in 1 .. Len(heads'),
                        At(heads[i])'.extra = At(heads[j])'.extra
                 PROVE  i = j
      OBVIOUS
    <3>1. i + 1 = j + 1
      BY <1>4 DEF Inv, WaitersApart
    <3>2. QED
      BY <1>1, <1>2, <3>1
  <2>3. /\ \A r, s \in asked' : r.extra = s.extra => r = s
        /\ \A i \in 1 .. Len(heads'), r \in asked' :
             At(heads[i])'.extra = r.extra => pc' = "cb" /\ i = 1
    BY <1>2, <1>4 DEF Inv, WaitersApart
  <2>4. pc' # "cb"
    OBVIOUS
  <2>5. QED
    BY <2>1, <2>2, <2>3, <2>4 DEF WaitersApart
<1>6. QED
  BY <1>1, <1>3, <1>5 DEF Inv

LEMMA BeginsRefused ==
  ASSUME Inv, do_refused
  PROVE  Inv' /\ \A i \in 1 .. Len(heads) : At(heads[i])' = At(heads[i])
<1>1. /\ p < pos /\ pc = "do" /\ pc' = "cb" /\ asked' = asked \cup {At(p)}
      /\ UNCHANGED <<lua_ptr, flags, p, alive, strs, heads, fault>>
  BY DEF do_refused, Doing
<1>2. /\ At(p) \in Request /\ At(p) = At(heads[1]) /\ 1 \in 1 .. Len(heads)
      /\ \A i \in 1 .. Len(heads) : At(heads[i]).extra = At(p).extra => i = 1
      /\ heads # <<>>
  BY <1>1, AtPWaits, HeadIsAtP DEF Inv
<1>3. /\ Tiled' /\ StringsKept' /\ FirstDone' /\ pos' = pos
      /\ \A i \in 1 .. Len(heads) : At(heads[i])' = At(heads[i])
      /\ At(p)' = At(p)
  BY <1>1, <1>2, SameQueue
<1>4. WaitersApart'
  BY <1>1, <1>2, <1>3 DEF Inv, WaitersApart
<1>5. TypeOK' /\ FirstIsSafe'
  BY <1>1, <1>2, <1>3 DEF Inv, TypeOK, FirstIsSafe
<1>6. QED
  BY <1>3, <1>4, <1>5 DEF Inv

LEMMA RefusedKeeps ==
  ASSUME Inv, refused
  PROVE  Inv'
<1>1. /\ fault = "no" /\ pc = "cb" /\ pc' = "do" /\ free_strings
      /\ alive' = alive \ {At(p).extra} /\ asked' = asked \ {At(p)}
      /\ UNCHANGED <<lua_ptr, flags>>
  BY DEF refused
<1>2. /\ heads' \in Seq(0 .. Slots) /\ p' \in 0 .. pos' /\ strs' \subseteq Slot
      /\ fault' \in {"no", "freed"}
      /\ Len(heads') = Len(heads) - 1
      /\ \A i \in 1 .. Len(heads') : At(heads[i])' = At(heads[i + 1])
      /\ Tiled' /\ StringsKept' /\ FirstDone' /\ FirstIsSafe'
  BY <1>1, DequeueKeeps
<1>3. /\ At(p) \in Request /\ Len(heads) \in Nat
      /\ \A i \in 1 .. Len(heads) : At(heads[i]).extra = At(p).extra => i = 1
  BY <1>1, AtPWaits
<1>4. TypeOK'
  BY <1>1, <1>2 DEF Inv, TypeOK, pos
<1>5. \A i \in 1 .. Len(heads') : /\ i + 1 \in 1 .. Len(heads) /\ i + 1 # 1
                                  /\ At(heads[i])' = At(heads[i + 1])
  BY <1>2, <1>3
<1>6. WaitersApart'
  <2>1. \A i \in 1 .. Len(heads') : At(heads[i])'.extra \in alive'
    BY <1>1, <1>3, <1>5 DEF Inv, WaitersApart
  <2>2. \A r \in asked' : r.extra \in alive'
    BY <1>1 DEF Inv, WaitersApart
  <2>3. \A i, j \in 1 .. Len(heads') : At(heads[i])'.extra = At(heads[j])'.extra => i = j
    <3> SUFFICES ASSUME NEW i \in 1 .. Len(heads'), NEW j \in 1 .. Len(heads'),
                        At(heads[i])'.extra = At(heads[j])'.extra
                 PROVE  i = j
      OBVIOUS
    <3>1. i + 1 = j + 1
      BY <1>5 DEF Inv, WaitersApart
    <3>2. QED
      BY <1>2, <1>3, <3>1
  <2>4. /\ \A r, s \in asked' : r.extra = s.extra => r = s
        /\ \A i \in 1 .. Len(heads'), r \in asked' :
             At(heads[i])'.extra = r.extra => pc' = "cb" /\ i = 1
    BY <1>1, <1>5 DEF Inv, WaitersApart
  <2>5. QED
    BY <1>1, <2>1, <2>2, <2>3, <2>4 DEF WaitersApart
<1>7. QED
  BY <1>2, <1>4, <1>6 DEF Inv

LEMMA EndKeeps ==
  ASSUME Inv, lua_do_all_end
  PROVE  Inv' /\ heads = <<>>
<1>1. /\ fault = "no" /\ pc = "do" /\ p >= pos
      /\ pc' = "idle" /\ lua_ptr' = <<>> /\ p' = 0
      /\ UNCHANGED <<flags, alive, asked, strs, heads, fault>>
  BY DEF lua_do_all_end
<1>2. /\ pos \in Nat /\ Len(heads) \in Nat /\ (heads = <<>> <=> Len(heads) = 0)
      /\ p \in 0 .. pos /\ Slots \in Nat
  BY PosNat DEF Inv, TypeOK
<1>3. heads = <<>>
  <2> SUFFICES ASSUME heads # <<>> PROVE FALSE
    OBVIOUS
  <2>1. heads[1] = p /\ 1 \in 1 .. Len(heads) /\ Whole(heads[1])
    BY <1>2 DEF Inv, Tiled
  <2>2. p + 3 <= End(p) /\ End(p) <= pos /\ End(p) \in Nat
    BY <2>1, WholeTyped DEF Inv
  <2>3. QED
    BY <1>1, <1>2, <2>2
<1>4. p = pos
  BY <1>3 DEF Inv, Tiled
<1>5. pos' = 0
  BY <1>1 DEF pos
<1>6. StringsKept'
  <2>1. strs = {}
    BY <1>2, <1>4 DEF Inv, StringsKept
  <2>2. QED
    BY <1>1, <1>5, <2>1 DEF StringsKept
<1>7. Tiled' /\ WaitersApart' /\ FirstDone' /\ FirstIsSafe'
  BY <1>1, <1>2, <1>3, <1>5 DEF Inv, Tiled, WaitersApart, FirstDone, FirstIsSafe
<1>8. TypeOK'
  BY <1>1, <1>2, <1>5 DEF Inv, TypeOK
<1>9. QED
  BY <1>3, <1>6, <1>7, <1>8 DEF Inv

LEMMA AnsweredKeeps ==
  ASSUME Inv, NEW r, lua_cb(r)
  PROVE  Inv' /\ \A i \in 1 .. Len(heads) : At(heads[i])' = At(heads[i])
<1>1. /\ pc = "idle" /\ r \in asked
      /\ asked' = asked \ {r} /\ alive' = alive \ {r.extra}
      /\ UNCHANGED <<lua_ptr, flags, p, pc, strs, heads, fault>>
  BY DEF lua_cb
<1>2. /\ Tiled' /\ StringsKept' /\ FirstDone' /\ pos' = pos
      /\ \A i \in 1 .. Len(heads) : At(heads[i])' = At(heads[i])
  BY <1>1, SameQueue DEF Inv, Tiled
<1>3. WaitersApart'
  BY <1>1, <1>2 DEF Inv, WaitersApart
<1>4. TypeOK' /\ FirstIsSafe'
  BY <1>1, <1>2 DEF Inv, TypeOK, FirstIsSafe
<1>5. QED
  BY <1>2, <1>3, <1>4 DEF Inv

(* lua_do_all begins, or comes to grief: slots and waiters stay. *)
LEMMA QuietKeeps ==
  ASSUME Inv, lua_do_all \/ do_restore_msg \/ do_set_profile_name
  PROVE  Inv' /\ \A i \in 1 .. Len(heads) : At(heads[i])' = At(heads[i])
<1>1. /\ pc' = "do" /\ p' = p /\ UNCHANGED <<lua_ptr, flags, alive, asked, strs, heads>>
      /\ pc \in {"idle", "do"} /\ fault' # "freed"
      /\ fault' \in {"no", "unknown", "overread"}
  BY DEF lua_do_all, do_restore_msg, do_set_profile_name, Doing, Inv, Tiled
<1>2. /\ Tiled' /\ StringsKept' /\ FirstDone' /\ pos' = pos
      /\ \A i \in 1 .. Len(heads) : At(heads[i])' = At(heads[i])
  BY <1>1, SameQueue
<1>3. WaitersApart'
  BY <1>1, <1>2 DEF Inv, WaitersApart
<1>4. TypeOK' /\ FirstIsSafe'
  BY <1>1, <1>2 DEF Inv, TypeOK, FirstIsSafe
<1>5. QED
  BY <1>2, <1>3, <1>4 DEF Inv

LEMMA InitInv ==
  ASSUME Init
  PROVE  Inv
<1>1. pos = 0 /\ Len(heads) = 0 /\ Slots \in Nat
  BY LuaQueueAssumption DEF Init, pos, LuaQueueAssumption
<1>2. TypeOK
  BY <1>1 DEF Init, TypeOK
<1>3. Tiled /\ WaitersApart /\ StringsKept /\ FirstDone /\ FirstIsSafe
  BY <1>1 DEF Init, Tiled, WaitersApart, StringsKept, FirstDone, FirstIsSafe
<1>4. QED
  BY <1>2, <1>3 DEF Inv

LEMMA NextInv ==
  ASSUME Inv, [Next]_vars
  PROVE  Inv'
<1>1. CASE \E f \in Function, e \in Extra, bad \in SUBSET (1 .. 2) :
             bad \subseteq DOMAIN Params[f] /\ parse_lua_function(f, e, bad)
  BY <1>1, ParseKeeps
<1>2. CASE do_command
  BY <1>2, DoneKeeps DEF do_command, Doing
<1>3. CASE do_refused
  BY <1>3, BeginsRefused
<1>4. CASE refused
  BY <1>4, RefusedKeeps
<1>5. CASE lua_do_all_end
  BY <1>5, EndKeeps
<1>6. CASE \E r \in Request : lua_cb(r)
  BY <1>6, AnsweredKeeps
<1>7. CASE lua_do_all \/ do_restore_msg \/ do_set_profile_name
  BY <1>7, QuietKeeps
<1>8. CASE Stopped \/ UNCHANGED vars
  <2>1. UNCHANGED vars
    BY <1>8 DEF Stopped
  <2>2. UNCHANGED <<lua_ptr, flags, p, pc, alive, asked, strs, heads, fault>>
    BY <2>1 DEF vars
  <2>3. /\ Tiled' /\ StringsKept' /\ FirstDone' /\ pos' = pos
        /\ \A i \in 1 .. Len(heads) : At(heads[i])' = At(heads[i])
        /\ At(p)' = At(p)
    BY <2>2, SameQueue DEF Inv, Tiled
  <2>4. WaitersApart'
    BY <2>2, <2>3 DEF Inv, WaitersApart
  <2>5. TypeOK' /\ FirstIsSafe'
    BY <2>2, <2>3 DEF Inv, TypeOK, FirstIsSafe
  <2>6. QED
    BY <2>3, <2>4, <2>5 DEF Inv
<1>9. QED
  BY <1>1, <1>2, <1>3, <1>4, <1>5, <1>6, <1>7, <1>8 DEF Next, Working

-----------------------------------------------------------------------------
(* The queue of slots implements the sequence of calls. *)

(* While a command is refused its call has begun, and is not waiting. *)
Begun == IF pc = "cb" THEN 1 ELSE 0

QueuedAtHeads ==
  /\ Len(heads) \in Nat /\ Begun <= Len(heads)
  /\ Queued = [i \in 1 .. Len(heads) - Begun |-> At(heads[i + Begun])]
  /\ Queued \in Seq(Request) /\ Len(Queued) = Len(heads) - Begun
  /\ \A i \in 1 .. Len(heads) - Begun : Queued[i] = At(heads[i + Begun])

LEMMA QueuedIs == Inv => QueuedAtHeads
<1> SUFFICES ASSUME Inv PROVE QueuedAtHeads
  OBVIOUS
<1>1. /\ Len(heads) \in Nat /\ (heads = <<>> <=> Len(heads) = 0)
      /\ heads \in Seq(0 .. Slots) /\ DOMAIN heads = 1 .. Len(heads)
  BY PosNat, LenProperties DEF Inv, TypeOK
<1>2. \A i \in 1 .. Len(heads) : At(heads[i]) \in Request
  BY WholeTyped DEF Inv, Tiled
<1>3. /\ Begun \in {0, 1} /\ Begun <= Len(heads)
      /\ Queued = [i \in 1 .. Len(heads) - Begun |-> At(heads[i + Begun])]
  <2>1. CASE pc = "cb"
    <3>1. heads # <<>>
      BY <2>1 DEF Inv, Tiled
    <3>2. /\ Rest \in Seq(0 .. Slots) /\ Len(Rest) = Len(heads) - 1
          /\ \A i \in 1 .. Len(heads) - 1 : Rest[i] = heads[i + 1]
      BY <3>1, RestTyped DEF Inv
    <3>3. DOMAIN Rest = 1 .. Len(heads) - 1
      BY <3>2, LenProperties
    <3>4. Queued = [i \in 1 .. Len(heads) - 1 |-> At(heads[i + 1])]
      BY <2>1, <3>2, <3>3 DEF Queued, Waiting
    <3>5. Begun = 1 /\ Begun <= Len(heads)
      BY <1>1, <2>1, <3>1 DEF Begun
    <3>6. QED
      BY <3>4, <3>5
  <2>2. CASE pc # "cb"
    <3>1. Queued = [i \in 1 .. Len(heads) |-> At(heads[i])]
      BY <1>1, <2>2 DEF Queued, Waiting
    <3>2. Begun = 0 /\ Len(heads) - 0 = Len(heads) /\ \A i \in 1 .. Len(heads) : i + 0 = i
      BY <1>1, <2>2 DEF Begun
    <3>3. QED
      BY <1>1, <3>1, <3>2
  <2>3. QED
    BY <2>1, <2>2
<1> DEFINE n == Len(heads) - Begun
           Called(i) == At(heads[i + Begun])
<1>4. n \in Nat
  BY <1>1, <1>3
<1>5. \A i \in 1 .. n : Called(i) \in Request
  <2> SUFFICES ASSUME NEW i \in 1 .. n PROVE Called(i) \in Request
    OBVIOUS
  <2>1. PICK j \in 1 .. Len(heads) : j = i + Begun
    BY <1>1, <1>3
  <2>2. At(heads[j]) \in Request
    BY <1>2
  <2>3. QED
    BY <2>1, <2>2
<1>6. Queued = [i \in 1 .. n |-> Called(i)]
  BY <1>3
<1> HIDE DEF n, Called
<1>7. Queued \in Seq(Request) /\ Len(Queued) = n /\ \A i \in 1 .. n : Queued[i] = Called(i)
  BY <1>4, <1>5, <1>6
<1>8. QED
  BY <1>1, <1>3, <1>7 DEF QueuedAtHeads, n, Called

LEMMA QueuedNext == Inv' => QueuedAtHeads'
BY QueuedIs, PTL

LEMMA QueuedStays ==
  ASSUME Inv, Inv', heads' = heads, pc' = "cb" <=> pc = "cb",
         \A i \in 1 .. Len(heads) : At(heads[i])' = At(heads[i])
  PROVE  Queued' = Queued
<1>1. Begun' = Begun /\ Begun \in {0, 1}
  BY DEF Begun
<1>2. \A i \in 1 .. Len(heads) - Begun : At(heads[i + Begun])' = At(heads[i + Begun])
  <2> SUFFICES ASSUME NEW i \in 1 .. Len(heads) - Begun
               PROVE  At(heads[i + Begun])' = At(heads[i + Begun])
    OBVIOUS
  <2>1. PICK j \in 1 .. Len(heads) : j = i + Begun
    BY <1>1, QueuedIs DEF QueuedAtHeads
  <2>2. At(heads[j])' = At(heads[j])
    OBVIOUS
  <2>3. QED
    BY <1>1, <2>1, <2>2
<1>3. QED
  BY <1>1, <1>2, QueuedIs, QueuedNext DEF QueuedAtHeads

LEMMA TailIs ==
  ASSUME NEW S, NEW q \in Seq(S), NEW r \in Seq(S), q # <<>>, Len(r) = Len(q) - 1,
         \A i \in 1 .. Len(r) : r[i] = q[i + 1]
  PROVE  r = Tail(q) /\ Head(q) = q[1]
<1>1. /\ Tail(q) \in Seq(S) /\ Len(Tail(q)) = Len(q) - 1
      /\ \A i \in 1 .. Len(Tail(q)) : Tail(q)[i] = q[i + 1]
      /\ Head(q) = q[1]
  BY HeadTailProperties
<1>2. r = Tail(q)
  BY <1>1, SeqEqual
<1>3. QED
  BY <1>1, <1>2

LEMMA AppendIs ==
  ASSUME NEW S, NEW q \in Seq(S), NEW r \in Seq(S), NEW x \in S, Len(r) = Len(q) + 1,
         \A i \in 1 .. Len(q) : r[i] = q[i], r[Len(q) + 1] = x
  PROVE  r = Append(q, x)
<1>1. /\ Append(q, x) \in Seq(S) /\ Len(Append(q, x)) = Len(q) + 1
      /\ \A i \in 1 .. Len(q) : Append(q, x)[i] = q[i]
      /\ Append(q, x)[Len(q) + 1] = x
  BY AppendProperties
<1>2. Len(q) \in Nat
  BY LenProperties
<1>3. \A i \in 1 .. Len(r) : r[i] = Append(q, x)[i]
  BY <1>1, <1>2
<1>4. QED
  BY <1>1, <1>3, SeqEqual

LEMMA EnqueueAccepts ==
  ASSUME Inv, NEW f \in Function, NEW e \in Extra, fault = "no", pc # "do",
         e \notin alive, pos + 3 + Arity(f) < Slots,
         flag_arguments(f, {}), keep_command(f, e), UNCHANGED <<p, pc, asked, fault>>
  PROVE  Calls!Accept(f, e)
<1> DEFINE call == [fun |-> f, extra |-> e]
<1>1. /\ Inv' /\ heads' = Append(heads, pos)
      /\ \A i \in 1 .. Len(heads) : At(heads[i])' = At(heads[i])
      /\ \A h : h = pos => At(h)' = call
  BY EnqueueKeeps
<1>2. QueuedAtHeads /\ QueuedAtHeads'
  BY <1>1, QueuedIs, QueuedNext
<1>3. /\ Len(heads) \in Nat /\ Len(heads') = Len(heads) + 1
      /\ \A i \in 1 .. Len(heads) : heads'[i] = heads[i]
      /\ heads'[Len(heads) + 1] = pos
  <2>1. heads \in Seq(0 .. Slots) /\ pos \in 0 .. Slots /\ Len(heads) \in Nat
    BY PosNat DEF Inv, TypeOK
  <2>2. QED
    BY <1>1, <2>1, AppendProperties
<1>4. Begun' = Begun /\ Begun \in {0, 1} /\ Begun <= Len(heads)
  BY <1>2 DEF Begun, QueuedAtHeads
<1>5. /\ Queued \in Seq(Request) /\ Len(Queued) = Len(heads) - Begun
      /\ \A i \in 1 .. Len(heads) - Begun : Queued[i] = At(heads[i + Begun])
      /\ Queued' \in Seq(Request) /\ Len(Queued') = Len(heads') - Begun
      /\ \A i \in 1 .. Len(heads') - Begun : Queued'[i] = At(heads[i + Begun])'
  BY <1>2, <1>4 DEF QueuedAtHeads, Request
<1>6. Len(Queued') = Len(Queued) + 1
  BY <1>3, <1>4, <1>5
<1>7. \A i \in 1 .. Len(Queued) : Queued'[i] = Queued[i]
  <2> SUFFICES ASSUME NEW i \in 1 .. Len(heads) - Begun PROVE Queued'[i] = Queued[i]
    BY <1>5
  <2>1. PICK j \in 1 .. Len(heads) : j = i + Begun
    BY <1>3, <1>4
  <2>2. At(heads[j])' = At(heads[j])
    BY <1>1
  <2>3. Queued[i] = At(heads[j])
    BY <1>5, <2>1
  <2>4. i \in 1 .. Len(heads') - Begun
    BY <1>3, <1>4
  <2>5. Queued'[i] = At(heads[j])'
    BY <1>4, <1>5, <2>1, <2>4
  <2>6. QED
    BY <2>2, <2>3, <2>5
<1>8. Queued'[Len(Queued) + 1] = call
  <2>1. PICK j : j = Len(heads) + 1
    OBVIOUS
  <2>2. /\ Len(Queued) + 1 \in 1 .. Len(heads') - Begun
        /\ j = Len(Queued) + 1 + Begun
    BY <1>3, <1>4, <1>5, <2>1
  <2>3. Queued'[Len(Queued) + 1] = At(heads[j])'
    BY <1>4, <1>5, <2>2
  <2>4. PICK h : h = heads'[j]
    OBVIOUS
  <2>5. h = pos
    BY <1>3, <2>1, <2>4
  <2>6. At(heads[j])' = At(h)'
    BY <2>4 DEF At
  <2>7. QED
    BY <1>1, <2>3, <2>5, <2>6
<1>9. Queued' = Append(Queued, call)
  <2>1. call \in Request
    BY DEF Request
  <2>2. QED
    BY <1>5, <1>6, <1>7, <1>8, <2>1, AppendIs
<1>10. \A r \in Calls!Pending : r.extra # e
  <2>1. ASSUME NEW i \in DOMAIN Queued PROVE Queued[i].extra \in alive
    <3>1. DOMAIN Queued = 1 .. Len(heads) - Begun
      BY <1>5, LenProperties
    <3>2. PICK j \in 1 .. Len(heads) : j = i + Begun
      BY <1>3, <1>4, <3>1
    <3>3. Queued[i] = At(heads[j])
      BY <1>5, <3>1, <3>2
    <3>4. QED
      BY <3>3 DEF Inv, WaitersApart
  <2>2. \A r \in asked : r.extra \in alive
    BY DEF Inv, WaitersApart
  <2>3. QED
    BY <2>1, <2>2 DEF Calls!Pending
<1>11. QED
  BY <1>9, <1>10 DEF Calls!Accept

(* The call at p begins, whether it is refused or not. *)
LEMMA BeginBegins ==
  ASSUME Inv, Inv', p < pos, pc = "do", asked' = asked \cup {At(p)},
         \/ pc' = "do" /\ heads' = Rest
            /\ \A i \in 1 .. Len(heads') : At(heads[i])' = At(heads[i + 1])
         \/ pc' = "cb" /\ heads' = heads
            /\ \A i \in 1 .. Len(heads) : At(heads[i])' = At(heads[i])
  PROVE  Calls!Begin
<1>1. QueuedAtHeads /\ QueuedAtHeads'
  BY QueuedIs, QueuedNext
<1>2. /\ At(p) = At(heads[1]) /\ 1 \in 1 .. Len(heads) /\ Len(heads) \in Nat
      /\ heads # <<>>
  BY AtPWaits, HeadIsAtP DEF Inv
<1>3. Len(Rest) = Len(heads) - 1
  BY <1>2, RestTyped DEF Inv
<1>4. Begun = 0
  BY DEF Begun
<1>5. /\ Queued \in Seq(Request) /\ Len(Queued) = Len(heads)
      /\ \A i \in 1 .. Len(heads) : Queued[i] = At(heads[i])
  BY <1>1, <1>2, <1>4 DEF QueuedAtHeads
<1>6. /\ Queued' \in Seq(Request) /\ Len(Queued') = Len(heads') - Begun'
      /\ \A i \in 1 .. Len(heads') - Begun' : Queued'[i] = At(heads[i + Begun])'
  BY <1>1 DEF QueuedAtHeads, Request
<1>7. /\ Len(Queued') = Len(heads) - 1
      /\ \A i \in 1 .. Len(heads) - 1 : Queued'[i] = At(heads[i + 1])
  <2>1. CASE pc' = "do" /\ heads' = Rest
    <3>1. Begun' = 0 /\ \A i \in 1 .. Len(heads') : At(heads[i])' = At(heads[i + 1])
      BY <2>1 DEF Begun
    <3>2. Len(heads') = Len(heads) - 1
      BY <1>3, <2>1
    <3>3. \A i \in 1 .. Len(heads) - 1 : i + 0 = i
      BY <1>2
    <3>4. Len(heads') - 0 = Len(heads) - 1
      BY <1>2, <3>2
    <3>5. QED
      BY <1>6, <3>1, <3>2, <3>3, <3>4
  <2>2. CASE pc' = "cb" /\ heads' = heads
    <3>1. Begun' = 1 /\ \A i \in 1 .. Len(heads) : At(heads[i])' = At(heads[i])
      BY <2>2 DEF Begun
    <3>2. ASSUME NEW i \in 1 .. Len(heads) - 1 PROVE Queued'[i] = At(heads[i + 1])
      <4>1. PICK j \in 1 .. Len(heads) : j = i + 1
        BY <1>2
      <4>2. Queued'[i] = At(heads[j])'
        BY <1>6, <2>2, <3>1, <4>1
      <4>3. QED
        BY <3>1, <4>1, <4>2
    <3>3. QED
      BY <1>6, <2>2, <3>1, <3>2
  <2>3. QED
    BY <2>1, <2>2
<1>8. Queued # <<>>
  BY <1>2, <1>5
<1>9. \A i \in 1 .. Len(Queued') : Queued'[i] = Queued[i + 1]
  <2> SUFFICES ASSUME NEW i \in 1 .. Len(heads) - 1
               PROVE  Queued'[i] = Queued[i + 1]
    BY <1>7
  <2>1. i + 1 \in 1 .. Len(heads)
    BY <1>2
  <2>2. QED
    BY <1>5, <1>7, <2>1
<1>10. Queued' = Tail(Queued) /\ Head(Queued) = Queued[1]
  BY <1>5, <1>6, <1>7, <1>8, <1>9, TailIs
<1>11. Head(Queued) = At(p)
  BY <1>2, <1>5, <1>10
<1>12. QED
  BY <1>8, <1>10, <1>11 DEF Calls!Begin

(* The waiting calls do not move when the refused one is done. *)
LEMMA RefusedCallsBack ==
  ASSUME Inv, refused
  PROVE  Calls!CallBack(At(p)) /\ At(p) \in Request
<1>1. /\ fault = "no" /\ pc = "cb" /\ pc' = "do" /\ free_strings
      /\ asked' = asked \ {At(p)} /\ UNCHANGED <<lua_ptr, flags>>
  BY DEF refused
<1>2. /\ Len(heads') = Len(heads) - 1
      /\ \A i \in 1 .. Len(heads') : At(heads[i])' = At(heads[i + 1])
  BY <1>1, DequeueKeeps
<1>3. QueuedAtHeads /\ QueuedAtHeads'
  BY RefusedKeeps, QueuedIs, QueuedNext
<1>4. /\ Queued \in Seq(Request) /\ Len(Queued) = Len(heads) - 1
      /\ \A i \in 1 .. Len(heads) - 1 : Queued[i] = At(heads[i + 1])
  BY <1>1, <1>3 DEF QueuedAtHeads, Begun
<1>5. /\ Queued' \in Seq(Request) /\ Len(Queued') = Len(heads')
      /\ \A i \in 1 .. Len(heads') : Queued'[i] = At(heads[i])'
  <2>1. Begun' = 0 /\ Len(heads') \in Nat
    BY <1>1, <1>3 DEF QueuedAtHeads, Begun
  <2>2. Len(heads') - 0 = Len(heads') /\ \A i \in 1 .. Len(heads') : i + 0 = i
    BY <2>1
  <2>3. QED
    BY <1>3, <2>1, <2>2 DEF QueuedAtHeads, Request
<1>6. Queued' = Queued
  <2>1. \A i \in 1 .. Len(Queued') : Queued'[i] = Queued[i]
    BY <1>2, <1>4, <1>5
  <2>2. QED
    BY <1>2, <1>4, <1>5, <2>1, SeqEqual
<1>7. At(p) \in asked /\ At(p) \in Request
  BY <1>1, AtPWaits DEF Inv, WaitersApart
<1>8. QED
  BY <1>1, <1>6, <1>7 DEF Calls!CallBack

LEMMA StepRefines ==
  ASSUME Inv, [Next]_vars
  PROVE  [Calls!Next]_(Calls!vars)
<1>1. ASSUME NEW f \in Function, NEW e \in Extra, NEW bad, parse_lua_function(f, e, bad)
      PROVE  Calls!Accept(f, e) \/ (UNCHANGED asked /\ Queued' = Queued)
  <2>1. fault = "no" /\ pc # "do" /\ e \notin alive /\ UNCHANGED <<p, pc, asked>>
    BY <1>1 DEF parse_lua_function
  <2>2. Inv'
    BY <1>1, ParseKeeps
  <2>3. CASE pos + 3 + Arity(f) >= Slots
    <3>1. fault' = "full" /\ UNCHANGED <<lua_ptr, flags, alive, strs, heads>>
      BY <1>1, <2>3 DEF parse_lua_function
    <3>2. \A i \in 1 .. Len(heads) : At(heads[i])' = At(heads[i])
      BY <2>1, <3>1, SameQueue DEF Inv, Tiled
    <3>3. QED
      BY <2>1, <2>2, <3>1, <3>2, QueuedStays
  <2>4. CASE ~(pos + 3 + Arity(f) >= Slots) /\ bad = {}
    <3>1. flag_arguments(f, {}) /\ keep_command(f, e) /\ fault' = fault
      BY <1>1, <2>4 DEF parse_lua_function
    <3>2. pos + 3 + Arity(f) < Slots
      BY <2>4, PosNat, ParamsTyped DEF Inv
    <3>3. QED
      BY <2>1, <3>1, <3>2, EnqueueAccepts
  <2>5. CASE ~(pos + 3 + Arity(f) >= Slots) /\ bad # {}
    <3>1. flag_arguments(f, bad) /\ UNCHANGED <<lua_ptr, alive, strs, heads, fault>>
      BY <1>1, <2>5 DEF parse_lua_function
    <3>2. \A i \in 1 .. Len(heads) : At(heads[i])' = At(heads[i])
      BY <2>1, <3>1, NotKept
    <3>3. QED
      BY <2>1, <2>2, <3>1, <3>2, QueuedStays
  <2>6. QED
    BY <2>3, <2>4, <2>5
<1>2. CASE do_command
  <2>1. /\ fault = "no" /\ p < pos /\ pc = "do" /\ pc' = "do" /\ free_strings
        /\ asked' = asked \cup {At(p)} /\ UNCHANGED <<lua_ptr, flags>>
    BY <1>2 DEF do_command, Doing
  <2>2. /\ heads' = Rest
        /\ \A i \in 1 .. Len(heads') : At(heads[i])' = At(heads[i + 1])
    BY <2>1, DequeueKeeps DEF free_strings
  <2>3. Calls!Begin
    BY <2>1, <2>2, NextInv, BeginBegins
  <2>4. QED
    BY <2>3 DEF Calls!Next
<1>3. CASE do_refused
  <2>1. /\ p < pos /\ pc = "do" /\ pc' = "cb" /\ heads' = heads
        /\ asked' = asked \cup {At(p)}
    BY <1>3 DEF do_refused, Doing
  <2>2. Inv' /\ \A i \in 1 .. Len(heads) : At(heads[i])' = At(heads[i])
    BY <1>3, BeginsRefused
  <2>3. Calls!Begin
    BY <2>1, <2>2, BeginBegins
  <2>4. QED
    BY <2>3 DEF Calls!Next
<1>4. CASE refused
  <2>1. Calls!CallBack(At(p)) /\ At(p) \in Calls!Request
    BY <1>4, RefusedCallsBack DEF Request, Calls!Request
  <2>2. QED
    BY <2>1 DEF Calls!Next
<1>5. CASE lua_do_all_end
  <2>1. heads = <<>> /\ Inv' /\ heads' = heads /\ pc = "do" /\ pc' = "idle"
        /\ UNCHANGED asked
    BY <1>5, EndKeeps DEF lua_do_all_end
  <2>2. \A i \in 1 .. Len(heads) : At(heads[i])' = At(heads[i])
    BY <2>1
  <2>3. QED
    BY <2>1, <2>2, QueuedStays DEF Calls!vars
<1>6. ASSUME NEW r \in Request, lua_cb(r)
      PROVE  Calls!CallBack(r)
  <2>1. r \in asked /\ asked' = asked \ {r} /\ UNCHANGED <<pc, heads>>
    BY <1>6 DEF lua_cb
  <2>2. Inv' /\ \A i \in 1 .. Len(heads) : At(heads[i])' = At(heads[i])
    BY <1>6, AnsweredKeeps
  <2>3. QED
    BY <2>1, <2>2, QueuedStays DEF Calls!CallBack
<1>7. CASE lua_do_all \/ do_restore_msg \/ do_set_profile_name
  <2>1. Inv' /\ \A i \in 1 .. Len(heads) : At(heads[i])' = At(heads[i])
    BY <1>7, QuietKeeps
  <2>2. UNCHANGED <<asked, heads>> /\ pc # "cb" /\ pc' # "cb"
    BY <1>7 DEF lua_do_all, do_restore_msg, do_set_profile_name, Doing
  <2>3. QED
    BY <2>1, <2>2, QueuedStays DEF Calls!vars
<1>8. CASE Stopped \/ UNCHANGED vars
  <2>1. UNCHANGED vars
    BY <1>8 DEF Stopped
  <2>2. UNCHANGED <<lua_ptr, flags, p, pc, alive, asked, strs, heads, fault>>
    BY <2>1 DEF vars
  <2>3. \A i \in 1 .. Len(heads) : At(heads[i])' = At(heads[i])
    BY <2>2, SameQueue DEF Inv, Tiled
  <2>4. QED
    BY <2>2, <2>3, NextInv, QueuedStays DEF Calls!vars
<1>9. QED
  <2>1. CASE \E f \in Function, e \in Extra, bad \in SUBSET (1 .. 2) :
               bad \subseteq DOMAIN Params[f] /\ parse_lua_function(f, e, bad)
    BY <1>1, <2>1 DEF Calls!Next, Calls!vars
  <2>2. CASE \E r \in Request : lua_cb(r)
    BY <1>6, <2>2 DEF Calls!Next, Request, Calls!Request
  <2>3. QED
    BY <1>2, <1>3, <1>4, <1>5, <1>7, <1>8, <2>1, <2>2 DEF Next, Working

-----------------------------------------------------------------------------
(* The theorems. *)

(* The invariant holds: commands tile the queue, waiters are apart. *)
THEOREM InvCorrect == Spec => []Inv
<1>1. Init => Inv
  BY InitInv
<1>2. Inv /\ [Next]_vars => Inv'
  BY NextInv
<1>3. QED
  BY <1>1, <1>2, PTL DEF Spec

(* Slots, flags, waiters and strings have their types: the queue never     *)
(* outgrows lua_ptr (lua-tg.c:1306).                                       *)
THEOREM TypeCorrect == Spec => []TypeOK
<1>1. Inv => TypeOK
  BY DEF Inv
<1>2. QED
  BY <1>1, InvCorrect, PTL

(* A copied string lives exactly as long as its command is in the queue    *)
(* (lua-tg.c:1384 and 1608), for every number of slots, also when          *)
(* callbacks enqueue in the middle of the turn.                            *)
THEOREM StringsCorrect == Spec => []StringsKept
<1>1. Inv => StringsKept
  BY DEF Inv
<1>2. QED
  BY <1>1, InvCorrect, PTL

(* The first command of a turn never frees a waiter as a string            *)
(* (lua-tg.c:1608): the third slot is the waiter's in every first command, *)
(* so no string ever flags it.                                             *)
THEOREM FirstSafeCorrect == Spec => []FirstIsSafe
<1>1. Inv => FirstIsSafe
  BY DEF Inv
<1>2. QED
  BY <1>1, InvCorrect, PTL

(* The slots of lua_ptr implement the sequence of calls of CallQueue       *)
(* (lua-tg.c:1145 and 1487): every call that was accepted is begun once,   *)
(* in its turn, and called back once, with its own waiter.                 *)
THEOREM Refines == Spec => CallsSpec
<1>1. Init => Calls!Init
  <2> SUFFICES ASSUME Init PROVE Calls!Init
    OBVIOUS
  <2>1. QueuedAtHeads
    BY InitInv, QueuedIs
  <2>2. Len(heads) = 0 /\ Begun = 0 /\ asked = {}
    BY DEF Init, Begun
  <2>3. Queued \in Seq(Request) /\ Len(Queued) = 0
    BY <2>1, <2>2 DEF QueuedAtHeads
  <2>4. Queued = <<>>
    BY <2>3, EmptySeq
  <2>5. QED
    BY <2>2, <2>4 DEF Calls!Init
<1>2. Inv /\ [Next]_vars => [Calls!Next]_(Calls!vars)
  BY StepRefines
<1>3. QED
  BY <1>1, <1>2, InvCorrect, PTL DEF Spec, CallsSpec, Calls!Spec
=============================================================================
