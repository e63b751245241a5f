-------------------------- MODULE StateFilesProofs --------------------------
(***************************************************************************)
(* What StateFiles says of the files, for every set of chats and data      *)
(* centers, every length and every bound: a file that was written in full  *)
(* is read as it was meant, a file of the same shape survives a write that *)
(* is cut off, and no message counted as received is lost.                 *)
(*                                                                         *)
(* The argument goes over the records of a file one by one.  A record lies *)
(* at a place that depends only on the lengths before it, so that a new    *)
(* content with the same lengths falls exactly on the old one, word by     *)
(* word; reading goes from place to place.  Both are inductions along      *)
(* the records, from the order of the natural numbers.                     *)
(***************************************************************************)
EXTENDS StateFiles, FiniteSetTheorems, SequenceTheorems, WellFoundedInduction, TLAPS

(* Induction, from the order of the natural numbers. *)
LEMMA Induction ==
  ASSUME NEW S, 0 \in S, \A n \in Nat : n \in S => n + 1 \in S
  PROVE  Nat \subseteq S
<1> DEFINE T == Nat \ S
<1> SUFFICES ASSUME T # {} PROVE FALSE
  BY Zenon
<1>1. PICK i \in T : \A j \in T : ~(<<j, i>> \in OpToRel(<, Nat))
  <2>1. T \subseteq Nat
    BY Zenon
  <2>2. QED
    BY <2>1, NatLessThanWellFounded, WFMin, Zenon
<1>2. \A j \in T : ~(j < i)
  BY <1>1 DEF OpToRel
<1>3. i \in Nat /\ i # 0 /\ i - 1 \in Nat /\ i - 1 < i /\ (i - 1) + 1 = i
  OBVIOUS
<1>4. i - 1 \in S
  BY <1>2, <1>3
<1>5. QED
  BY <1>3, <1>4

(* Two sequences one behind the other. *)
LEMMA Concat ==
  ASSUME NEW W, NEW s \in Seq(W), NEW t \in Seq(W)
  PROVE  /\ Len(s \o t) = Len(s) + Len(t) /\ Len(s) \in Nat /\ Len(t) \in Nat
         /\ s \o t \in Seq(W)
         /\ \A j \in 1 .. Len(s) : (s \o t)[j] = s[j]
         /\ \A j \in 1 .. Len(t) : (s \o t)[Len(s) + j] = t[j]
OBVIOUS

(* u is s, of length m, and behind it t, of length n. *)
Joined(u, W, s, t, m, n) ==
  /\ u \in Seq(W) /\ Len(u) = m + n
  /\ \A i \in 1 .. m : u[i] = s[i]
  /\ \A i \in 1 .. n : u[m + i] = t[i]

(* The same, with the lengths by name. *)
LEMMA Join ==
  ASSUME NEW W, NEW s \in Seq(W), NEW t \in Seq(W), NEW m \in Nat, NEW n \in Nat,
         Len(s) = m, Len(t) = n
  PROVE  Joined(s \o t, W, s, t, m, n)
BY DEF Joined

(* A function can be defined by recursion over 0 .. N: it begins with a,   *)
(* and G leads from each value to the next.                                *)
Recursive(f, N, V, a, G) ==
  /\ f \in [0 .. N -> V] /\ f[0] = a
  /\ \A i \in 1 .. N : f[i] = G[<<i, f[i - 1]>>]

(* Such a function exists. *)
LEMMA Recursion ==
  ASSUME NEW N \in Nat, NEW V, NEW a \in V, NEW G \in [(1 .. N) \X V -> V]
  PROVE  \E f : Recursive(f, N, V, a, G)
<1> DEFINE Works(f, n) == f[0] = a /\ \A i \in 1 .. n : f[i] = G[<<i, f[i - 1]>>]
           P(n) == n <= N => \E f \in [0 .. n -> V] : Works(f, n)
           S == {n \in Nat : P(n)}
<1>1. P(0)
  <2> DEFINE f == [i \in 0 .. 0 |-> a]
  <2>1. f \in [0 .. 0 -> V] /\ Works(f, 0)
    OBVIOUS
  <2> QED
    BY <2>1
<1>2. ASSUME NEW n \in Nat, P(n) PROVE P(n + 1)
  <2> SUFFICES ASSUME n + 1 <= N
               PROVE  \E f \in [0 .. n + 1 -> V] : Works(f, n + 1)
    OBVIOUS
  <2>1. PICK g \in [0 .. n -> V] : Works(g, n)
    BY <1>2
  <2> DEFINE m == n + 1
             f == [i \in 0 .. m |-> IF i = m THEN G[<<m, g[n]>>] ELSE g[i]]
  <2>2. G[<<m, g[n]>>] \in V
    OBVIOUS
  <2>3. f \in [0 .. m -> V]
    BY <2>2
  <2>4. ASSUME NEW i \in 1 .. m PROVE f[i] = G[<<i, f[i - 1]>>]
    <3>1. CASE i = m
      <4>1. i - 1 = n /\ n \in 0 .. m /\ n # m /\ i \in 0 .. m
        BY <3>1
      <4>2. f[i] = G[<<m, g[n]>>] /\ f[n] = g[n]
        BY <3>1, <4>1
      <4>3. QED
        BY <3>1, <4>1, <4>2
    <3>2. CASE i # m
      <4>1. i \in 1 .. n /\ i - 1 \in 0 .. m /\ i - 1 # m /\ i \in 0 .. m
        BY <3>2
      <4>2. f[i] = g[i] /\ f[i - 1] = g[i - 1]
        BY <3>2, <4>1
      <4>3. QED
        BY <2>1, <4>1, <4>2
    <3>3. QED
      BY <3>1, <3>2
  <2>5. f[0] = a
    BY <2>1
  <2>6. QED
    <3> HIDE DEF f
    <3> QED BY <2>3, <2>4, <2>5
<1>3. Nat \subseteq S
  <2> HIDE DEF P
  <2>1. 0 \in S /\ \A k \in Nat : k \in S => k + 1 \in S
    BY <1>1, <1>2
  <2> HIDE DEF S
  <2>2. QED
    BY <2>1, Induction
<1>4. P(N)
  <2> HIDE DEF P
  <2> QED BY <1>3
<1>5. QED
  BY <1>4 DEF Recursive

(* f is put together of n parts, and off is where each of them ends. *)
Composed(f, W, n, seqs, off) ==
  /\ f \in Seq(W) /\ Len(f) = off[n]
  /\ \A i \in 1 .. n : /\ off[i] <= off[n]
                       /\ \A j \in 1 .. Len(seqs[i]) : f[off[i - 1] + j] = seqs[i][j]

Places(off, n, seqs) ==
  /\ off \in [0 .. n -> Nat] /\ off[0] = 0
  /\ \A i \in 1 .. n : off[i] = off[i - 1] + Len(seqs[i])

(* FlattenSeq puts the parts one behind the other. *)
LEMMA Flattened ==
  ASSUME NEW W, NEW n \in Nat, NEW seqs \in [1 .. n -> Seq(W)],
         NEW off, Places(off, n, seqs)
  PROVE  Composed(FlattenSeq(seqs), W, n, seqs, off)
<1> SUFFICES ASSUME off \in [0 .. n -> Nat], off[0] = 0,
                    \A i \in 1 .. n : off[i] = off[i - 1] + Len(seqs[i])
             PROVE  /\ FlattenSeq(seqs) \in Seq(W)
                    /\ Len(FlattenSeq(seqs)) = off[n]
                    /\ \A i \in 1 .. n : /\ off[i] <= off[n]
                                         /\ \A j \in 1 .. Len(seqs[i]) :
                                              FlattenSeq(seqs)[off[i - 1] + j] = seqs[i][j]
  BY DEF Composed, Places
<1> DEFINE G == [p \in (1 .. n) \X Seq(W) |-> p[2] \o seqs[p[1]]]
<1>1. <<>> \in Seq(W) /\ G \in [(1 .. n) \X Seq(W) -> Seq(W)]
  OBVIOUS
<1> HIDE DEF G
<1>2. PICK f \in [0 .. n -> Seq(W)] :
        f[0] = <<>> /\ \A i \in 1 .. n : f[i] = G[<<i, f[i - 1]>>]
  <2> DEFINE V == Seq(W)
             a == <<>>
  <2>1. a \in V /\ G \in [(1 .. n) \X V -> V]
    BY <1>1
  <2> HIDE DEF V, a
  <2>2. \E f : Recursive(f, n, V, a, G)
    BY <2>1, Recursion
  <2> QED
    BY <2>2 DEF V, a, Recursive
<1>3. ASSUME NEW i \in 1 .. n
      PROVE  f[i] = f[i - 1] \o seqs[i] /\ f[i - 1] \in Seq(W) /\ seqs[i] \in Seq(W)
  <2>1. f[i - 1] \in Seq(W)
    OBVIOUS
  <2>2. G[<<i, f[i - 1]>>] = f[i - 1] \o seqs[i]
    BY <2>1 DEF G
  <2> QED
    BY <1>2, <2>1, <2>2
<1>4. n # 0 => FlattenSeq(seqs) = f[n]
  <2> SUFFICES ASSUME n # 0 PROVE FlattenSeq(seqs) = f[n]
    OBVIOUS
  <2> DEFINE flatten == CHOOSE h : h = [i \in 1 .. n |-> IF i = 1 THEN seqs[i] ELSE h[i - 1] \o seqs[i]]
             g == [i \in 1 .. n |-> f[i]]
  <2>1. f[1] = seqs[1]
    <3>1. f[1] = f[0] \o seqs[1] /\ seqs[1] \in Seq(W)
      BY <1>3, 1 \in 1 .. n, 1 - 1 = 0
    <3>2. QED
      BY <1>2, <3>1
  <2>2. g = [i \in 1 .. n |-> IF i = 1 THEN seqs[i] ELSE g[i - 1] \o seqs[i]]
    <3>1. ASSUME NEW i \in 1 .. n PROVE f[i] = IF i = 1 THEN seqs[i] ELSE g[i - 1] \o seqs[i]
      <4>1. CASE i = 1
        BY <2>1, <4>1
      <4>2. CASE i # 1
        <5>1. g[i - 1] = f[i - 1]
          BY <4>2
        <5>2. f[i] = f[i - 1] \o seqs[i]
          BY <1>3
        <5>3. QED
          BY <4>2, <5>1, <5>2, Zenon
      <4>3. QED
        BY <4>1, <4>2
    <3>2. QED
      BY <3>1
  <2>3. flatten = [i \in 1 .. n |-> IF i = 1 THEN seqs[i] ELSE flatten[i - 1] \o seqs[i]]
    <3> HIDE DEF g
    <3> QED BY <2>2, Zenon
  <2>4. Len(seqs) = n
    OBVIOUS
  <2>5. FlattenSeq(seqs) = flatten[n]
    BY <2>4 DEF FlattenSeq
  <2> HIDE DEF flatten
  <2> DEFINE P(i) == i + 1 <= n => flatten[i + 1] = f[i + 1]
             S == {i \in Nat : P(i)}
  <2>6. P(0)
    BY <2>1, <2>3
  <2>7. ASSUME NEW i \in Nat, P(i) PROVE P(i + 1)
    <3> SUFFICES ASSUME i + 2 <= n PROVE flatten[i + 2] = f[i + 2]
      OBVIOUS
    <3>1. i + 2 \in 1 .. n /\ i + 2 # 1 /\ (i + 2) - 1 = i + 1
      OBVIOUS
    <3>2. f[i + 2] = f[i + 1] \o seqs[i + 2]
      BY <1>3, <3>1
    <3>3. flatten[i + 2] = flatten[i + 1] \o seqs[i + 2]
      BY <2>3, <3>1
    <3>4. flatten[i + 1] = f[i + 1]
      BY <2>7
    <3>5. QED
      BY <3>2, <3>3, <3>4, Zenon
  <2>8. Nat \subseteq S
    <3> HIDE DEF P
    <3>1. 0 \in S /\ \A k \in Nat : k \in S => k + 1 \in S
      BY <2>6, <2>7
    <3> HIDE DEF S
    <3>2. QED
      BY <3>1, Induction
  <2>9. P(n - 1)
    <3> HIDE DEF P
    <3> QED BY <2>8, n - 1 \in Nat
  <2>10. QED
    BY <2>5, <2>9
<1> DEFINE Found(i, k) == /\ off[k] <= off[i]
                          /\ \A j \in 1 .. Len(seqs[k]) : f[i][off[k - 1] + j] = seqs[k][j]
           P(i) == i <= n => Len(f[i]) = off[i] /\ \A k \in 1 .. i : Found(i, k)
           S == {i \in Nat : P(i)}
<1>5. P(0)
  BY <1>2
<1>6. ASSUME NEW i \in Nat, P(i) PROVE P(i + 1)
  <2> SUFFICES ASSUME i + 1 <= n
               PROVE  Len(f[i + 1]) = off[i + 1] /\ \A k \in 1 .. i + 1 : Found(i + 1, k)
    OBVIOUS
  <2> DEFINE m == i + 1
  <2>1. m \in 1 .. n /\ m - 1 = i /\ i \in 0 .. n
    OBVIOUS
  <2>2. f[m] = f[i] \o seqs[m] /\ f[i] \in Seq(W) /\ seqs[m] \in Seq(W)
    BY <1>3, <2>1
  <2>3. off[m] = off[i] + Len(seqs[m]) /\ off[i] \in Nat /\ off[m] \in Nat /\ Len(seqs[m]) \in Nat
    BY <2>1, <2>2
  <2>4. Len(f[i]) = off[i]
    BY <1>6
  <2>5. Len(f[m]) = off[m] /\ off[i] <= off[m]
    <3>1. Len(f[m]) = Len(f[i]) + Len(seqs[m])
      BY <2>2, Concat
    <3>2. QED
      BY <2>3, <2>4, <3>1
  <2>6. ASSUME NEW k \in 1 .. m PROVE Found(m, k)
    <3>1. CASE k = m
      <4>1. ASSUME NEW j \in 1 .. Len(seqs[m]) PROVE f[m][off[i] + j] = seqs[m][j]
        <5>1. j \in 1 .. Len(seqs[m])
          OBVIOUS
        <5>2. (f[i] \o seqs[m])[Len(f[i]) + j] = seqs[m][j]
          <6> DEFINE s == f[i]
                     t == seqs[m]
          <6>1. s \in Seq(W) /\ t \in Seq(W) /\ j \in 1 .. Len(t)
            BY <2>2
          <6> HIDE DEF s, t
          <6>2. (s \o t)[Len(s) + j] = t[j]
            BY <6>1, Concat
          <6>3. QED
            BY <6>2 DEF s, t
        <5>3. QED
          BY <2>2, <2>4, <5>2, Zenon
      <4>2. QED
        BY <2>1, <2>3, <3>1, <4>1
    <3>2. CASE k # m
      <4>1. k \in 1 .. i /\ k \in 1 .. n /\ k \in 0 .. n /\ k - 1 \in 0 .. n
        BY <2>1, <3>2
      <4>2. Found(i, k) /\ off[k] = off[k - 1] + Len(seqs[k]) /\ off[k - 1] \in Nat /\ off[k] \in Nat
        <5>1. Found(i, k)
          <6>1. i <= n
            OBVIOUS
          <6>2. QED
            BY <1>6, <4>1, <6>1, Zenon
        <5>2. QED
          BY <4>1, <5>1
      <4>3. seqs[k] \in Seq(W) /\ Len(seqs[k]) \in Nat
        <5>1. PICK part \in Seq(W) : part = seqs[k]
          BY <4>1
        <5>2. Len(part) \in Nat
          BY LenProperties
        <5>3. QED
          BY <5>1, <5>2, Zenon
      <4>4. ASSUME NEW j \in 1 .. Len(seqs[k])
            PROVE  f[m][off[k - 1] + j] = seqs[k][j]
        <5>1. off[k - 1] + j \in 1 .. Len(f[i])
          <6> DEFINE o == off[k - 1]
                     l == Len(seqs[k])
                     x == o + j
          <6>1. o \in Nat /\ l \in Nat /\ j \in 1 .. l
            BY <4>2, <4>3, Zenon
          <6>2. off[k] = o + l /\ off[k] <= off[i] /\ off[k] \in Nat /\ off[i] \in Nat
            BY <2>3, <4>2, Zenon
          <6> HIDE DEF o, l
          <6>3. x \in Int /\ x >= 1 /\ x <= o + l
            BY <6>1
          <6>4. x >= 1 /\ x <= off[i]
            <7> HIDE DEF x
            <7> QED BY <6>1, <6>2, <6>3
          <6>5. x \in 1 .. off[i]
            <7> HIDE DEF x
            <7>1. QED
              BY <6>3, <6>4
          <6>6. QED
            BY <2>4, <6>5, Zenon DEF x, o
        <5>2. (f[i] \o seqs[m])[off[k - 1] + j] = f[i][off[k - 1] + j]
          <6> DEFINE s == f[i]
                     t == seqs[m]
                     x == off[k - 1] + j
          <6>1. s \in Seq(W) /\ t \in Seq(W) /\ x \in 1 .. Len(s)
            BY <2>2, <5>1, Zenon
          <6> HIDE DEF s, t, x
          <6>2. (s \o t)[x] = s[x]
            BY <6>1, Concat
          <6>3. QED
            BY <6>2, Zenon DEF s, t, x
        <5>3. f[i][off[k - 1] + j] = seqs[k][j]
          BY <4>2
        <5>4. QED
          BY <2>2, <5>2, <5>3, Zenon
      <4>5. QED
        BY <2>3, <2>5, <4>2, <4>4
    <3>3. QED
      BY <3>1, <3>2
  <2>7. QED
    BY <2>5, <2>6
<1>7. Nat \subseteq S
  <2> HIDE DEF P
  <2>1. 0 \in S /\ \A k \in Nat : k \in S => k + 1 \in S
    BY <1>5, <1>6
  <2> HIDE DEF S
  <2>2. QED
    BY <2>1, Induction
<1>8. P(n)
  <2> HIDE DEF P
  <2> QED BY <1>7
<1>9. CASE n = 0
  <2>1. seqs = <<>>
    BY <1>9
  <2>2. FlattenSeq(seqs) = <<>>
    BY <2>1 DEF FlattenSeq
  <2>3. QED
    BY <1>9, <2>2
<1>10. CASE n # 0
  <2>1. FlattenSeq(seqs) = f[n] /\ f[n] \in Seq(W)
    BY <1>4, <1>10
  <2>2. QED
    BY <1>8, <2>1
<1> QED
  BY <1>9, <1>10

-----------------------------------------------------------------------------
(* The elements of a finite set of numbers, each at its place. *)
LEMMA Ordered ==
  ASSUME NEW S, S \subseteq Int, IsFiniteSet(S)
  PROVE  /\ Cardinality(S) \in Nat
         /\ InOrder(S) \in [1 .. Cardinality(S) -> S]
         /\ \A i, j \in 1 .. Cardinality(S) : InOrder(S)[i] = InOrder(S)[j] => i = j
         /\ \A x \in S : \E i \in 1 .. Cardinality(S) : InOrder(S)[i] = x
<1> DEFINE n == Cardinality(S)
           Below(x) == {y \in S : y < x}
           pos == [x \in S |-> Cardinality(Below(x)) + 1]
<1>1. n \in Nat
  BY FS_CardinalityType
<1>2. ASSUME NEW x \in S PROVE IsFiniteSet(Below(x)) /\ Cardinality(Below(x)) \in 0 .. n - 1
  <2>1. IsFiniteSet(S \ {x}) /\ Cardinality(S \ {x}) = n - 1
    BY FS_RemoveElement
  <2>2. Below(x) \in SUBSET (S \ {x})
    OBVIOUS
  <2>3. IsFiniteSet(Below(x)) /\ Cardinality(Below(x)) <= n - 1
    BY <2>1, <2>2, FS_Subset
  <2>4. Cardinality(Below(x)) \in Nat
    BY <2>3, FS_CardinalityType
  <2>5. QED
    BY <1>1, <2>3, <2>4
<1>3. ASSUME NEW x \in S, NEW z \in S, x < z
      PROVE  Cardinality(Below(x)) < Cardinality(Below(z))
  <2>1. Below(x) \in SUBSET (Below(z) \ {x}) /\ x \in Below(z)
    <3>1. x \in Int /\ z \in Int /\ ~(x < x)
      OBVIOUS
    <3>2. ASSUME NEW y \in Below(x) PROVE y \in Below(z) \ {x}
      <4>1. y \in S /\ y \in Int /\ y < x
        OBVIOUS
      <4>2. y < z /\ y # x
        BY <1>3, <3>1, <4>1
      <4>3. QED
        BY <4>1, <4>2
    <3>3. x \in Below(z)
      BY <1>3
    <3> HIDE DEF Below
    <3>4. QED
      BY <3>2, <3>3
  <2>2. IsFiniteSet(Below(z) \ {x}) /\ Cardinality(Below(z) \ {x}) = Cardinality(Below(z)) - 1
    BY <1>2, <2>1, FS_RemoveElement
  <2>3. Cardinality(Below(x)) <= Cardinality(Below(z)) - 1
    BY <2>1, <2>2, FS_Subset
  <2>4. QED
    BY <1>2, <2>3
<1>4. pos \in Injection(S, 1 .. n)
  <2>1. pos \in [S -> 1 .. n]
    BY <1>1, <1>2
  <2>2. ASSUME NEW x \in S, NEW z \in S, pos[x] = pos[z] PROVE x = z
    <3>1. Cardinality(Below(x)) = Cardinality(Below(z))
      BY <1>2, <2>2
    <3>2. ~(x < z) /\ ~(z < x)
      BY <1>2, <1>3, <3>1
    <3>3. QED
      BY <3>2
  <2> HIDE DEF pos
  <2>3. QED
    BY <2>1, <2>2 DEF Injection, IsInjective
<1>5. pos \in Surjection(S, 1 .. n)
  <2>1. IsFiniteSet(1 .. n) /\ Cardinality(1 .. n) = n
    BY <1>1, FS_Interval
  <2> HIDE DEF pos
  <2>2. QED
    BY <1>4, <2>1, FS_Injection
<1>6. \A i \in 1 .. n : \E x \in S : Cardinality(Below(x)) = i - 1
  <2> SUFFICES ASSUME NEW i \in 1 .. n PROVE \E x \in S : Cardinality(Below(x)) = i - 1
    OBVIOUS
  <2>1. PICK x \in S : pos[x] = i
    <3> HIDE DEF pos
    <3> QED BY <1>5 DEF Surjection
  <2>2. Cardinality(Below(x)) \in Nat /\ pos[x] = Cardinality(Below(x)) + 1
    BY <1>2
  <2>3. Cardinality(Below(x)) = i - 1
    BY <2>1, <2>2
  <2>4. QED
    BY <2>3
<1>7. \A i \in 1 .. n : InOrder(S)[i] \in S /\ Cardinality(Below(InOrder(S)[i])) = i - 1
  BY <1>6 DEF InOrder
<1>8. InOrder(S) \in [1 .. n -> S]
  BY <1>7 DEF InOrder
<1>9. ASSUME NEW i \in 1 .. n, NEW j \in 1 .. n, InOrder(S)[i] = InOrder(S)[j] PROVE i = j
  <2>1. Cardinality(Below(InOrder(S)[i])) = i - 1 /\ Cardinality(Below(InOrder(S)[j])) = j - 1
    BY <1>7
  <2>2. i - 1 = j - 1
    BY <1>9, <2>1, Zenon
  <2>3. QED
    BY <2>2
<1>10. ASSUME NEW x \in S PROVE \E i \in 1 .. n : InOrder(S)[i] = x
  <2> DEFINE i == Cardinality(Below(x)) + 1
  <2>1. i \in 1 .. n /\ i - 1 = Cardinality(Below(x))
    BY <1>1, <1>2
  <2>2. InOrder(S)[i] \in S /\ Cardinality(Below(InOrder(S)[i])) = Cardinality(Below(x))
    BY <1>7, <2>1
  <2>3. ASSUME NEW z \in S, Cardinality(Below(z)) = Cardinality(Below(x)) PROVE z = x
    <3>1. Cardinality(Below(x)) \in Nat /\ x \in Int /\ z \in Int
      BY <1>2
    <3>2. ~(x < z) /\ ~(z < x)
      <4> HIDE DEF Below
      <4> QED BY <1>3, <2>3, <3>1
    <3>3. QED
      BY <3>1, <3>2
  <2>4. InOrder(S)[i] = x
    <3> HIDE DEF i, Below
    <3> QED BY <2>2, <2>3
  <2>5. QED
    BY <2>1, <2>4
<1>11. QED
  BY <1>1, <1>8, <1>9, <1>10

(* What Expect finds. *)
LEMMA Expected ==
  ASSUME NEW W, NEW file \in Seq(W), NEW at \in Nat, NEW F, NEW fields \in Seq(F)
  PROVE  /\ Expect(file, at, fields) \in {"ok", "dead", "garbage"}
         /\ Expect(file, at, fields) = "ok" <=>
              /\ at + Len(fields) - 1 <= Len(file)
              /\ \A i \in 1 .. Len(fields) : file[at + i - 1][1] = fields[i]
<1>1. DOMAIN fields = 1 .. Len(fields) /\ Len(fields) \in Nat /\ Len(file) \in Nat
  OBVIOUS
<1> DEFINE Wrong == \E i \in DOMAIN fields :
                      /\ at + i - 1 <= Len(file) /\ file[at + i - 1][1] # fields[i]
                      /\ \A j \in 1 .. i - 1 : at + j - 1 <= Len(file)
           Short == at + Len(fields) - 1 > Len(file)
<1>2. Expect(file, at, fields) = IF Wrong THEN "garbage" ELSE IF Short THEN "dead" ELSE "ok"
  BY DEF Expect
<1>3. ASSUME ~Short PROVE Wrong <=> \E i \in 1 .. Len(fields) : file[at + i - 1][1] # fields[i]
  <2>1. ASSUME NEW i \in 1 .. Len(fields) PROVE at + i - 1 <= Len(file)
    BY <1>1, <1>3
  <2>2. ASSUME NEW i \in 1 .. Len(fields), NEW j \in 1 .. i - 1 PROVE at + j - 1 <= Len(file)
    BY <1>1, <1>3
  <2>3. QED
    BY <1>1, <2>1, <2>2
<1>4. Short <=> ~(at + Len(fields) - 1 <= Len(file))
  BY <1>1
<1> HIDE DEF Wrong, Short
<1>5. QED
  BY <1>2, <1>3, <1>4

-----------------------------------------------------------------------------
(* The words that are written. *)
LEMMA TimesWords ==
  ASSUME NEW n \in Nat, NEW W, NEW w \in W
  PROVE  /\ Times(n, w) \in Seq(W) /\ Len(Times(n, w)) = n
         /\ \A i \in 1 .. n : Times(n, w)[i] = w
BY DEF Times

(* Addresses are a function from data centers to lengths. *)
LEMMA AddressWords ==
  ASSUME NEW x \in Addresses
  PROVE  /\ DOMAIN x \subseteq DC /\ x = [d \in DOMAIN x |-> x[d]]
         /\ \A d \in DOMAIN x : x[d] \in Lengths /\ x[d] \in Nat
<1>1. PICK D \in SUBSET DC : x \in [D -> Lengths]
  BY DEF Addresses, Partial
<1>2. Lengths \subseteq Nat
  BY StateFilesAssumption DEF Lengths
<1>3. QED
  BY <1>1, <1>2

(* The words of one data center. *)
LEMMA DcWords ==
  ASSUME NEW d \in DC, NEW x \in Addresses
  PROVE  LET r == write_dc(d, x) IN
         /\ r \in Seq(AuthWord)
         /\ d \notin DOMAIN x => Len(r) = 1 /\ r[1] = <<"flag", 0>>
         /\ d \in DOMAIN x =>
              /\ Len(r) = 4 + x[d] /\ r[1] = <<"flag", 1>> /\ r[2] = <<"port", 0>>
              /\ r[3] = <<"length", x[d]>>
              /\ \A i \in 1 .. x[d] : r[3 + i] = <<"ip", d>>
              /\ r[4 + x[d]] = <<"key", d>>
<1> DEFINE r == write_dc(d, x)
<1>1. CASE d \notin DOMAIN x
  <2>1. r = <<<<"flag", 0>>>>
    BY <1>1 DEF write_dc
  <2>2. <<"flag", 0>> \in AuthWord
    BY DEF AuthWord
  <2>3. QED
    BY <1>1, <2>1, <2>2
<1>2. CASE d \in DOMAIN x
  <2> DEFINE a == <<<<"flag", 1>>, <<"port", 0>>, <<"length", x[d]>>>>
             b == Times(x[d], <<"ip", d>>)
             c == <<<<"key", d>>>>
  <2>1. x[d] \in Nat /\ x[d] \in Lengths
    BY <1>2, AddressWords
  <2>2. /\ <<"flag", 1>> \in AuthWord /\ <<"port", 0>> \in AuthWord /\ <<"length", x[d]>> \in AuthWord
        /\ <<"ip", d>> \in AuthWord /\ <<"key", d>> \in AuthWord
    BY <2>1 DEF AuthWord
  <2>3. a \in Seq(AuthWord) /\ Len(a) = 3 /\ a[1] = <<"flag", 1>> /\ a[2] = <<"port", 0>>
          /\ a[3] = <<"length", x[d]>>
    BY <2>2
  <2>4. b \in Seq(AuthWord) /\ Len(b) = x[d] /\ \A i \in 1 .. x[d] : b[i] = <<"ip", d>>
    BY <2>1, <2>2, TimesWords
  <2>5. c \in Seq(AuthWord) /\ Len(c) = 1 /\ c[1] = <<"key", d>>
    BY <2>2
  <2>6. r = (a \o b) \o c
    BY <1>2 DEF write_dc
  <2> HIDE DEF a, b, c, r
  <2> DEFINE ab == a \o b
             k == x[d]
  <2> HIDE DEF k
  <2>7. Joined(ab, AuthWord, a, b, 3, k)
    <3>1. k \in Nat /\ Len(b) = k /\ 3 \in Nat
      BY <2>1, <2>4 DEF k
    <3>2. QED
      BY <2>3, <2>4, <3>1, Join, Zenon
  <2> HIDE DEF ab
  <2>8. Joined(r, AuthWord, ab, c, 3 + k, 1)
    <3>1. r = ab \o c /\ 3 + k \in Nat /\ 1 \in Nat
      BY <2>1, <2>6 DEF ab, k
    <3>2. ab \in Seq(AuthWord) /\ Len(ab) = 3 + k
      BY <2>7 DEF Joined
    <3>3. QED
      BY <2>5, <3>1, <3>2, Join, Zenon
  <2>9. k \in Nat /\ k = x[d]
    BY <2>1 DEF k
  <2>10. r[4 + k] = <<"key", d>> /\ Len(r) = 4 + k
    BY <2>5, <2>8, <2>9, 1 \in 1 .. 1, (3 + k) + 1 = 4 + k DEF Joined
  <2>11. \A i \in 1 .. 3 + k : r[i] = ab[i]
    BY <2>8 DEF Joined
  <2>12. r[1] = a[1] /\ r[2] = a[2] /\ r[3] = a[3]
    BY <2>7, <2>9, <2>11 DEF Joined
  <2>13. ASSUME NEW i \in 1 .. k PROVE r[3 + i] = <<"ip", d>>
    <3>1. 3 + i \in 1 .. 3 + k
      BY <2>9
    <3>2. ab[3 + i] = b[i]
      BY <2>7 DEF Joined
    <3>3. b[i] = <<"ip", d>>
      BY <2>4, <2>9
    <3>4. QED
      BY <2>11, <3>1, <3>2, <3>3, Zenon
  <2>14. r \in Seq(AuthWord)
    BY <2>8 DEF Joined
  <2>15. QED
    BY <1>2, <2>3, <2>9, <2>10, <2>12, <2>13, <2>14 DEF r
<1>3. QED
  BY <1>1, <1>2

(* The places of the data centers in the auth file. *)
AuthPlaces(words, x, off) ==
  LET n == Cardinality(DC)
      r(i) == write_dc(InOrder(DC)[i], x)
  IN  /\ words \in Seq(AuthWord) /\ Len(words) = 4 + off[n]
      /\ words[1][1] = "magic" /\ words[2][1] = "max" /\ words[3][1] = "working"
      /\ words[4 + off[n]][1] = "our_id"
      /\ off \in [0 .. n -> Nat] /\ off[0] = 0
      /\ \A i \in 1 .. n : /\ off[i] = off[i - 1] + Len(r(i)) /\ off[i] <= off[n]
                           /\ \A j \in 1 .. Len(r(i)) : words[3 + off[i - 1] + j] = r(i)[j]

(* Every data center has its place in the words of the auth file. *)
LEMMA AuthPlaced ==
  ASSUME NEW x \in Addresses
  PROVE  \E off : AuthPlaces(AuthWords(x), x, off)
<1> DEFINE n == Cardinality(DC)
           r == [i \in 1 .. n |-> write_dc(InOrder(DC)[i], x)]
           G == [p \in (1 .. n) \X Nat |-> p[2] + Len(r[p[1]])]
<1>1. n \in Nat /\ \A i \in 1 .. n : InOrder(DC)[i] \in DC
  <2>1. DC \subseteq Int /\ IsFiniteSet(DC)
    BY StateFilesAssumption
  <2>2. InOrder(DC) \in [1 .. n -> DC] /\ n \in Nat
    BY <2>1, Ordered
  <2>3. QED
    BY <2>2
<1>2. r \in [1 .. n -> Seq(AuthWord)]
  <2>1. \A i \in 1 .. n : write_dc(InOrder(DC)[i], x) \in Seq(AuthWord)
    BY <1>1, DcWords
  <2>2. QED
    BY <2>1
<1>3. \A i \in 1 .. n : r[i] = write_dc(InOrder(DC)[i], x)
  OBVIOUS
<1> HIDE DEF r
<1>4. G \in [(1 .. n) \X Nat -> Nat] /\ 0 \in Nat
  BY <1>2
<1>5. \A i \in 1 .. n, k \in Nat : G[<<i, k>>] = k + Len(r[i])
  OBVIOUS
<1> HIDE DEF G, n
<1>6. PICK off : Recursive(off, n, Nat, 0, G)
  BY <1>1, <1>4, Recursion
<1>7. off \in [0 .. n -> Nat] /\ off[0] = 0
  BY <1>6 DEF Recursive
<1>8. ASSUME NEW i \in 1 .. n PROVE off[i] = off[i - 1] + Len(r[i])
  <2>1. off[i] = G[<<i, off[i - 1]>>]
    BY <1>6 DEF Recursive
  <2>2. off[i - 1] \in Nat
    BY <1>1, <1>7
  <2>3. QED
    BY <1>5, <2>1, <2>2
<1> DEFINE f == FlattenSeq(r)
<1>9. /\ f \in Seq(AuthWord) /\ Len(f) = off[n]
      /\ \A i \in 1 .. n : /\ off[i] <= off[n]
                           /\ \A j \in 1 .. Len(r[i]) : f[off[i - 1] + j] = r[i][j]
  <2>1. Places(off, n, r)
    BY <1>7, <1>8 DEF Places
  <2>2. Composed(f, AuthWord, n, r, off)
    BY <1>1, <1>2, <2>1, Flattened, Zenon
  <2>3. QED
    BY <2>2 DEF Composed
<1> DEFINE a == <<<<"magic", 1>>, <<"max", Cardinality(DC) - 1>>, <<"working", 0>>>>
           c == <<<<"our_id", 1>>>>
           k == off[n]
           af == a \o f
           w == af \o c
<1>10. AuthWords(x) = w
  <2>1. FlattenSeq([i \in 1 .. Cardinality(DC) |-> write_dc(InOrder(DC)[i], x)]) = f
    BY DEF n, r
  <2>2. QED
    BY <2>1 DEF AuthWords
<1>11. a \in Seq(AuthWord) /\ Len(a) = 3 /\ a[1][1] = "magic" /\ a[2][1] = "max" /\ a[3][1] = "working"
  <2>1. /\ <<"magic", 1>> \in AuthWord /\ <<"max", Cardinality(DC) - 1>> \in AuthWord
        /\ <<"working", 0>> \in AuthWord
    BY <1>1 DEF AuthWord, n
  <2>2. QED
    BY <2>1
<1>12. c \in Seq(AuthWord) /\ Len(c) = 1 /\ c[1][1] = "our_id"
  <2>1. <<"our_id", 1>> \in AuthWord
    BY DEF AuthWord
  <2>2. QED
    BY <2>1
<1>13. k \in Nat /\ Len(f) = k /\ 3 \in Nat /\ 1 \in Nat /\ 3 + k \in Nat
  BY <1>1, <1>7, <1>9
<1> HIDE DEF a, c, f, k
<1>14. Joined(af, AuthWord, a, f, 3, k)
  BY <1>9, <1>11, <1>13, Join, Zenon
<1>15. af \in Seq(AuthWord) /\ Len(af) = 3 + k
  BY <1>14 DEF Joined
<1> HIDE DEF af
<1>16. Joined(w, AuthWord, af, c, 3 + k, 1)
  BY <1>12, <1>13, <1>15, Join, Zenon
<1> HIDE DEF w
<1>17. w \in Seq(AuthWord) /\ Len(w) = 4 + k /\ w[4 + k] = c[1]
  BY <1>13, <1>16, 1 \in 1 .. 1, (3 + k) + 1 = 4 + k DEF Joined
<1>18. \A i \in 1 .. 3 + k : w[i] = af[i]
  BY <1>16 DEF Joined
<1>19. w[1] = a[1] /\ w[2] = a[2] /\ w[3] = a[3]
  BY <1>13, <1>14, <1>18 DEF Joined
<1>20. ASSUME NEW i \in 1 .. n, NEW j \in 1 .. Len(r[i])
       PROVE  w[3 + off[i - 1] + j] = r[i][j]
  <2>1. off[i - 1] \in Nat /\ off[i] \in Nat /\ off[i] <= k /\ off[i] = off[i - 1] + Len(r[i])
          /\ Len(r[i]) \in Nat
    BY <1>1, <1>2, <1>7, <1>8, <1>9 DEF k
  <2> DEFINE p == off[i - 1] + j
  <2>2. p \in 1 .. k /\ 3 + p \in 1 .. 3 + k /\ 3 + off[i - 1] + j = 3 + p
    <3> DEFINE o == off[i - 1]
               l == Len(r[i])
    <3>1. o \in Nat /\ l \in Nat /\ j \in 1 .. l /\ off[i] = o + l /\ off[i] \in Nat /\ off[i] <= k
      BY <2>1, Zenon
    <3> HIDE DEF o, l
    <3>2. o + j \in Int /\ o + j >= 1 /\ o + j <= o + l /\ 3 + o + j = 3 + (o + j)
      BY <3>1
    <3>3. p \in Int /\ p >= 1 /\ p <= off[i] /\ 3 + off[i - 1] + j = 3 + p
      BY <3>1, <3>2, Zenon DEF o
    <3> HIDE DEF p
    <3>4. QED
      BY <1>13, <3>1, <3>3
  <2>3. f[p] = r[i][j]
    BY <1>9
  <2>4. af[3 + p] = f[p]
    <3> HIDE DEF p
    <3> QED BY <1>14, <2>2 DEF Joined
  <2>5. w[3 + p] = af[3 + p]
    BY <1>18, <2>2, Zenon
  <2>6. QED
    BY <2>2, <2>3, <2>4, <2>5, Zenon
<1>21. AuthPlaces(w, x, off)
  <2>1. \A i \in 1 .. n : /\ off[i] = off[i - 1] + Len(r[i]) /\ off[i] <= off[n]
                          /\ \A j \in 1 .. Len(r[i]) : w[3 + off[i - 1] + j] = r[i][j]
    BY <1>8, <1>9, <1>20, Zenon
  <2>2. w \in Seq(AuthWord) /\ Len(w) = 4 + off[n] /\ w[4 + off[n]][1] = "our_id"
    BY <1>12, <1>17, Zenon DEF k
  <2>3. w[1][1] = "magic" /\ w[2][1] = "max" /\ w[3][1] = "working"
    BY <1>11, <1>19, Zenon
  <2>4. \A i \in 1 .. n :
          /\ off[i] = off[i - 1] + Len(write_dc(InOrder(DC)[i], x)) /\ off[i] <= off[n]
          /\ \A j \in 1 .. Len(write_dc(InOrder(DC)[i], x)) :
               w[3 + off[i - 1] + j] = write_dc(InOrder(DC)[i], x)[j]
    BY <1>3, <2>1, Zenon
  <2>5. QED
    BY <1>7, <2>2, <2>3, <2>4, Zenon DEF AuthPlaces, n
<1>22. QED
  BY <1>10, <1>21, Zenon

(* r is in the file from a position on. *)
LiesAt(file, at, r) ==
  /\ at + Len(r) - 1 <= Len(file)
  /\ \A j \in 1 .. Len(r) : file[at + j - 1] = r[j]

Field == {"flag", "port", "length", "ip", "key", "id", "name", "in_seq_no"}

(* The fields of a data center with an address. *)
DcFields(ip) == <<"flag", "port", "length">> \o Times(ip, "ip") \o <<"key">>

(* They are as many as the words of write_dc. *)
LEMMA FieldsOfDc ==
  ASSUME NEW ip \in Nat
  PROVE  /\ DcFields(ip) \in Seq(Field) /\ Len(DcFields(ip)) = 4 + ip
         /\ DcFields(ip)[1] = "flag" /\ DcFields(ip)[2] = "port" /\ DcFields(ip)[3] = "length"
         /\ \A i \in 1 .. ip : DcFields(ip)[3 + i] = "ip"
         /\ DcFields(ip)[4 + ip] = "key"
<1> DEFINE a == <<"flag", "port", "length">>
           b == Times(ip, "ip")
           c == <<"key">>
           ab == a \o b
           w == ab \o c
<1>1. a \in Seq(Field) /\ Len(a) = 3 /\ a[1] = "flag" /\ a[2] = "port" /\ a[3] = "length"
  BY DEF Field
<1>2. b \in Seq(Field) /\ Len(b) = ip /\ \A i \in 1 .. ip : b[i] = "ip"
  BY TimesWords, "ip" \in Field DEF Field
<1>3. c \in Seq(Field) /\ Len(c) = 1 /\ c[1] = "key"
  BY DEF Field
<1>4. 3 \in Nat /\ 1 \in Nat /\ 3 + ip \in Nat /\ DcFields(ip) = w
  BY DEF DcFields
<1> HIDE DEF a, b, c
<1>5. Joined(ab, Field, a, b, 3, ip)
  BY <1>1, <1>2, <1>4, Join, Zenon
<1>6. ab \in Seq(Field) /\ Len(ab) = 3 + ip
  BY <1>5 DEF Joined
<1> HIDE DEF ab
<1>7. Joined(w, Field, ab, c, 3 + ip, 1)
  BY <1>3, <1>4, <1>6, Join, Zenon
<1> HIDE DEF w
<1>8. w \in Seq(Field) /\ Len(w) = 4 + ip /\ w[4 + ip] = "key"
  BY <1>3, <1>7, 1 \in 1 .. 1, (3 + ip) + 1 = 4 + ip DEF Joined
<1>9. \A i \in 1 .. 3 + ip : w[i] = ab[i]
  BY <1>7 DEF Joined
<1>10. w[1] = "flag" /\ w[2] = "port" /\ w[3] = "length"
  BY <1>1, <1>5, <1>9 DEF Joined
<1>11. ASSUME NEW i \in 1 .. ip PROVE w[3 + i] = "ip"
  <2>1. w[3 + i] = ab[3 + i]
    BY <1>9
  <2>2. ab[3 + i] = b[i]
    BY <1>5 DEF Joined
  <2>3. QED
    BY <1>2, <2>1, <2>2
<1>12. QED
  BY <1>4, <1>8, <1>10, <1>11

-----------------------------------------------------------------------------
(* What is read. *)
Verdicts == {"ok", "dead", "garbage"}
Result(T) == [verdict : Verdicts, at : Nat, got : T]
Ok(at, got) == [verdict |-> "ok", at |-> at, got |-> got]

(* One more value. *)
LEMMA PutTyped ==
  ASSUME NEW S, NEW T, NEW f \in Partial(S, T), NEW x \in S, NEW v \in T
  PROVE  Put(f, x, v) \in Partial(S, T)
<1>1. PICK D \in SUBSET S : f \in [D -> T]
  BY DEF Partial
<1>2. DOMAIN f \cup {x} \in SUBSET S /\ Put(f, x, v) \in [DOMAIN f \cup {x} -> T]
  BY <1>1 DEF Put
<1>3. QED
  BY <1>2 DEF Partial

(* The empty function. *)
LEMMA NoneTyped ==
  ASSUME NEW S, NEW T
  PROVE  None \in Partial(S, T)
<1>1. {} \in SUBSET S /\ None \in [{} -> T]
  BY DEF None
<1>2. QED
  BY <1>1 DEF Partial

(* A verdict other than ok comes with nothing. *)
LEMMA FailedTyped ==
  ASSUME NEW S, NEW T, NEW v \in Verdicts
  PROVE  Failed(v) \in Result(Partial(S, T))
BY NoneTyped DEF Failed, Result

(* What the words of a file can be is known by their fields. *)
LEMMA AuthTyped ==
  ASSUME NEW w \in AuthWord
  PROVE  w[1] = "length" => w[2] \in Lengths
BY DEF AuthWord

(* Lengths are numbers. *)
LEMMA LengthsAreNat == Lengths \subseteq Nat
BY StateFilesAssumption DEF Lengths

(* Whatever the file holds, read_dc yields addresses. *)
LEMMA ReadDcTyped ==
  ASSUME NEW file \in Seq(AuthWord), NEW d \in DC, NEW r \in Result(Addresses)
  PROVE  read_dc(file, d, r) \in Result(Addresses)
<1> DEFINE at == r.at
           flag == Expect(file, at, <<"flag">>)
           head == Expect(file, at, <<"flag", "port", "length">>)
           ip == file[at + 2][2]
           whole == Expect(file, at, DcFields(ip))
<1>1. at \in Nat /\ r.verdict \in Verdicts /\ r.got \in Addresses
  BY DEF Result
<1>2. <<"flag">> \in Seq(Field) /\ <<"flag", "port", "length">> \in Seq(Field)
  BY DEF Field
<1>3. flag \in Verdicts /\ head \in Verdicts
  BY <1>1, <1>2, Expected DEF Verdicts
<1>4. ASSUME head = "ok" PROVE ip \in Lengths /\ ip \in Nat
  <2>1. /\ at + 3 - 1 <= Len(file)
        /\ \A i \in 1 .. 3 : file[at + i - 1][1] = <<"flag", "port", "length">>[i]
    BY <1>1, <1>2, <1>4, Expected, Len(<<"flag", "port", "length">>) = 3
  <2>2. file[at + 3 - 1][1] = "length"
    BY <2>1, 3 \in 1 .. 3, <<"flag", "port", "length">>[3] = "length"
  <2>3. at + 2 \in 1 .. Len(file) /\ at + 3 - 1 = at + 2
    BY <1>1, <2>1
  <2>4. file[at + 2] \in AuthWord /\ file[at + 2][1] = "length"
    BY <2>2, <2>3
  <2>5. QED
    BY <2>4, AuthTyped, LengthsAreNat
<1>5. ASSUME head = "ok" PROVE whole \in Verdicts
  BY <1>1, <1>4, <1>5, FieldsOfDc, Expected DEF Verdicts
<1>6. ASSUME head = "ok" PROVE Ok(at + 4 + ip, Put(r.got, d, ip)) \in Result(Addresses)
  <2>1. Put(r.got, d, ip) \in Addresses
    BY <1>1, <1>4, <1>6, PutTyped DEF Addresses
  <2>2. QED
    BY <1>1, <1>4, <1>6, <2>1 DEF Ok, Result, Verdicts
<1>7. [r EXCEPT !.at = at + 1] \in Result(Addresses)
  BY <1>1 DEF Result
<1>8. "garbage" \in Verdicts
  BY DEF Verdicts
<1>9. read_dc(file, d, r) =
        IF r.verdict # "ok" THEN r
        ELSE IF flag # "ok" THEN Failed(flag)
        ELSE IF file[at][2] = 0 THEN [r EXCEPT !.at = at + 1]
        ELSE IF head # "ok" THEN Failed(head)
        ELSE IF whole # "ok" THEN Failed(whole)
        ELSE IF file[at + 3 + ip][2] # d THEN Failed("garbage")
        ELSE Ok(at + 4 + ip, Put(r.got, d, ip))
  BY DEF read_dc, DcFields, Ok
<1>10. \A v \in Verdicts : Failed(v) \in Result(Addresses)
  BY FailedTyped DEF Addresses
<1> HIDE DEF at, flag, head, ip, whole
<1>11. QED
  BY <1>3, <1>5, <1>6, <1>7, <1>8, <1>9, <1>10

(* Where the fields are, Expect finds them. *)
LEMMA Fits ==
  ASSUME NEW W, NEW file \in Seq(W), NEW at \in Nat, NEW F, NEW fields \in Seq(F),
         at + Len(fields) - 1 <= Len(file),
         \A i \in 1 .. Len(fields) : file[at + i - 1][1] = fields[i]
  PROVE  Expect(file, at, fields) = "ok"
BY Expected

(* A record of the file has the fields that its words have. *)
LEMMA RecordFields ==
  ASSUME NEW W, NEW file \in Seq(W), NEW at \in Nat, NEW r \in Seq(W), LiesAt(file, at, r),
         NEW F, NEW fields \in Seq(F), Len(fields) <= Len(r),
         \A i \in 1 .. Len(fields) : r[i][1] = fields[i]
  PROVE  Expect(file, at, fields) = "ok"
<1>1. Len(fields) \in Nat /\ Len(r) \in Nat /\ Len(file) \in Nat
  OBVIOUS
<1>2. at + Len(fields) - 1 <= Len(file)
  <2>1. at + Len(r) - 1 <= Len(file)
    BY DEF LiesAt
  <2>2. QED
    BY <1>1, <2>1
<1>3. ASSUME NEW i \in 1 .. Len(fields) PROVE file[at + i - 1][1] = fields[i]
  <2>1. i \in 1 .. Len(r)
    BY <1>1
  <2>2. file[at + i - 1] = r[i]
    BY <2>1 DEF LiesAt
  <2>3. QED
    BY <2>2
<1>4. QED
  BY <1>2, <1>3, Expected

(* read_dc reads what write_dc wrote. *)
LEMMA ReadsDc ==
  ASSUME NEW file \in Seq(AuthWord), NEW d \in DC, NEW x \in Addresses,
         NEW at \in Nat, at > 0, NEW got, LiesAt(file, at, write_dc(d, x))
  PROVE  read_dc(file, d, Ok(at, got)) =
           Ok(at + Len(write_dc(d, x)), IF d \in DOMAIN x THEN Put(got, d, x[d]) ELSE got)
<1> DEFINE r == write_dc(d, x)
           short == <<"flag">>
           long == <<"flag", "port", "length">>
           flag == Expect(file, at, short)
           head == Expect(file, at, long)
           ip == file[at + 2][2]
           all == DcFields(ip)
           whole == Expect(file, at, all)
<1>1. /\ r \in Seq(AuthWord)
      /\ d \notin DOMAIN x => Len(r) = 1 /\ r[1] = <<"flag", 0>>
      /\ d \in DOMAIN x =>
           /\ Len(r) = 4 + x[d] /\ r[1] = <<"flag", 1>> /\ r[2] = <<"port", 0>>
           /\ r[3] = <<"length", x[d]>>
           /\ \A i \in 1 .. x[d] : r[3 + i] = <<"ip", d>>
           /\ r[4 + x[d]] = <<"key", d>>
  BY DcWords
<1>2. LiesAt(file, at, r)
  OBVIOUS
<1>3. short \in Seq(Field) /\ Len(short) = 1 /\ short[1] = "flag"
  BY DEF Field
<1>4. /\ long \in Seq(Field) /\ Len(long) = 3
      /\ long[1] = "flag" /\ long[2] = "port" /\ long[3] = "length"
  BY DEF Field
<1>5. d \in DOMAIN x => x[d] \in Nat
  BY AddressWords
<1>6. read_dc(file, d, Ok(at, got)) =
        IF flag # "ok" THEN Failed(flag)
        ELSE IF file[at][2] = 0 THEN Ok(at + 1, got)
        ELSE IF head # "ok" THEN Failed(head)
        ELSE IF whole # "ok" THEN Failed(whole)
        ELSE IF file[at + 3 + ip][2] # d THEN Failed("garbage")
        ELSE Ok(at + 4 + ip, Put(got, d, ip))
  <2>1. Ok(at, got).verdict = "ok" /\ Ok(at, got).at = at /\ Ok(at, got).got = got
          /\ [Ok(at, got) EXCEPT !.at = at + 1] = Ok(at + 1, got)
    BY DEF Ok
  <2>2. \A a, g : [verdict |-> "ok", at |-> a, got |-> g] = Ok(a, g)
    BY DEF Ok
  <2> DEFINE o == Ok(at, got)
  <2> HIDE DEF o
  <2>3. o.verdict = "ok" /\ o.at = at /\ o.got = got /\ [o EXCEPT !.at = at + 1] = Ok(at + 1, got)
    BY <2>1 DEF o
  <2>4. read_dc(file, d, o) =
        IF flag # "ok" THEN Failed(flag)
        ELSE IF file[at][2] = 0 THEN Ok(at + 1, got)
        ELSE IF head # "ok" THEN Failed(head)
        ELSE IF whole # "ok" THEN Failed(whole)
        ELSE IF file[at + 3 + ip][2] # d THEN Failed("garbage")
        ELSE Ok(at + 4 + ip, Put(got, d, ip))
    BY <2>2, <2>3 DEF read_dc, DcFields
  <2>5. QED
    BY <2>4 DEF o
<1> HIDE DEF r, short, long
<1>7. 1 \in 1 .. Len(r) /\ r[1][1] = "flag"
  BY <1>1, <1>5
<1>8. file[at] = r[1]
  <2>1. file[at + 1 - 1] = r[1]
    BY <1>2, <1>7 DEF LiesAt
  <2>2. QED
    BY <2>1
<1>9. flag = "ok"
  <2>1. Len(short) <= Len(r) /\ \A i \in 1 .. Len(short) : r[i][1] = short[i]
    BY <1>1, <1>3, <1>7
  <2> HIDE DEF flag
  <2>2. QED
    BY <1>1, <1>2, <1>3, <2>1, RecordFields, Zenon DEF flag
<1>10. CASE d \notin DOMAIN x
  <2>1. r[1][2] = 0 /\ Len(r) = 1
    BY <1>1, <1>10
  <2> HIDE DEF flag, head, whole, ip
  <2>2. read_dc(file, d, Ok(at, got)) = Ok(at + 1, got)
    BY <1>6, <1>8, <1>9, <2>1
  <2>3. QED
    BY <1>10, <2>1, <2>2 DEF r
<1>11. CASE d \in DOMAIN x
  <2> DEFINE n == x[d]
  <2>1. n \in Nat /\ Len(r) = 4 + n
    BY <1>1, <1>5, <1>11
  <2>2. /\ r[1] = <<"flag", 1>> /\ r[2] = <<"port", 0>> /\ r[3] = <<"length", n>>
        /\ \A i \in 1 .. n : r[3 + i] = <<"ip", d>>
        /\ r[4 + n] = <<"key", d>>
    BY <1>1, <1>11
  <2> HIDE DEF n
  <2>3. file[at + 2] = r[3] /\ file[at + 3 + n] = r[4 + n]
    <3>1. 3 \in 1 .. Len(r) /\ 4 + n \in 1 .. Len(r)
      BY <2>1
    <3>2. file[at + 3 - 1] = r[3] /\ file[at + (4 + n) - 1] = r[4 + n]
      BY <1>2, <3>1 DEF LiesAt
    <3>3. at + 3 - 1 = at + 2 /\ at + (4 + n) - 1 = at + 3 + n
      BY <2>1
    <3>4. QED
      BY <3>2, <3>3
  <2>4. ip = n
    BY <2>2, <2>3
  <2> HIDE DEF ip
  <2>5. head = "ok"
    <3>1. Len(long) <= Len(r)
      BY <1>4, <2>1
    <3>2. ASSUME NEW i \in 1 .. Len(long) PROVE r[i][1] = long[i]
      <4>1. i = 1 \/ i = 2 \/ i = 3
        BY <1>4
      <4>2. QED
        BY <1>4, <2>2, <4>1
    <3>3. Len(long) <= Len(r) /\ \A i \in 1 .. Len(long) : r[i][1] = long[i]
      BY <3>1, <3>2
    <3> HIDE DEF head
    <3>4. QED
      <4>1. long \in Seq(Field) /\ r \in Seq(AuthWord)
        BY <1>1, <1>4
      <4>2. QED
        BY <1>2, <3>3, <4>1, RecordFields, Zenon DEF head
  <2>6. whole = "ok"
    <3>1. /\ all \in Seq(Field) /\ Len(all) = 4 + n
          /\ all[1] = "flag" /\ all[2] = "port" /\ all[3] = "length"
          /\ \A i \in 1 .. n : all[3 + i] = "ip"
          /\ all[4 + n] = "key"
      BY <2>1, <2>4, FieldsOfDc
    <3> HIDE DEF all
    <3>2. Len(all) <= Len(r)
      BY <2>1, <3>1
    <3>3. ASSUME NEW i \in 1 .. Len(all) PROVE r[i][1] = all[i]
      <4>1. i = 1 \/ i = 2 \/ i = 3 \/ i = 4 + n \/ (i - 3 \in 1 .. n /\ i = 3 + (i - 3))
        BY <2>1, <3>1
      <4>2. CASE i = 1 \/ i = 2 \/ i = 3 \/ i = 4 + n
        BY <2>2, <3>1, <4>2
      <4>3. CASE i - 3 \in 1 .. n /\ i = 3 + (i - 3)
        BY <2>2, <3>1, <4>3
      <4>4. QED
        BY <4>1, <4>2, <4>3
    <3>4. Len(all) <= Len(r) /\ \A i \in 1 .. Len(all) : r[i][1] = all[i]
      BY <3>2, <3>3
    <3> HIDE DEF whole
    <3>5. QED
      <4>1. all \in Seq(Field) /\ r \in Seq(AuthWord)
        BY <1>1, <3>1
      <4>2. QED
        BY <1>2, <3>4, <4>1, RecordFields, Zenon DEF whole
  <2>7. file[at][2] = 1 /\ file[at + 3 + ip][2] = d
    BY <1>8, <2>2, <2>3, <2>4
  <2>8. read_dc(file, d, Ok(at, got)) = Ok(at + 4 + n, Put(got, d, n))
    <3> HIDE DEF flag, head, whole
    <3> QED BY <1>6, <1>9, <2>4, <2>5, <2>6, <2>7
  <2>9. at + 4 + n = at + Len(r)
    BY <2>1
  <2>10. QED
    BY <1>11, <2>8, <2>9 DEF n, r
<1>12. QED
  BY <1>10, <1>11

(* Induction up to N. *)
LEMMA Along ==
  ASSUME NEW N \in Nat, NEW S, 0 \in S, \A i \in 1 .. N : i - 1 \in S => i \in S
  PROVE  \A i \in 0 .. N : i \in S
<1> DEFINE T == {k \in Nat : k <= N => k \in S}
<1>1. 0 \in T
  OBVIOUS
<1>2. ASSUME NEW k \in Nat, k \in T PROVE k + 1 \in T
  <2>1. CASE k + 1 <= N
    <3>1. k + 1 \in 1 .. N /\ (k + 1) - 1 = k /\ k <= N
      BY <2>1
    <3>2. k \in S
      BY <1>2, <3>1
    <3>3. QED
      BY <3>1, <3>2
  <2>2. CASE ~(k + 1 <= N)
    BY <2>2
  <2>3. QED
    BY <2>1, <2>2
<1>3. Nat \subseteq T
  <2> HIDE DEF T
  <2> QED BY <1>1, <1>2, Induction
<1>4. QED
  BY <1>3

(* The results behind the data centers of the auth file. *)
AuthAfter(file, after) ==
  /\ after \in [0 .. Cardinality(DC) -> Result(Addresses)]
  /\ after[0] = [verdict |-> Expect(file, 1, <<"magic", "max", "working">>), at |-> 4, got |-> None]
  /\ \A i \in 1 .. Cardinality(DC) : after[i] = read_dc(file, InOrder(DC)[i], after[i - 1])
  /\ read_auth_file(file) =
       IF file = <<>> THEN empty_auth_file
       ELSE IF after[Cardinality(DC)].verdict # "ok" THEN after[Cardinality(DC)]
       ELSE IF Expect(file, after[Cardinality(DC)].at, <<"our_id">>) # "ok" THEN Failed("garbage")
       ELSE after[Cardinality(DC)]

HeaderFields == {"magic", "max", "working", "version", "num", "our_id"}

(* The function within read_auth_file is these results. *)
LEMMA ReadAuth ==
  ASSUME NEW file \in Seq(AuthWord)
  PROVE  \E after : AuthAfter(file, after)
<1> DEFINE n == Cardinality(DC)
           V == Result(Addresses)
           header == Expect(file, 1, <<"magic", "max", "working">>)
           a == [verdict |-> header, at |-> 4, got |-> None]
           G == [p \in (1 .. n) \X V |-> read_dc(file, InOrder(DC)[p[1]], p[2])]
           Eq(h) == h = [i \in 0 .. n |-> IF i = 0 THEN a ELSE read_dc(file, InOrder(DC)[i], h[i - 1])]
           A == CHOOSE h : Eq(h)
<1>1. n \in Nat /\ \A i \in 1 .. n : InOrder(DC)[i] \in DC
  <2>1. InOrder(DC) \in [1 .. n -> DC] /\ n \in Nat
    BY StateFilesAssumption, Ordered
  <2>2. QED
    BY <2>1
<1>2. a \in V
  <2>1. <<"magic", "max", "working">> \in Seq(HeaderFields)
    BY DEF HeaderFields
  <2>2. header \in Verdicts
    BY <2>1, 1 \in Nat, Expected DEF Verdicts
  <2> HIDE DEF header
  <2>3. QED
    BY <2>2, NoneTyped DEF Result, Addresses
<1>3. \A i \in 1 .. n, r \in V : read_dc(file, InOrder(DC)[i], r) \in V
  BY <1>1, ReadDcTyped
<1>4. read_auth_file(file) =
       IF file = <<>> THEN empty_auth_file
       ELSE IF A[n].verdict # "ok" THEN A[n]
       ELSE IF Expect(file, A[n].at, <<"our_id">>) # "ok" THEN Failed("garbage")
       ELSE A[n]
  BY DEF read_auth_file
<1> HIDE DEF V, a, n
<1>5. G \in [(1 .. n) \X V -> V] /\ \A i \in 1 .. n, r \in V : G[<<i, r>>] = read_dc(file, InOrder(DC)[i], r)
  BY <1>3
<1> HIDE DEF G
<1>6. PICK f : Recursive(f, n, V, a, G)
  BY <1>1, <1>2, <1>5, Recursion
<1>7. Eq(f)
  <2>1. f \in [0 .. n -> V] /\ f[0] = a /\ \A i \in 1 .. n : f[i] = G[<<i, f[i - 1]>>]
    BY <1>6 DEF Recursive
  <2>2. ASSUME NEW i \in 0 .. n
        PROVE  f[i] = IF i = 0 THEN a ELSE read_dc(file, InOrder(DC)[i], f[i - 1])
    <3>1. CASE i = 0
      BY <2>1, <3>1
    <3>2. CASE i # 0
      <4>1. i \in 1 .. n /\ i - 1 \in 0 .. n
        BY <1>1, <3>2
      <4>2. f[i - 1] \in V
        BY <2>1, <4>1
      <4>3. QED
        BY <1>5, <2>1, <3>2, <4>1, <4>2
    <3>3. QED
      BY <3>1, <3>2
  <2>3. QED
    BY <2>1, <2>2
<1>8. Eq(A)
  <2> HIDE DEF Eq
  <2> QED BY <1>7, Zenon DEF A
<1> HIDE DEF A
<1>9. A[0] = a /\ A = [i \in 0 .. n |-> A[i]]
  BY <1>1, <1>8
<1>10. \A i \in 1 .. n : A[i] = read_dc(file, InOrder(DC)[i], A[i - 1])
  <2> TAKE i \in 1 .. n
  <2>1. i \in 0 .. n /\ i # 0
    BY <1>1
  <2>2. QED
    BY <1>8, <2>1
<1>11. \A i \in 0 .. n : A[i] \in V
  <2> DEFINE S == {i \in 0 .. n : A[i] \in V}
  <2>1. 0 \in S
    BY <1>1, <1>2, <1>9
  <2>2. \A i \in 1 .. n : i - 1 \in S => i \in S
    BY <1>3, <1>10
  <2>3. \A i \in 0 .. n : i \in S
    <3> HIDE DEF S
    <3> QED BY <1>1, <2>1, <2>2, Along
  <2>4. QED
    BY <2>3
<1>12. A \in [0 .. n -> V]
  BY <1>9, <1>11
<1>13. AuthAfter(file, A)
  BY <1>4, <1>9, <1>10, <1>12 DEF AuthAfter, n, V, a
<1>14. QED
  BY <1>13

(* Whatever the words of the auth file are, what is read are addresses. *)
LEMMA AuthResult ==
  ASSUME NEW file \in Seq(AuthWord)
  PROVE  read_auth_file(file) \in Result(Addresses)
<1>1. PICK after : AuthAfter(file, after)
  BY ReadAuth
<1>2. after[Cardinality(DC)] \in Result(Addresses)
  <2>1. Cardinality(DC) \in 0 .. Cardinality(DC)
    BY StateFilesAssumption, FS_CardinalityType
  <2>2. QED
    BY <1>1, <2>1 DEF AuthAfter
<1>3. empty_auth_file \in Result(Addresses)
  BY StateFilesAssumption DEF empty_auth_file, Result, Verdicts, Addresses
<1>4. Failed("garbage") \in Result(Addresses)
  BY FailedTyped DEF Verdicts, Addresses
<1>5. QED
  BY <1>1, <1>2, <1>3, <1>4 DEF AuthAfter

-----------------------------------------------------------------------------
(* What is read of what was written. *)

(* What x says of the first i of D. *)
Part(D, x, i) == [d \in {D[k] : k \in 1 .. i} \cap DOMAIN x |-> x[d]]

OneByOne(D, x, n) ==
  /\ Part(D, x, 0) = None
  /\ \A i \in 1 .. n : Part(D, x, i) = IF D[i] \in DOMAIN x
                                         THEN Put(Part(D, x, i - 1), D[i], x[D[i]])
                                         ELSE Part(D, x, i - 1)
  /\ DOMAIN x \subseteq {D[k] : k \in 1 .. n} => Part(D, x, n) = x

(* Such a part grows by one element at a time. *)
LEMMA Parts ==
  ASSUME NEW n \in Nat, NEW D, NEW S, NEW T, NEW x \in Partial(S, T)
  PROVE  OneByOne(D, x, n)
<1>1. Part(D, x, 0) = None
  <2>1. {D[k] : k \in 1 .. 0} \cap DOMAIN x = {}
    OBVIOUS
  <2>2. QED
    BY <2>1 DEF Part, None
<1>0. x = [d \in DOMAIN x |-> x[d]]
  BY DEF Partial
<1>2. ASSUME NEW i \in 1 .. n
      PROVE  Part(D, x, i) = IF D[i] \in DOMAIN x
                               THEN Put(Part(D, x, i - 1), D[i], x[D[i]])
                               ELSE Part(D, x, i - 1)
  <2> DEFINE A == {D[k] : k \in 1 .. i}
             B == {D[k] : k \in 1 .. i - 1}
  <2>1. A = B \cup {D[i]}
    <3>1. \A k : k \in 1 .. i <=> k \in 1 .. i - 1 \/ k = i
      OBVIOUS
    <3>2. QED
      BY <3>1
  <2>2. Part(D, x, i) = [d \in A \cap DOMAIN x |-> x[d]]
          /\ Part(D, x, i - 1) = [d \in B \cap DOMAIN x |-> x[d]]
    BY DEF Part
  <2> HIDE DEF A, B
  <2>3. CASE D[i] \in DOMAIN x
    <3>1. Put(Part(D, x, i - 1), D[i], x[D[i]])
            = [y \in (B \cap DOMAIN x) \cup {D[i]} |-> IF y = D[i] THEN x[D[i]] ELSE x[y]]
      BY <2>2 DEF Put
    <3>2. (B \cap DOMAIN x) \cup {D[i]} = A \cap DOMAIN x
      BY <2>1, <2>3
    <3>3. QED
      BY <2>2, <2>3, <3>1, <3>2
  <2>4. CASE D[i] \notin DOMAIN x
    <3>1. A \cap DOMAIN x = B \cap DOMAIN x
      BY <2>1, <2>4
    <3>2. QED
      BY <2>2, <2>4, <3>1
  <2>5. QED
    BY <2>3, <2>4
<1>3. ASSUME DOMAIN x \subseteq {D[k] : k \in 1 .. n} PROVE Part(D, x, n) = x
  <2>1. {D[k] : k \in 1 .. n} \cap DOMAIN x = DOMAIN x
    BY <1>3
  <2>2. QED
    BY <1>0, <2>1 DEF Part
<1>4. QED
  BY <1>1, <1>2, <1>3 DEF OneByOne

(* The file begins with these words. *)
Begins(file, words) ==
  /\ Len(words) <= Len(file)
  /\ \A p \in 1 .. Len(words) : file[p] = words[p]

(* An auth file that begins with the words of x is read as x. *)
LEMMA AuthReadsBack ==
  ASSUME NEW file \in Seq(AuthWord), NEW x \in Addresses, Begins(file, AuthWords(x))
  PROVE  Reads(read_auth_file(file)) = Verdict("ok", x)
<1> DEFINE n == Cardinality(DC)
           D == InOrder(DC)
           w == AuthWords(x)
           r(i) == write_dc(D[i], x)
<1>1. n \in Nat /\ D \in [1 .. n -> DC] /\ \A d \in DC : \E i \in 1 .. n : D[i] = d
  BY StateFilesAssumption, Ordered
<1>2. PICK off : AuthPlaces(w, x, off)
  BY AuthPlaced
<1>3. /\ w \in Seq(AuthWord) /\ Len(w) = 4 + off[n]
      /\ w[1][1] = "magic" /\ w[2][1] = "max" /\ w[3][1] = "working"
      /\ w[4 + off[n]][1] = "our_id"
  BY <1>2 DEF AuthPlaces
<1>4. /\ off \in [0 .. n -> Nat] /\ off[0] = 0
      /\ \A i \in 1 .. n : off[i] = off[i - 1] + Len(r(i)) /\ off[i] <= off[n]
  BY <1>2 DEF AuthPlaces
<1>5. \A i \in 1 .. n : \A j \in 1 .. Len(r(i)) : w[3 + off[i - 1] + j] = r(i)[j]
  BY <1>2 DEF AuthPlaces
<1>6. PICK after : AuthAfter(file, after)
  BY ReadAuth
<1> HIDE DEF n, D, w
<1>7. Len(w) <= Len(file) /\ (\A p \in 1 .. Len(w) : file[p] = w[p])
  BY DEF Begins, w
<1>8. off[n] \in Nat /\ Len(file) \in Nat
  BY <1>1, <1>4
<1>9. \A i \in 1 .. n : D[i] \in DC /\ r(i) \in Seq(AuthWord) /\ Len(r(i)) \in Nat
  BY <1>1, DcWords
<1> HIDE DEF r
<1>10. ASSUME NEW i \in 1 .. n PROVE LiesAt(file, 4 + off[i - 1], r(i)) /\ 4 + off[i - 1] \in Nat
  <2> DEFINE o == off[i - 1]
             l == Len(r(i))
  <2>1. o \in Nat /\ l \in Nat /\ o + l <= off[n]
    <3>1. i - 1 \in 0 .. n
      BY <1>1
    <3>2. o \in Nat
      BY <1>4, <3>1
    <3>3. off[i] = o + l /\ off[i] <= off[n]
      BY <1>4
    <3>4. l \in Nat
      BY <1>9
    <3>5. QED
      BY <3>2, <3>3, <3>4, Zenon
  <2> HIDE DEF l
  <2>2. ASSUME NEW j \in 1 .. l PROVE file[(4 + o) + j - 1] = r(i)[j]
    <3>1. w[3 + o + j] = r(i)[j]
      BY <1>5 DEF l
    <3> HIDE DEF o
    <3>2. 3 + o + j \in 1 .. Len(w) /\ (4 + o) + j - 1 = 3 + o + j
      BY <1>3, <1>8, <2>1
    <3>3. file[3 + o + j] = w[3 + o + j]
      BY <1>7, <3>2
    <3>4. QED
      BY <3>1, <3>2, <3>3
  <2>3. (4 + o) + l - 1 <= Len(file) /\ 4 + o \in Nat
    <3> HIDE DEF o
    <3>1. Len(w) <= Len(file) /\ Len(w) = 4 + off[n]
      BY <1>3, <1>7
    <3>2. QED
      BY <1>8, <2>1, <3>1
  <2>4. QED
    BY <2>2, <2>3 DEF LiesAt, l
<1>11. Expect(file, 1, <<"magic", "max", "working">>) = "ok"
  <2> DEFINE fields == <<"magic", "max", "working">>
  <2>1. fields \in Seq(HeaderFields) /\ Len(fields) = 3
          /\ fields[1] = "magic" /\ fields[2] = "max" /\ fields[3] = "working"
    BY DEF HeaderFields
  <2> HIDE DEF fields
  <2>2. LiesAt(file, 1, w)
    <3>1. \A j \in 1 .. Len(w) : 1 + j - 1 = j
      BY <1>3
    <3>2. 1 + Len(w) - 1 = Len(w)
      BY <1>3, <1>8
    <3>3. QED
      BY <1>7, <3>1, <3>2 DEF LiesAt
  <2>3. Len(fields) <= Len(w)
    BY <1>3, <1>8, <2>1
  <2>4. ASSUME NEW i \in 1 .. Len(fields) PROVE w[i][1] = fields[i]
    <3>1. i = 1 \/ i = 2 \/ i = 3
      BY <2>1
    <3>2. QED
      BY <1>3, <2>1, <3>1
  <2>5. Expect(file, 1, fields) = "ok"
    <3>1. \A i \in 1 .. Len(fields) : w[i][1] = fields[i]
      BY <2>4
    <3>2. w \in Seq(AuthWord) /\ fields \in Seq(HeaderFields) /\ 1 \in Nat
      BY <1>3, <2>1
    <3>3. QED
      BY <2>2, <2>3, <3>1, <3>2, RecordFields, Zenon
  <2>6. QED
    BY <2>5 DEF fields
<1>12. x = [d \in DOMAIN x |-> x[d]] /\ DOMAIN x \subseteq DC
  BY AddressWords
<1>13. /\ Part(D, x, 0) = None
       /\ \A i \in 1 .. n : Part(D, x, i) = IF D[i] \in DOMAIN x
                                              THEN Put(Part(D, x, i - 1), D[i], x[D[i]])
                                              ELSE Part(D, x, i - 1)
       /\ Part(D, x, n) = x
  <2>1. DOMAIN x \subseteq {D[k] : k \in 1 .. n}
    BY <1>1, <1>12
  <2>2. OneByOne(D, x, n)
    BY <1>1, Parts, Zenon DEF Addresses
  <2>3. QED
    BY <2>1, <2>2 DEF OneByOne
<1>14. \A i \in 0 .. n : after[i] = Ok(4 + off[i], Part(D, x, i))
  <2> DEFINE S == {i \in 0 .. n : after[i] = Ok(4 + off[i], Part(D, x, i))}
  <2>1. 0 \in S
    <3>1. after[0] = Ok(4, None)
      BY <1>6, <1>11 DEF AuthAfter, Ok
    <3>2. 4 + off[0] = 4 /\ 0 \in 0 .. n
      BY <1>1, <1>4
    <3>3. QED
      BY <1>13, <3>1, <3>2
  <2>2. ASSUME NEW i \in 1 .. n, i - 1 \in S PROVE i \in S
    <3> DEFINE at == 4 + off[i - 1]
               got == Part(D, x, i - 1)
    <3>1. after[i] = read_dc(file, D[i], Ok(at, got))
      BY <1>6, <2>2 DEF AuthAfter, n, D
    <3>2. at \in Nat /\ at > 0 /\ LiesAt(file, at, write_dc(D[i], x)) /\ D[i] \in DC
      <4>1. at \in Nat /\ LiesAt(file, at, write_dc(D[i], x)) /\ D[i] \in DC
        BY <1>9, <1>10 DEF r
      <4>2. off[i - 1] \in Nat
        <5>1. i - 1 \in 0 .. n
          BY <1>1
        <5>2. QED
          BY <1>4, <5>1
      <4>3. at \in Nat /\ at > 0
        BY <4>2
      <4>4. QED
        BY <4>1, <4>3, Zenon
    <3> HIDE DEF at, got
    <3>3. after[i] = Ok(at + Len(r(i)), IF D[i] \in DOMAIN x THEN Put(got, D[i], x[D[i]]) ELSE got)
      BY <3>1, <3>2, ReadsDc DEF r
    <3>4. at + Len(r(i)) = 4 + off[i]
      <4>1. off[i] = off[i - 1] + Len(r(i)) /\ Len(r(i)) \in Nat
        BY <1>4, <1>9 DEF r
      <4>2. i - 1 \in 0 .. n
        BY <1>1
      <4>3. off[i - 1] \in Nat
        BY <1>4, <4>2
      <4> HIDE DEF r
      <4>4. QED
        BY <4>1, <4>3 DEF at
    <3>5. i \in 0 .. n
      BY <1>1
    <3>6. QED
      BY <1>13, <3>3, <3>4, <3>5 DEF got
  <2>3. \A i \in 0 .. n : i \in S
    <3>1. \A i \in 1 .. n : i - 1 \in S => i \in S
      BY <2>2
    <3> HIDE DEF S
    <3>2. QED
      BY <1>1, <2>1, <3>1, Along
  <2>4. QED
    BY <2>3
<1>15. after[n] = Ok(4 + off[n], x)
  <2>1. n \in 0 .. n
    BY <1>1
  <2>2. QED
    BY <1>13, <1>14, <2>1
<1>16. Expect(file, 4 + off[n], <<"our_id">>) = "ok"
  <2> DEFINE fields == <<"our_id">>
             at == 4 + off[n]
  <2>1. fields \in Seq(HeaderFields) /\ Len(fields) = 1 /\ fields[1] = "our_id"
    BY DEF HeaderFields
  <2>2. at \in Nat /\ at <= Len(file) /\ file[at][1] = "our_id"
    <3>1. at \in 1 .. Len(w)
      BY <1>3, <1>8
    <3>2. QED
      BY <1>3, <1>7, <1>8, <3>1
  <2> HIDE DEF fields, at
  <2>3. at + Len(fields) - 1 <= Len(file)
          /\ \A i \in 1 .. Len(fields) : file[at + i - 1][1] = fields[i]
    <3>1. \A i \in 1 .. 1 : i = 1 /\ at + i - 1 = at
      BY <2>2
    <3>2. QED
      BY <2>1, <2>2, <3>1
  <2>4. Expect(file, at, fields) = "ok"
    BY <2>1, <2>2, <2>3, Fits, Zenon
  <2>5. QED
    BY <2>4 DEF fields, at
<1>17. file # <<>>
  BY <1>3, <1>7, <1>8
<1>18. read_auth_file(file) = Ok(4 + off[n], x)
  BY <1>6, <1>15, <1>16, <1>17 DEF AuthAfter, Ok, n
<1>19. QED
  BY <1>18 DEF Ok, Reads, Verdict

-----------------------------------------------------------------------------
(* The secret-chat file. *)
LEMMA ChatsAndNames ==
  /\ Chat \subseteq Int /\ IsFiniteSet(Chat) /\ Cardinality(Chat) \in Nat
  /\ MaxNumber \in Nat
<1>1. Chat \subseteq Int /\ IsFiniteSet(Chat) /\ MaxNumber \in Nat
  BY StateFilesAssumption
<1>2. Cardinality(Chat) \in Nat
  BY <1>1, FS_CardinalityType
<1>3. QED
  BY <1>1, <1>2, Zenon

(* The names of chats have lengths that the file can say. *)
LEMMA NamesTyped ==
  ASSUME NEW sizes \in Names, NEW c \in DOMAIN sizes
  PROVE  sizes[c] \in 1 .. 999 /\ sizes[c] \in Nat
<1>1. NamesLengths \subseteq 1 .. 999
  <2>1. NameLengths \in [Chat -> SUBSET (1 .. 999)]
    BY StateFilesAssumption, Zenon
  <2>2. \A d \in Chat : NameLengths[d] \subseteq 1 .. 999
    BY <2>1
  <2>3. QED
    BY <2>2 DEF NamesLengths
<1>2. PICK S \in SUBSET Chat : sizes \in [S -> NamesLengths]
  BY DEF Names, Partial
<1>3. sizes[c] \in NamesLengths
  BY <1>2
<1>4. sizes[c] \in 1 .. 999
  BY <1>1, <1>3, Zenon
<1>5. \A m \in 1 .. 999 : m \in Nat
  OBVIOUS
<1>6. QED
  BY <1>4, <1>5, Zenon

(* Chats are a function from ids to numbers. *)
LEMMA ChatsTyped ==
  ASSUME NEW x \in Chats
  PROVE  /\ DOMAIN x \subseteq Chat /\ x = [c \in DOMAIN x |-> x[c]]
         /\ \A c \in DOMAIN x : x[c] \in 0 .. MaxNumber
         /\ DOMAIN x \subseteq Int /\ IsFiniteSet(DOMAIN x) /\ Cardinality(DOMAIN x) \in Nat
         /\ Cardinality(DOMAIN x) <= Cardinality(Chat)
<1>1. PICK S \in SUBSET Chat : x \in [S -> 0 .. MaxNumber]
  BY DEF Chats, Partial
<1>2. IsFiniteSet(S) /\ Cardinality(S) <= Cardinality(Chat)
  <2>1. IsFiniteSet(Chat)
    BY ChatsAndNames, Zenon
  <2>2. QED
    BY <2>1, FS_Subset
<1>3. Cardinality(S) \in Nat
  BY <1>2, FS_CardinalityType
<1>4. QED
  BY <1>1, <1>2, <1>3, ChatsAndNames

(* The words of one chat. *)
ChatWords(r, c, v, sizes) ==
  /\ r \in Seq(SecretWord) /\ Len(r) = 4 + sizes[c]
  /\ r[1] = <<"id", c>> /\ r[2] = <<"length", sizes[c]>>
  /\ \A i \in 1 .. sizes[c] : r[2 + i] = <<"name", c>>
  /\ r[3 + sizes[c]] = <<"key", c>>
  /\ r[4 + sizes[c]] = <<"in_seq_no", v>>

(* write_secret_chat writes these. *)
LEMMA ChatWritten ==
  ASSUME NEW x \in Chats, NEW sizes \in Names, DOMAIN sizes = DOMAIN x, NEW c \in DOMAIN x
  PROVE  ChatWords(write_secret_chat(c, x, sizes), c, x[c], sizes)
<1> DEFINE k == sizes[c]
           a == <<<<"id", c>>, <<"length", k>>>>
           b == Times(k, <<"name", c>>)
           e == <<<<"key", c>>, <<"in_seq_no", x[c]>>>>
           ab == a \o b
           r == ab \o e
<1>1. c \in Chat /\ k \in 1 .. 999 /\ k \in Nat /\ x[c] \in 0 .. MaxNumber
  BY ChatsTyped, NamesTyped
<1>2. /\ <<"id", c>> \in SecretWord /\ <<"length", k>> \in SecretWord /\ <<"name", c>> \in SecretWord
      /\ <<"key", c>> \in SecretWord /\ <<"in_seq_no", x[c]>> \in SecretWord
  <2> HIDE DEF k
  <2> QED BY <1>1 DEF SecretWord
<1>3. a \in Seq(SecretWord) /\ Len(a) = 2 /\ a[1] = <<"id", c>> /\ a[2] = <<"length", k>>
  BY <1>2
<1>4. b \in Seq(SecretWord) /\ Len(b) = k /\ \A i \in 1 .. k : b[i] = <<"name", c>>
  <2>1. k \in Nat /\ <<"name", c>> \in SecretWord
    BY <1>1, <1>2
  <2> HIDE DEF k
  <2>2. QED
    BY <2>1, TimesWords
<1>5. e \in Seq(SecretWord) /\ Len(e) = 2 /\ e[1] = <<"key", c>> /\ e[2] = <<"in_seq_no", x[c]>>
  BY <1>2
<1>6. r = write_secret_chat(c, x, sizes)
  BY DEF write_secret_chat
<1> HIDE DEF a, b, e, k
<1>7. 2 \in Nat /\ k \in Nat /\ 2 + k \in Nat
  BY <1>1
<1>8. Joined(ab, SecretWord, a, b, 2, k)
  BY <1>3, <1>4, <1>7, Join, Zenon
<1>9. ab \in Seq(SecretWord) /\ Len(ab) = 2 + k
  BY <1>8 DEF Joined
<1> HIDE DEF ab
<1>10. Joined(r, SecretWord, ab, e, 2 + k, 2)
  BY <1>5, <1>7, <1>9, Join, Zenon
<1> HIDE DEF r
<1>11. r \in Seq(SecretWord) /\ Len(r) = 4 + k
  BY <1>7, <1>10 DEF Joined
<1>12. r[3 + k] = <<"key", c>> /\ r[4 + k] = <<"in_seq_no", x[c]>>
  <2>1. (2 + k) + 1 = 3 + k /\ (2 + k) + 2 = 4 + k /\ 1 \in 1 .. 2 /\ 2 \in 1 .. 2
    BY <1>7
  <2>2. r[(2 + k) + 1] = e[1] /\ r[(2 + k) + 2] = e[2]
    BY <1>10, <2>1 DEF Joined
  <2>3. QED
    BY <1>5, <2>1, <2>2
<1>13. \A i \in 1 .. 2 + k : r[i] = ab[i]
  BY <1>10 DEF Joined
<1>14. r[1] = a[1] /\ r[2] = a[2]
  BY <1>7, <1>8, <1>13 DEF Joined
<1>15. ASSUME NEW i \in 1 .. k PROVE r[2 + i] = <<"name", c>>
  <2>1. 2 + i \in 1 .. 2 + k
    BY <1>7
  <2>2. r[2 + i] = ab[2 + i]
    BY <1>13, <2>1
  <2>3. ab[2 + i] = b[i]
    BY <1>8 DEF Joined
  <2>4. QED
    BY <1>4, <2>2, <2>3
<1>16. ChatWords(r, c, x[c], sizes)
  BY <1>3, <1>11, <1>12, <1>14, <1>15 DEF ChatWords, k
<1>17. QED
  BY <1>6, <1>16

(* The places of the chats S in the file. *)
ChatPlaces(off, S, sizes) ==
  /\ off \in [0 .. Cardinality(S) -> Nat] /\ off[0] = 0
  /\ \A i \in 1 .. Cardinality(S) : off[i] = off[i - 1] + (4 + sizes[InOrder(S)[i]])

Place(S, sizes) == CHOOSE off : ChatPlaces(off, S, sizes)

(* There are such places. *)
LEMMA PlaceOfChats ==
  ASSUME NEW S \in SUBSET Chat, IsFiniteSet(S), NEW sizes \in Names, DOMAIN sizes = S
  PROVE  ChatPlaces(Place(S, sizes), S, sizes)
<1> DEFINE n == Cardinality(S)
           D == InOrder(S)
           G == [p \in (1 .. n) \X Nat |-> p[2] + (4 + sizes[D[p[1]]])]
<1>1. n \in Nat /\ D \in [1 .. n -> S]
  <2>1. S \subseteq Int
    BY ChatsAndNames
  <2>2. QED
    BY <2>1, Ordered
<1>2. \A i \in 1 .. n : sizes[D[i]] \in Nat
  BY <1>1, NamesTyped
<1> HIDE DEF n, D
<1>3. G \in [(1 .. n) \X Nat -> Nat] /\ 0 \in Nat
  BY <1>2
<1>4. \A i \in 1 .. n, k \in Nat : G[<<i, k>>] = k + (4 + sizes[D[i]])
  OBVIOUS
<1> HIDE DEF G
<1>5. PICK off : Recursive(off, n, Nat, 0, G)
  BY <1>1, <1>3, Recursion
<1>6. off \in [0 .. n -> Nat] /\ off[0] = 0 /\ \A i \in 1 .. n : off[i] = G[<<i, off[i - 1]>>]
  BY <1>5 DEF Recursive
<1>7. ASSUME NEW i \in 1 .. n PROVE off[i] = off[i - 1] + (4 + sizes[D[i]])
  <2>1. off[i - 1] \in Nat
    BY <1>1, <1>6
  <2>2. QED
    BY <1>4, <1>6, <2>1
<1>8. ChatPlaces(off, S, sizes)
  BY <1>6, <1>7 DEF ChatPlaces, n, D
<1>9. QED
  BY <1>8, Zenon DEF Place

(* The file counts num chats, and those of x lie in it at their places. *)
Keeps(file, x, sizes, num) ==
  LET S == DOMAIN x
  IN  /\ file \in Seq(SecretWord) /\ 3 + Place(S, sizes)[Cardinality(S)] <= Len(file)
      /\ file[1] = <<"magic", 2>> /\ file[2] = <<"version", 2>> /\ file[3] = <<"num", num>>
      /\ \A i \in 1 .. Cardinality(S) :
           LiesAt(file, 4 + Place(S, sizes)[i - 1], write_secret_chat(InOrder(S)[i], x, sizes))

(* The words of the secret-chat file keep the chats. *)
LEMMA SecretPlaced ==
  ASSUME NEW x \in Chats, NEW sizes \in Names, DOMAIN sizes = DOMAIN x,
         NEW num \in 0 .. Cardinality(Chat) + 2
  PROVE  /\ Keeps(SecretWords(x, sizes, num), x, sizes, num)
         /\ Len(SecretWords(x, sizes, num)) = 3 + Place(DOMAIN x, sizes)[Cardinality(DOMAIN x)]
<1> DEFINE S == DOMAIN x
           n == Cardinality(S)
           D == InOrder(S)
           off == Place(S, sizes)
           r == [i \in 1 .. n |-> write_secret_chat(D[i], x, sizes)]
<1>1. S \in SUBSET Chat /\ IsFiniteSet(S) /\ S \subseteq Int
  BY ChatsTyped
<1>2. n \in Nat /\ D \in [1 .. n -> S]
  BY <1>1, Ordered
<1>3. ASSUME NEW i \in 1 .. n
      PROVE  r[i] \in Seq(SecretWord) /\ Len(r[i]) = 4 + sizes[D[i]]
               /\ r[i] = write_secret_chat(D[i], x, sizes)
  <2>1. D[i] \in DOMAIN x
    BY <1>2
  <2>2. ChatWords(write_secret_chat(D[i], x, sizes), D[i], x[D[i]], sizes)
    BY <2>1, ChatWritten
  <2>3. QED
    BY <2>2 DEF ChatWords
<1>4. r \in [1 .. n -> Seq(SecretWord)]
  BY <1>3
<1>5. /\ off \in [0 .. n -> Nat] /\ off[0] = 0
      /\ \A i \in 1 .. n : off[i] = off[i - 1] + (4 + sizes[D[i]])
  BY <1>1, PlaceOfChats DEF ChatPlaces
<1> DEFINE f == FlattenSeq(r)
           a == <<<<"magic", 2>>, <<"version", 2>>, <<"num", num>>>>
           w == a \o f
           k == off[n]
<1>6. SecretWords(x, sizes, num) = w
  BY DEF SecretWords
<1> HIDE DEF S, n, D, off, r
<1>7. Places(off, n, r)
  BY <1>3, <1>5 DEF Places
<1>8. /\ f \in Seq(SecretWord) /\ Len(f) = off[n]
      /\ \A i \in 1 .. n : /\ off[i] <= off[n]
                           /\ \A j \in 1 .. Len(r[i]) : f[off[i - 1] + j] = r[i][j]
  <2>1. Composed(f, SecretWord, n, r, off)
    BY <1>2, <1>4, <1>7, Flattened, Zenon
  <2>2. QED
    BY <2>1 DEF Composed
<1>9. a \in Seq(SecretWord) /\ Len(a) = 3
        /\ a[1] = <<"magic", 2>> /\ a[2] = <<"version", 2>> /\ a[3] = <<"num", num>>
  <2>1. /\ <<"magic", 2>> \in SecretWord /\ <<"version", 2>> \in SecretWord
        /\ <<"num", num>> \in SecretWord
    BY DEF SecretWord
  <2>2. QED
    BY <2>1
<1>10. 3 \in Nat /\ k \in Nat /\ Len(f) = k
  BY <1>2, <1>5, <1>8
<1> HIDE DEF a, f, k
<1>11. Joined(w, SecretWord, a, f, 3, k)
  BY <1>8, <1>9, <1>10, Join, Zenon
<1> HIDE DEF w
<1>12. w \in Seq(SecretWord) /\ Len(w) = 3 + k
         /\ w[1] = <<"magic", 2>> /\ w[2] = <<"version", 2>> /\ w[3] = <<"num", num>>
  BY <1>9, <1>11, 1 \in 1 .. 3, 2 \in 1 .. 3, 3 \in 1 .. 3 DEF Joined
<1>13. ASSUME NEW i \in 1 .. n PROVE LiesAt(w, 4 + off[i - 1], r[i])
  <2> DEFINE o == off[i - 1]
             l == Len(r[i])
  <2>1. o \in Nat /\ l \in Nat /\ o + l <= k
    <3>1. off[i - 1] \in Nat /\ off[i] \in Nat /\ off[i] <= k /\ Len(r[i]) \in Nat
      BY <1>2, <1>3, <1>5, <1>8 DEF k
    <3>2. off[i] = off[i - 1] + Len(r[i])
      BY <1>3, <1>5
    <3>3. QED
      BY <3>1, <3>2
  <2>2. ASSUME NEW j \in 1 .. l PROVE w[(4 + o) + j - 1] = r[i][j]
    <3>1. f[o + j] = r[i][j]
      BY <1>8
    <3> HIDE DEF o, l
    <3>2. o + j \in 1 .. k /\ (4 + o) + j - 1 = 3 + (o + j)
      BY <1>10, <2>1
    <3>3. w[3 + (o + j)] = f[o + j]
      BY <1>11, <3>2 DEF Joined
    <3>4. QED
      BY <3>1, <3>2, <3>3
  <2>3. (4 + o) + l - 1 <= Len(w)
    <3> HIDE DEF o, l
    <3> QED BY <1>10, <1>12, <2>1
  <2>4. QED
    BY <2>2, <2>3 DEF LiesAt
<1>14. \A i \in 1 .. n : LiesAt(w, 4 + off[i - 1], write_secret_chat(D[i], x, sizes))
  BY <1>3, <1>13
<1>15. 3 + k <= Len(w)
  BY <1>10, <1>12
<1>16. Keeps(w, x, sizes, num)
  BY <1>12, <1>14, <1>15 DEF Keeps, S, D, n, off, k
<1>17. QED
  BY <1>6, <1>12, <1>16 DEF k, n, off, S

(* The fields of a chat. *)
ChatFields(name) == <<"id", "length">> \o Times(name, "name") \o <<"key", "in_seq_no">>

FieldsOfChat(w, name) ==
  /\ w \in Seq(Field) /\ Len(w) = 4 + name
  /\ w[1] = "id" /\ w[2] = "length" /\ (\A i \in 1 .. name : w[2 + i] = "name")
  /\ w[3 + name] = "key" /\ w[4 + name] = "in_seq_no"

(* They are those of the words of write_secret_chat. *)
LEMMA ChatFieldsAre ==
  ASSUME NEW name \in Nat
  PROVE  FieldsOfChat(ChatFields(name), name)
<1> DEFINE a == <<"id", "length">>
           b == Times(name, "name")
           e == <<"key", "in_seq_no">>
           ab == a \o b
           w == ab \o e
<1>1. a \in Seq(Field) /\ Len(a) = 2 /\ a[1] = "id" /\ a[2] = "length"
  BY DEF Field
<1>2. b \in Seq(Field) /\ Len(b) = name /\ \A i \in 1 .. name : b[i] = "name"
  BY TimesWords, "name" \in Field DEF Field
<1>3. e \in Seq(Field) /\ Len(e) = 2 /\ e[1] = "key" /\ e[2] = "in_seq_no"
  BY DEF Field
<1>4. 2 \in Nat /\ 2 + name \in Nat /\ ChatFields(name) = w
  BY DEF ChatFields
<1> HIDE DEF a, b, e
<1>5. Joined(ab, Field, a, b, 2, name)
  BY <1>1, <1>2, <1>4, Join, Zenon
<1>6. ab \in Seq(Field) /\ Len(ab) = 2 + name
  BY <1>5 DEF Joined
<1> HIDE DEF ab
<1>7. Joined(w, Field, ab, e, 2 + name, 2)
  BY <1>3, <1>4, <1>6, Join, Zenon
<1> HIDE DEF w
<1>8. w \in Seq(Field) /\ Len(w) = 4 + name
  BY <1>7 DEF Joined
<1>9. w[3 + name] = "key" /\ w[4 + name] = "in_seq_no"
  <2>1. (2 + name) + 1 = 3 + name /\ (2 + name) + 2 = 4 + name /\ 1 \in 1 .. 2 /\ 2 \in 1 .. 2
    OBVIOUS
  <2>2. w[(2 + name) + 1] = e[1] /\ w[(2 + name) + 2] = e[2]
    BY <1>7, <2>1 DEF Joined
  <2>3. QED
    BY <1>3, <2>1, <2>2
<1>10. \A i \in 1 .. 2 + name : w[i] = ab[i]
  BY <1>7 DEF Joined
<1>11. w[1] = "id" /\ w[2] = "length"
  BY <1>1, <1>5, <1>10 DEF Joined
<1>12. ASSUME NEW i \in 1 .. name PROVE w[2 + i] = "name"
  <2>1. w[2 + i] = ab[2 + i]
    BY <1>10
  <2>2. ab[2 + i] = b[i]
    BY <1>5 DEF Joined
  <2>3. QED
    BY <1>2, <2>1, <2>2
<1>13. QED
  BY <1>4, <1>8, <1>9, <1>11, <1>12 DEF FieldsOfChat

(* What the words of the secret-chat file can be. *)
LEMMA SecretTyped ==
  ASSUME NEW w \in SecretWord
  PROVE  /\ w[1] = "id" => w[2] \in Chat
         /\ w[1] = "length" => w[2] \in 1 .. 999
         /\ w[1] = "num" => w[2] \in 0 .. Cardinality(Chat) + 2
         /\ w[1] = "in_seq_no" => w[2] \in 0 .. MaxNumber
BY DEF SecretWord

(* What one finds in the file where these fields were expected. *)
Holds(file, at, fields) ==
  /\ at + Len(fields) - 1 <= Len(file)
  /\ \A i \in 1 .. Len(fields) : file[at + i - 1][1] = fields[i]

(* Expect says so. *)
LEMMA Found ==
  ASSUME NEW W, NEW file \in Seq(W), NEW at \in Nat, NEW F, NEW fields \in Seq(F)
  PROVE  /\ Expect(file, at, fields) \in Verdicts
         /\ Expect(file, at, fields) = "ok" => Holds(file, at, fields)
BY Expected DEF Verdicts, Holds

(* Reading goes on within the file. *)
ChatResult == {r \in Result(Chats) : r.verdict = "ok" => r.at > 0}

(* Whatever the file holds, read_secret_chat yields chats. *)
LEMMA ReadChatTyped ==
  ASSUME NEW file \in Seq(SecretWord), NEW r \in ChatResult
  PROVE  read_secret_chat(file, r) \in ChatResult
<1> DEFINE at == r.at
           short == <<"id", "length">>
           head == Expect(file, at, short)
           name == file[at + 1][2]
           all == ChatFields(name)
           whole == Expect(file, at, all)
           c == file[at][2]
           number == file[at + 3 + name][2]
<1>1. at \in Nat /\ r.verdict \in Verdicts /\ r.got \in Chats /\ (r.verdict = "ok" => at > 0)
  BY DEF Result, ChatResult
<1>2. short \in Seq(Field) /\ Len(short) = 2 /\ short[1] = "id" /\ short[2] = "length"
  BY DEF Field
<1>3. read_secret_chat(file, r) =
        IF r.verdict # "ok" THEN r
        ELSE IF head # "ok" THEN Failed(head)
        ELSE IF whole # "ok" THEN Failed(whole)
        ELSE IF \E i \in 0 .. name : file[at + 2 + i][2] # c THEN Failed("garbage")
        ELSE Ok(at + 4 + name, Put(r.got, c, number))
  BY DEF read_secret_chat, ChatFields, Ok, InSeqNo
<1> HIDE DEF at, short
<1>4. head \in Verdicts /\ (head = "ok" => Holds(file, at, short))
  BY <1>1, <1>2, Found, Zenon
<1>5. ASSUME head = "ok", at > 0 PROVE name \in Nat /\ at \in 1 .. Len(file) /\ c \in Chat
  <2>1. /\ at + 2 - 1 <= Len(file)
        /\ \A i \in 1 .. 2 : file[at + i - 1][1] = short[i]
    BY <1>2, <1>4, <1>5 DEF Holds
  <2>2. file[at + 1 - 1][1] = "id" /\ file[at + 2 - 1][1] = "length"
    BY <1>2, <2>1, 1 \in 1 .. 2, 2 \in 1 .. 2
  <2>3. at + 1 - 1 = at /\ at + 2 - 1 = at + 1
    BY <1>1
  <2>4. at \in 1 .. Len(file) /\ at + 1 \in 1 .. Len(file)
    BY <1>1, <1>5, <2>1
  <2>5. file[at] \in SecretWord /\ file[at + 1] \in SecretWord
    BY <2>4
  <2>6. file[at][1] = "id" /\ file[at + 1][1] = "length"
    BY <2>2, <2>3
  <2>7. c \in Chat /\ name \in 1 .. 999
    BY <2>5, <2>6, SecretTyped
  <2>8. name \in Nat
    <3> HIDE DEF name
    <3> QED BY <2>7
  <2>9. QED
    BY <2>4, <2>7, <2>8
<1> HIDE DEF head, c
<1>6. ASSUME head = "ok", at > 0 PROVE whole \in Verdicts /\ (whole = "ok" => number \in 0 .. MaxNumber)
  <2>1. name \in Nat
    BY <1>5, <1>6
  <2> HIDE DEF name
  <2>2. FieldsOfChat(all, name)
    BY <2>1, ChatFieldsAre, Zenon
  <2> HIDE DEF all
  <2>3. all \in Seq(Field) /\ Len(all) = 4 + name /\ all[4 + name] = "in_seq_no"
    BY <2>2 DEF FieldsOfChat
  <2>4. whole \in Verdicts /\ (whole = "ok" => Holds(file, at, all))
    BY <1>1, <2>3, Found, Zenon
  <2> HIDE DEF whole
  <2>5. ASSUME whole = "ok" PROVE number \in 0 .. MaxNumber
    <3>1. at + Len(all) - 1 <= Len(file)
            /\ \A i \in 1 .. Len(all) : file[at + i - 1][1] = all[i]
      BY <2>4, <2>5 DEF Holds
    <3>2. 4 + name \in 1 .. Len(all) /\ at + (4 + name) - 1 = at + 3 + name
            /\ at + 3 + name \in 1 .. Len(file)
      BY <1>1, <2>1, <2>3, <3>1
    <3>3. file[at + 3 + name][1] = "in_seq_no" /\ file[at + 3 + name] \in SecretWord
      BY <2>3, <3>1, <3>2
    <3>4. QED
      BY <3>3, SecretTyped
  <2>6. QED
    BY <2>4, <2>5
<1>7. ASSUME head = "ok", whole = "ok", at > 0
      PROVE  Ok(at + 4 + name, Put(r.got, c, number)) \in ChatResult
  <2>1. Put(r.got, c, number) \in Chats
    <3>1. c \in Chat /\ number \in 0 .. MaxNumber /\ r.got \in Chats
      BY <1>1, <1>5, <1>6, <1>7
    <3> HIDE DEF number
    <3>2. QED
      BY <3>1, PutTyped DEF Chats
  <2>2. at + 4 + name \in Nat /\ at + 4 + name > 0
    <3>1. at \in Nat /\ name \in Nat
      BY <1>1, <1>5, <1>7
    <3> HIDE DEF name
    <3>2. QED
      BY <3>1
  <2> HIDE DEF name, number
  <2>3. QED
    BY <2>1, <2>2 DEF Ok, Result, ChatResult, Verdicts
<1>8. \A v \in Verdicts : v # "ok" => Failed(v) \in ChatResult
  BY FailedTyped DEF Chats, ChatResult, Failed
<1>9. "garbage" \in Verdicts /\ "garbage" # "ok"
  BY DEF Verdicts
<1> HIDE DEF name, whole, number
<1>10. QED
  BY <1>1, <1>3, <1>4, <1>6, <1>7, <1>8, <1>9

(* read_secret_chat reads what write_secret_chat wrote. *)
LEMMA ReadsChat ==
  ASSUME NEW file \in Seq(SecretWord), NEW x \in Chats, NEW sizes \in Names, DOMAIN sizes = DOMAIN x,
         NEW c \in DOMAIN x,
         NEW at \in Nat, at > 0, NEW got, LiesAt(file, at, write_secret_chat(c, x, sizes))
  PROVE  read_secret_chat(file, Ok(at, got)) = Ok(at + (4 + sizes[c]), Put(got, c, x[c]))
<1> DEFINE r == write_secret_chat(c, x, sizes)
           short == <<"id", "length">>
           head == Expect(file, at, short)
           name == file[at + 1][2]
           all == ChatFields(name)
           whole == Expect(file, at, all)
           k == sizes[c]
           number == file[at + 3 + name][2]
<1>1. k \in Nat
  BY NamesTyped
<1>2. ChatWords(r, c, x[c], sizes)
  BY ChatWritten
<1>3. LiesAt(file, at, r)
  OBVIOUS
<1>4. short \in Seq(Field) /\ Len(short) = 2 /\ short[1] = "id" /\ short[2] = "length"
  BY DEF Field
<1>5. read_secret_chat(file, Ok(at, got)) =
        IF head # "ok" THEN Failed(head)
        ELSE IF whole # "ok" THEN Failed(whole)
        ELSE IF \E i \in 0 .. name : file[at + 2 + i][2] # file[at][2] THEN Failed("garbage")
        ELSE Ok(at + 4 + name, Put(got, file[at][2], number))
  <2> DEFINE o == Ok(at, got)
  <2>1. o.verdict = "ok" /\ o.at = at /\ o.got = got
    BY DEF Ok
  <2>2. \A a, g : [verdict |-> "ok", at |-> a, got |-> g] = Ok(a, g)
    BY DEF Ok
  <2> HIDE DEF o
  <2>3. read_secret_chat(file, o) =
        IF head # "ok" THEN Failed(head)
        ELSE IF whole # "ok" THEN Failed(whole)
        ELSE IF \E i \in 0 .. name : file[at + 2 + i][2] # file[at][2] THEN Failed("garbage")
        ELSE Ok(at + 4 + name, Put(got, file[at][2], number))
    BY <2>1, <2>2 DEF read_secret_chat, ChatFields, InSeqNo
  <2>4. QED
    BY <2>3 DEF o
<1> HIDE DEF r, short, k
<1>6. /\ r \in Seq(SecretWord) /\ Len(r) = 4 + k
      /\ r[1] = <<"id", c>> /\ r[2] = <<"length", k>>
      /\ \A i \in 1 .. k : r[2 + i] = <<"name", c>>
      /\ r[3 + k] = <<"key", c>> /\ r[4 + k] = <<"in_seq_no", x[c]>>
  BY <1>2 DEF ChatWords, k
<1>7. \A j \in 1 .. Len(r) : file[at + j - 1] = r[j]
  BY <1>3 DEF LiesAt
<1>8. file[at][2] = c /\ name = k /\ file[at + 3 + k][2] = x[c]
  <2>1. 1 \in 1 .. Len(r) /\ 2 \in 1 .. Len(r) /\ 4 + k \in 1 .. Len(r)
    BY <1>1, <1>6
  <2>2. file[at + 1 - 1] = r[1] /\ file[at + 2 - 1] = r[2] /\ file[at + (4 + k) - 1] = r[4 + k]
    BY <1>7, <2>1
  <2>3. at + 1 - 1 = at /\ at + 2 - 1 = at + 1 /\ at + (4 + k) - 1 = at + 3 + k
    BY <1>1
  <2>4. QED
    BY <1>6, <2>2, <2>3
<1> HIDE DEF name, head, whole, all
<1>9. head = "ok"
  <2>1. Len(short) <= Len(r)
    BY <1>1, <1>4, <1>6
  <2>2. ASSUME NEW i \in 1 .. Len(short) PROVE r[i][1] = short[i]
    <3>1. i = 1 \/ i = 2
      BY <1>4
    <3>2. QED
      BY <1>4, <1>6, <3>1
  <2>3. \A i \in 1 .. Len(short) : r[i][1] = short[i]
    BY <2>2
  <2>4. short \in Seq(Field) /\ r \in Seq(SecretWord)
    BY <1>4, <1>6
  <2>5. Expect(file, at, short) = "ok"
    BY <1>3, <2>1, <2>3, <2>4, RecordFields, Zenon
  <2>6. QED
    BY <2>5 DEF head
<1>10. whole = "ok"
  <2>1. FieldsOfChat(all, k)
    BY <1>1, <1>8, ChatFieldsAre DEF all
  <2>2. /\ all \in Seq(Field) /\ Len(all) = 4 + k
        /\ all[1] = "id" /\ all[2] = "length" /\ (\A i \in 1 .. k : all[2 + i] = "name")
        /\ all[3 + k] = "key" /\ all[4 + k] = "in_seq_no"
    BY <2>1 DEF FieldsOfChat
  <2>3. Len(all) <= Len(r)
    BY <1>1, <1>6, <2>2
  <2>4. ASSUME NEW i \in 1 .. Len(all) PROVE r[i][1] = all[i]
    <3>1. i = 1 \/ i = 2 \/ i = 3 + k \/ i = 4 + k \/ (i - 2 \in 1 .. k /\ i = 2 + (i - 2))
      BY <1>1, <2>2
    <3>2. CASE i = 1 \/ i = 2 \/ i = 3 + k \/ i = 4 + k
      BY <1>6, <2>2, <3>2
    <3>3. CASE i - 2 \in 1 .. k /\ i = 2 + (i - 2)
      BY <1>6, <2>2, <3>3
    <3>4. QED
      BY <3>1, <3>2, <3>3
  <2>5. \A i \in 1 .. Len(all) : r[i][1] = all[i]
    BY <2>4
  <2>6. all \in Seq(Field) /\ r \in Seq(SecretWord)
    BY <1>6, <2>2
  <2>7. Expect(file, at, all) = "ok"
    BY <1>3, <2>3, <2>5, <2>6, RecordFields, Zenon
  <2>8. QED
    BY <2>7 DEF whole
<1>11. ASSUME NEW i \in 0 .. k PROVE file[at + 2 + i][2] = c
  <2>1. 3 + i \in 1 .. Len(r) /\ at + (3 + i) - 1 = at + 2 + i
    BY <1>1, <1>6
  <2>2. file[at + 2 + i] = r[3 + i]
    BY <1>7, <2>1
  <2>3. CASE i = k
    BY <1>6, <2>2, <2>3
  <2>4. CASE i # k
    <3>1. 1 + i \in 1 .. k /\ 2 + (1 + i) = 3 + i
      BY <1>1, <2>4
    <3>2. r[3 + i] = <<"name", c>>
      BY <1>6, <3>1
    <3>3. QED
      BY <2>2, <3>2
  <2>5. QED
    BY <2>3, <2>4
<1>12. ~(\E i \in 0 .. name : file[at + 2 + i][2] # file[at][2])
  BY <1>8, <1>11
<1>13. read_secret_chat(file, Ok(at, got)) = Ok(at + 4 + k, Put(got, c, x[c]))
  BY <1>5, <1>8, <1>9, <1>10, <1>12
<1>14. at + 4 + k = at + (4 + k)
  BY <1>1
<1>15. QED
  BY <1>13, <1>14 DEF k

(* The results behind the chats of the file. *)
ChatsAfter(file, after) ==
  /\ after \in [0 .. Cardinality(Chat) + 2 -> ChatResult]
  /\ after[0] = [verdict |-> Expect(file, 1, <<"magic", "version", "num">>), at |-> 4, got |-> None]
  /\ \A i \in 1 .. Cardinality(Chat) + 2 : after[i] = read_secret_chat(file, after[i - 1])
  /\ read_secret_chat_file(file) =
       IF file = <<>> THEN [verdict |-> "ok", at |-> 1, got |-> None]
       ELSE IF Expect(file, 1, <<"magic", "version", "num">>) # "ok"
              THEN Failed(Expect(file, 1, <<"magic", "version", "num">>))
       ELSE after[file[3][2]]

(* The function within read_secret_chat_file is these results. *)
LEMMA ReadChats ==
  ASSUME NEW file \in Seq(SecretWord)
  PROVE  \E after : ChatsAfter(file, after)
<1> DEFINE n == Cardinality(Chat) + 2
           V == ChatResult
           header == Expect(file, 1, <<"magic", "version", "num">>)
           a == [verdict |-> header, at |-> 4, got |-> None]
           G == [p \in (1 .. n) \X V |-> read_secret_chat(file, p[2])]
           Eq(h) == h = [i \in 0 .. n |-> IF i = 0 THEN a ELSE read_secret_chat(file, h[i - 1])]
           A == CHOOSE h : Eq(h)
<1>1. n \in Nat
  BY ChatsAndNames
<1>2. a \in V
  <2>1. <<"magic", "version", "num">> \in Seq(HeaderFields)
    BY DEF HeaderFields
  <2>2. header \in Verdicts
    BY <2>1, 1 \in Nat, Expected DEF Verdicts
  <2> HIDE DEF header
  <2>3. QED
    BY <2>2, NoneTyped DEF Result, ChatResult, Chats
<1>3. \A r \in V : read_secret_chat(file, r) \in V
  BY ReadChatTyped
<1>4. read_secret_chat_file(file) =
       IF file = <<>> THEN [verdict |-> "ok", at |-> 1, got |-> None]
       ELSE IF header # "ok" THEN Failed(header)
       ELSE A[file[3][2]]
  BY DEF read_secret_chat_file
<1> HIDE DEF V, a, n
<1>5. G \in [(1 .. n) \X V -> V] /\ \A i \in 1 .. n, r \in V : G[<<i, r>>] = read_secret_chat(file, r)
  BY <1>3
<1> HIDE DEF G
<1>6. PICK f : Recursive(f, n, V, a, G)
  BY <1>1, <1>2, <1>5, Recursion
<1>7. Eq(f)
  <2>1. f \in [0 .. n -> V] /\ f[0] = a /\ \A i \in 1 .. n : f[i] = G[<<i, f[i - 1]>>]
    BY <1>6 DEF Recursive
  <2>2. ASSUME NEW i \in 0 .. n
        PROVE  f[i] = IF i = 0 THEN a ELSE read_secret_chat(file, f[i - 1])
    <3>1. CASE i = 0
      BY <2>1, <3>1
    <3>2. CASE i # 0
      <4>1. i \in 1 .. n /\ i - 1 \in 0 .. n
        BY <1>1, <3>2
      <4>2. f[i - 1] \in V
        BY <2>1, <4>1
      <4>3. QED
        BY <1>5, <2>1, <3>2, <4>1, <4>2
    <3>3. QED
      BY <3>1, <3>2
  <2>3. QED
    BY <2>1, <2>2
<1>8. Eq(A)
  <2> HIDE DEF Eq
  <2> QED BY <1>7, Zenon DEF A
<1> HIDE DEF A
<1>9. A[0] = a /\ A = [i \in 0 .. n |-> A[i]]
  BY <1>1, <1>8
<1>10. \A i \in 1 .. n : A[i] = read_secret_chat(file, A[i - 1])
  <2> TAKE i \in 1 .. n
  <2>1. i \in 0 .. n /\ i # 0
    BY <1>1
  <2>2. QED
    BY <1>8, <2>1
<1>11. \A i \in 0 .. n : A[i] \in V
  <2> DEFINE S == {i \in 0 .. n : A[i] \in V}
  <2>1. 0 \in S
    BY <1>1, <1>2, <1>9
  <2>2. \A i \in 1 .. n : i - 1 \in S => i \in S
    BY <1>3, <1>10
  <2>3. \A i \in 0 .. n : i \in S
    <3> HIDE DEF S
    <3> QED BY <1>1, <2>1, <2>2, Along
  <2>4. QED
    BY <2>3
<1>12. A \in [0 .. n -> V]
  BY <1>9, <1>11
<1>13. ChatsAfter(file, A)
  BY <1>4, <1>9, <1>10, <1>12 DEF ChatsAfter, n, V, a
<1>14. QED
  BY <1>13

(* Whatever the words of the secret-chat file are, what is read are chats. *)
LEMMA ChatsResult ==
  ASSUME NEW file \in Seq(SecretWord)
  PROVE  read_secret_chat_file(file) \in Result(Chats)
<1> DEFINE fields == <<"magic", "version", "num">>
           header == Expect(file, 1, fields)
<1>1. PICK after : ChatsAfter(file, after)
  BY ReadChats
<1>2. fields \in Seq(HeaderFields) /\ Len(fields) = 3 /\ fields[3] = "num"
  BY DEF HeaderFields
<1> HIDE DEF fields
<1>3. header \in Verdicts /\ (header = "ok" => Holds(file, 1, fields))
  BY <1>2, 1 \in Nat, Found, Zenon
<1>4. ASSUME header = "ok" PROVE file[3][2] \in 0 .. Cardinality(Chat) + 2
  <2>1. 1 + Len(fields) - 1 <= Len(file) /\ \A i \in 1 .. Len(fields) : file[1 + i - 1][1] = fields[i]
    BY <1>3, <1>4 DEF Holds
  <2>2. 3 \in 1 .. Len(file) /\ 3 \in 1 .. Len(fields) /\ 1 + 3 - 1 = 3
    BY <1>2, <2>1
  <2>3. file[3] \in SecretWord /\ file[3][1] = "num"
    BY <1>2, <2>1, <2>2
  <2>4. QED
    BY <2>3, SecretTyped
<1>5. ASSUME header = "ok" PROVE after[file[3][2]] \in Result(Chats)
  BY <1>1, <1>4, <1>5 DEF ChatsAfter, ChatResult
<1>6. [verdict |-> "ok", at |-> 1, got |-> None] \in Result(Chats)
  BY NoneTyped DEF Result, Verdicts, Chats
<1>7. Failed(header) \in Result(Chats)
  BY <1>3, FailedTyped DEF Chats
<1>8. read_secret_chat_file(file) =
        IF file = <<>> THEN [verdict |-> "ok", at |-> 1, got |-> None]
        ELSE IF header # "ok" THEN Failed(header) ELSE after[file[3][2]]
  BY <1>1 DEF ChatsAfter, fields
<1>9. QED
  BY <1>5, <1>6, <1>7, <1>8

(* Of a file that keeps x, the first chats are read: as many as it counts. *)
LEMMA ChatsReadBack ==
  ASSUME NEW file, NEW x \in Chats, NEW sizes \in Names, DOMAIN sizes = DOMAIN x,
         NEW num \in 0 .. Cardinality(DOMAIN x), Keeps(file, x, sizes, num)
  PROVE  Reads(read_secret_chat_file(file)) = Verdict("ok", Part(InOrder(DOMAIN x), x, num))
<1> DEFINE S == DOMAIN x
           n == Cardinality(S)
           D == InOrder(S)
           off == Place(S, sizes)
           N == Cardinality(Chat) + 2
<1>1. n \in Nat /\ n <= N /\ N \in Nat /\ D \in [1 .. n -> S] /\ S \in SUBSET Chat /\ IsFiniteSet(S)
  <2>1. S \subseteq Chat /\ S \subseteq Int /\ IsFiniteSet(S) /\ n <= Cardinality(Chat) /\ n \in Nat
    BY ChatsTyped
  <2>2. D \in [1 .. n -> S]
    BY <2>1, Ordered
  <2>3. Cardinality(Chat) \in Nat
    BY ChatsAndNames
  <2>4. QED
    BY <2>1, <2>2, <2>3
<1>2. /\ off \in [0 .. n -> Nat] /\ off[0] = 0
      /\ \A i \in 1 .. n : off[i] = off[i - 1] + (4 + sizes[D[i]])
  BY <1>1, PlaceOfChats DEF ChatPlaces
<1>3. /\ file \in Seq(SecretWord) /\ 3 + off[n] <= Len(file)
      /\ file[1] = <<"magic", 2>> /\ file[2] = <<"version", 2>> /\ file[3] = <<"num", num>>
      /\ \A i \in 1 .. n : LiesAt(file, 4 + off[i - 1], write_secret_chat(D[i], x, sizes))
  BY DEF Keeps
<1>4. PICK after : ChatsAfter(file, after)
  BY <1>3, ReadChats
<1>5. OneByOne(D, x, n)
  BY <1>1, Parts, Zenon DEF Chats
<1> HIDE DEF S, n, D, off, N
<1>6. /\ Part(D, x, 0) = None
      /\ \A i \in 1 .. n : D[i] \in S => Part(D, x, i) = Put(Part(D, x, i - 1), D[i], x[D[i]])
  BY <1>5 DEF OneByOne, S
<1>7. Len(file) \in Nat /\ Len(file) >= 3
  BY <1>1, <1>2, <1>3
<1> DEFINE fields == <<"magic", "version", "num">>
<1>8. Expect(file, 1, fields) = "ok"
  <2>1. fields \in Seq(HeaderFields) /\ Len(fields) = 3
          /\ fields[1] = "magic" /\ fields[2] = "version" /\ fields[3] = "num"
    BY DEF HeaderFields
  <2> HIDE DEF fields
  <2>2. 1 + Len(fields) - 1 <= Len(file)
    BY <1>7, <2>1
  <2>3. ASSUME NEW i \in 1 .. Len(fields) PROVE file[1 + i - 1][1] = fields[i]
    <3>1. (i = 1 \/ i = 2 \/ i = 3) /\ 1 + i - 1 = i
      BY <2>1
    <3>2. QED
      BY <1>3, <2>1, <3>1
  <2>4. \A i \in 1 .. Len(fields) : file[1 + i - 1][1] = fields[i]
    BY <2>3
  <2>5. 1 \in Nat
    OBVIOUS
  <2>6. QED
    BY <1>3, <2>1, <2>2, <2>4, <2>5, Fits, Zenon
<1>9. /\ after[0] = Ok(4, None)
      /\ \A i \in 1 .. N : after[i] = read_secret_chat(file, after[i - 1])
      /\ read_secret_chat_file(file) = after[num]
  <2>1. file # <<>>
    BY <1>7
  <2>2. file[3][2] = num
    BY <1>3
  <2>3. QED
    BY <1>4, <1>8, <2>1, <2>2 DEF ChatsAfter, Ok, N
<1>10. \A i \in 0 .. n : after[i] = Ok(4 + off[i], Part(D, x, i))
  <2> DEFINE T == {i \in 0 .. n : after[i] = Ok(4 + off[i], Part(D, x, i))}
  <2>1. 0 \in T
    <3>1. 4 + off[0] = 4 /\ 0 \in 0 .. n
      BY <1>1, <1>2
    <3>2. QED
      BY <1>6, <1>9, <3>1
  <2>2. ASSUME NEW i \in 1 .. n, i - 1 \in T PROVE i \in T
    <3> DEFINE at == 4 + off[i - 1]
               got == Part(D, x, i - 1)
    <3>1. i \in 1 .. N /\ i \in 0 .. n /\ D[i] \in S /\ D[i] \in DOMAIN x
      BY <1>1 DEF S
    <3>2. after[i] = read_secret_chat(file, Ok(at, got))
      BY <1>9, <2>2, <3>1
    <3>3. off[i - 1] \in Nat /\ at \in Nat /\ at > 0 /\ LiesAt(file, at, write_secret_chat(D[i], x, sizes))
      <4>1. off[i - 1] \in Nat
        BY <1>1, <1>2
      <4>2. QED
        BY <1>3, <4>1
    <3>4. at + (4 + sizes[D[i]]) = 4 + off[i]
      <4>1. off[i] = off[i - 1] + (4 + sizes[D[i]])
        BY <1>2
      <4>2. D[i] \in DOMAIN sizes
        BY <3>1
      <4>3. sizes[D[i]] \in Nat
        BY <4>2, NamesTyped
      <4>4. QED
        BY <3>3, <4>1, <4>3
    <3> HIDE DEF at, got
    <3>5. after[i] = Ok(at + (4 + sizes[D[i]]), Put(got, D[i], x[D[i]]))
      BY <1>3, <3>1, <3>2, <3>3, ReadsChat
    <3>6. QED
      BY <1>6, <3>1, <3>4, <3>5 DEF got
  <2>3. \A i \in 0 .. n : i \in T
    <3>1. \A i \in 1 .. n : i - 1 \in T => i \in T
      BY <2>2
    <3> HIDE DEF T
    <3>2. QED
      BY <1>1, <2>1, <3>1, Along
  <2>4. QED
    BY <2>3
<1>11. num \in 0 .. n
  BY DEF n, S
<1>12. read_secret_chat_file(file) = Ok(4 + off[num], Part(D, x, num))
  BY <1>9, <1>10, <1>11
<1>13. QED
  BY <1>12 DEF Ok, Reads, Verdict, D, S

-----------------------------------------------------------------------------
(* The writes. *)

(* A file with words written over its beginning. *)
Written(g, W, file, words) ==
  /\ g \in Seq(W) /\ Len(words) <= Len(g) /\ Len(file) <= Len(g)
  /\ \A p \in 1 .. Len(words) : g[p] = words[p]
  /\ \A p \in 1 .. Len(file) : p > Len(words) => g[p] = file[p]

(* Over does that. *)
LEMMA OverWords ==
  ASSUME NEW W, NEW file \in Seq(W), NEW words \in Seq(W)
  PROVE  Written(Over(file, words), W, file, words)
<1> DEFINE m == Len(words)
           l == Len(file)
           rest == SubSeq(file, m + 1, l)
           n == IF m < l THEN l - m ELSE 0
           g == words \o rest
<1>1. m \in Nat /\ l \in Nat /\ n \in Nat
  OBVIOUS
<1>2. rest \in Seq(W) /\ Len(rest) = n /\ \A i \in 1 .. n : rest[i] = file[m + i]
  OBVIOUS
<1>3. Over(file, words) = g
  BY DEF Over
<1>4. Len(words) = m /\ Len(file) = l
  OBVIOUS
<1> HIDE DEF rest, m, n, l
<1>5. Joined(g, W, words, rest, m, n)
  BY <1>1, <1>2, <1>4, Join, Zenon
<1> HIDE DEF g
<1>6. g \in Seq(W) /\ Len(g) = m + n /\ \A p \in 1 .. m : g[p] = words[p]
  BY <1>5 DEF Joined
<1>7. m <= m + n /\ l <= m + n
  BY <1>1 DEF n
<1>8. ASSUME NEW p \in 1 .. l, p > m PROVE g[p] = file[p]
  <2>1. p - m \in 1 .. n /\ m + (p - m) = p
    BY <1>1, <1>8 DEF n
  <2>2. g[m + (p - m)] = rest[p - m] /\ rest[p - m] = file[m + (p - m)]
    BY <1>2, <1>5, <2>1 DEF Joined
  <2>3. QED
    BY <2>1, <2>2
<1>9. Written(g, W, file, words)
  BY <1>4, <1>6, <1>7, <1>8 DEF Written
<1>10. QED
  BY <1>3, <1>9

(* The first k words. *)
LEMMA Prefix ==
  ASSUME NEW W, NEW words \in Seq(W), NEW k \in 0 .. Len(words)
  PROVE  /\ SubSeq(words, 1, k) \in Seq(W) /\ Len(SubSeq(words, 1, k)) = k
         /\ \A p \in 1 .. k : SubSeq(words, 1, k)[p] = words[p]
OBVIOUS

(* A write in full is at the beginning of the file. *)
LEMMA WrittenBegins ==
  ASSUME NEW W, NEW file \in Seq(W), NEW words \in Seq(W)
  PROVE  Over(file, words) \in Seq(W) /\ Begins(Over(file, words), words)
BY OverWords DEF Written, Begins

(* A write that was cut off leaves the file at the same words. *)
LEMMA SameWordsAgain ==
  ASSUME NEW W, NEW file \in Seq(W), NEW words \in Seq(W), Begins(file, words),
         NEW k \in 0 .. Len(words)
  PROVE  Begins(Over(file, SubSeq(words, 1, k)), words)
<1> DEFINE u == SubSeq(words, 1, k)
           g == Over(file, u)
<1>1. u \in Seq(W) /\ Len(u) = k /\ \A p \in 1 .. k : u[p] = words[p]
  BY Prefix
<1> HIDE DEF u
<1>2. Written(g, W, file, u)
  BY <1>1, OverWords
<1> HIDE DEF g
<1>3. Len(words) \in Nat /\ Len(file) \in Nat /\ Len(words) <= Len(file) /\ Len(file) <= Len(g)
        /\ g \in Seq(W)
  BY <1>2 DEF Written, Begins
<1>4. ASSUME NEW p \in 1 .. Len(words) PROVE g[p] = words[p]
  <2>1. CASE p <= k
    <3>1. p \in 1 .. k
      BY <1>3, <2>1
    <3>2. QED
      BY <1>1, <1>2, <3>1 DEF Written
  <2>2. CASE ~(p <= k)
    <3>1. p > k /\ p \in 1 .. Len(file)
      BY <1>3, <2>2
    <3>2. g[p] = file[p]
      BY <1>1, <1>2, <3>1 DEF Written
    <3>3. file[p] = words[p]
      BY DEF Begins
    <3>4. QED
      BY <3>2, <3>3
  <2>3. QED
    BY <2>1, <2>2
<1>5. Len(words) <= Len(g)
  <2>1. Len(g) \in Nat
    BY <1>3
  <2>2. QED
    BY <1>3, <2>1
<1>6. QED
  BY <1>4, <1>5 DEF Begins, g, u

(* A file that begins with the words of x keeps x. *)
LEMMA BeginsKeeps ==
  ASSUME NEW file \in Seq(SecretWord), NEW x \in Chats, NEW sizes \in Names, DOMAIN sizes = DOMAIN x,
         NEW num \in 0 .. Cardinality(Chat) + 2, Begins(file, SecretWords(x, sizes, num))
  PROVE  Keeps(file, x, sizes, num)
<1> DEFINE S == DOMAIN x
           n == Cardinality(S)
           off == Place(S, sizes)
           w == SecretWords(x, sizes, num)
           r(i) == write_secret_chat(InOrder(S)[i], x, sizes)
<1>1. Keeps(w, x, sizes, num) /\ Len(w) = 3 + off[n]
  BY SecretPlaced
<1>2. S \in SUBSET Chat /\ S \subseteq Int /\ IsFiniteSet(S) /\ n \in Nat
  BY ChatsTyped
<1>3. off \in [0 .. n -> Nat]
  BY <1>2, PlaceOfChats DEF ChatPlaces
<1>4. InOrder(S) \in [1 .. n -> S]
  BY <1>2, Ordered
<1> HIDE DEF w, S, n, off
<1>5. /\ w \in Seq(SecretWord)
      /\ w[1] = <<"magic", 2>> /\ w[2] = <<"version", 2>> /\ w[3] = <<"num", num>>
      /\ \A i \in 1 .. n : LiesAt(w, 4 + off[i - 1], r(i))
  BY <1>1 DEF Keeps, S, n, off
<1>6. Len(w) <= Len(file) /\ (\A p \in 1 .. Len(w) : file[p] = w[p])
  BY DEF Begins, w
<1>7. off[n] \in Nat /\ Len(w) \in Nat /\ Len(file) \in Nat
  BY <1>2, <1>3, <1>5
<1>8. 3 + off[n] <= Len(file)
  BY <1>1, <1>6, <1>7
<1>9. file[1] = w[1] /\ file[2] = w[2] /\ file[3] = w[3]
  <2>1. 1 \in 1 .. Len(w) /\ 2 \in 1 .. Len(w) /\ 3 \in 1 .. Len(w)
    BY <1>1, <1>7
  <2>2. QED
    BY <1>6, <2>1
<1>10. ASSUME NEW i \in 1 .. n PROVE LiesAt(file, 4 + off[i - 1], r(i))
  <2> DEFINE at == 4 + off[i - 1]
             l == Len(r(i))
  <2>1. ChatWords(r(i), InOrder(S)[i], x[InOrder(S)[i]], sizes)
    <3>1. InOrder(S)[i] \in DOMAIN x
      BY <1>4 DEF S
    <3>2. QED
      BY <3>1, ChatWritten
  <2>2. l \in Nat /\ at \in Nat /\ at > 0
    <3>1. off[i - 1] \in Nat
      BY <1>2, <1>3
    <3>2. l \in Nat
      BY <2>1 DEF ChatWords
    <3>3. QED
      BY <3>1, <3>2
  <2>3. LiesAt(w, at, r(i))
    BY <1>5
  <2> HIDE DEF at
  <2>4. at + l - 1 <= Len(w) /\ \A j \in 1 .. l : w[at + j - 1] = r(i)[j]
    BY <2>3 DEF LiesAt
  <2> HIDE DEF l
  <2>5. ASSUME NEW j \in 1 .. l PROVE file[at + j - 1] = r(i)[j]
    <3>1. at + j - 1 \in 1 .. Len(w)
      BY <1>7, <2>2, <2>4
    <3>2. QED
      BY <1>6, <2>4, <3>1
  <2>6. at + l - 1 <= Len(file)
    BY <1>6, <1>7, <2>2, <2>4
  <2>7. QED
    BY <2>5, <2>6 DEF LiesAt, at, l
<1>11. Keeps(file, x, sizes, num)
  BY <1>5, <1>8, <1>9, <1>10 DEF Keeps, S, n, off
<1>12. QED
  BY <1>11

(* The file counts two chats or all, those of the domain of x, each with   *)
(* its number in x or in now.                                              *)
Mixed(file, x, now, sizes) ==
  \E y \in Chats : \E num \in {2, Cardinality(DOMAIN x)} :
    /\ DOMAIN y = DOMAIN x /\ \A c \in DOMAIN x : y[c] \in {x[c], now[c]}
    /\ Keeps(file, y, sizes, num)

(* A write of as many chats that is cut off leaves such a file: the records *)
(* up to that place are new, the others old, and one in between has the    *)
(* words of both.                                                          *)
LEMMA TornIsMixed ==
  ASSUME NEW file, NEW x \in Chats, NEW sizes \in Names, DOMAIN sizes = DOMAIN x,
         NEW now \in Chats, DOMAIN now = DOMAIN x,
         Keeps(file, x, sizes, Cardinality(DOMAIN x)),
         NEW k \in 1 .. Len(SecretWords(now, sizes, 2))
  PROVE  Mixed(Over(file, SubSeq(SecretWords(now, sizes, 2), 1, k)), x, now, sizes)
<1> DEFINE S == DOMAIN x
           n == Cardinality(S)
           D == InOrder(S)
           off == Place(S, sizes)
           w == SecretWords(now, sizes, 2)
           u == SubSeq(w, 1, k)
           g == Over(file, u)
           Within(c) == \E i \in 1 .. n : D[i] = c /\ 3 + off[i] <= k
           y == [c \in S |-> IF Within(c) THEN now[c] ELSE x[c]]
           num == IF k >= 3 THEN 2 ELSE n
           old(i) == write_secret_chat(D[i], x, sizes)
           new(i) == write_secret_chat(D[i], now, sizes)
           mix(i) == write_secret_chat(D[i], y, sizes)
<1>1. /\ S \in SUBSET Chat /\ S \subseteq Int /\ IsFiniteSet(S) /\ n \in Nat
      /\ \A c \in S : x[c] \in 0 .. MaxNumber /\ now[c] \in 0 .. MaxNumber
  BY ChatsTyped
<1>2. /\ off \in [0 .. n -> Nat] /\ off[0] = 0
      /\ \A i \in 1 .. n : off[i] = off[i - 1] + (4 + sizes[D[i]])
  BY <1>1, PlaceOfChats DEF ChatPlaces
<1>3. D \in [1 .. n -> S] /\ \A i, j \in 1 .. n : D[i] = D[j] => i = j
  BY <1>1, Ordered
<1>4. 2 \in 0 .. Cardinality(Chat) + 2
  BY ChatsAndNames
<1>5. Keeps(w, now, sizes, 2) /\ Len(w) = 3 + off[n]
  BY <1>4, SecretPlaced
<1>6. /\ w \in Seq(SecretWord)
      /\ w[1] = <<"magic", 2>> /\ w[2] = <<"version", 2>> /\ w[3] = <<"num", 2>>
      /\ \A i \in 1 .. n : LiesAt(w, 4 + off[i - 1], new(i))
  BY <1>5 DEF Keeps
<1>7. /\ file \in Seq(SecretWord) /\ 3 + off[n] <= Len(file)
      /\ file[1] = <<"magic", 2>> /\ file[2] = <<"version", 2>> /\ file[3] = <<"num", n>>
      /\ \A i \in 1 .. n : LiesAt(file, 4 + off[i - 1], old(i))
  BY DEF Keeps
<1>8. y \in Chats /\ DOMAIN y = S /\ \A c \in S : y[c] \in {x[c], now[c]}
  <2>1. y \in [S -> 0 .. MaxNumber]
    <3> HIDE DEF Within
    <3> QED BY <1>1
  <2>2. \A c \in S : y[c] \in {x[c], now[c]}
    <3> HIDE DEF Within
    <3> QED OBVIOUS
  <2>3. y \in Chats
    <3> HIDE DEF y
    <3> QED BY <1>1, <2>1 DEF Chats, Partial
  <2>4. QED
    BY <2>2, <2>3
<1>9. ASSUME NEW i \in 1 .. n
      PROVE  /\ D[i] \in S /\ D[i] \in DOMAIN x /\ D[i] \in DOMAIN now
             /\ 3 + off[i] <= k => y[D[i]] = now[D[i]]
             /\ ~(3 + off[i] <= k) => y[D[i]] = x[D[i]]
  <2>1. D[i] \in S /\ (Within(D[i]) <=> 3 + off[i] <= k)
    BY <1>3
  <2> HIDE DEF Within
  <2>2. QED
    BY <2>1
<1>10. ASSUME NEW i \in 1 .. n
       PROVE  /\ 3 + off[i] <= k => mix(i) = new(i)
              /\ ~(3 + off[i] <= k) => mix(i) = old(i)
  <2> HIDE DEF y
  <2> QED BY <1>9 DEF write_secret_chat
<1>11. ASSUME NEW i \in 1 .. n
       PROVE  /\ ChatWords(old(i), D[i], x[D[i]], sizes) /\ ChatWords(new(i), D[i], now[D[i]], sizes)
              /\ sizes[D[i]] \in Nat
  <2>1. D[i] \in DOMAIN x /\ D[i] \in DOMAIN now /\ D[i] \in Chat
    BY <1>1, <1>9
  <2>2. ChatWords(old(i), D[i], x[D[i]], sizes) /\ ChatWords(new(i), D[i], now[D[i]], sizes)
    BY <2>1, ChatWritten
  <2>3. sizes[D[i]] \in Nat
    BY <2>1, NamesTyped
  <2>4. QED
    BY <2>2, <2>3, Zenon
<1>12. off[n] \in Nat /\ Len(w) \in Nat /\ Len(file) \in Nat /\ k \in 1 .. Len(w) /\ k \in Nat
  <2>1. Len(w) \in Nat /\ Len(file) \in Nat /\ off[n] \in Nat
    BY <1>1, <1>2, <1>6, <1>7
  <2>2. k \in 1 .. Len(w)
    OBVIOUS
  <2>3. QED
    BY <2>1, <2>2
<1> HIDE DEF w, S, n, D, off, y, old, new, mix
<1>13. u \in Seq(SecretWord) /\ Len(u) = k /\ \A p \in 1 .. k : u[p] = w[p]
  <2>1. k \in 0 .. Len(w)
    BY <1>12
  <2>2. QED
    BY <1>6, <2>1, Prefix
<1> HIDE DEF u
<1>14. Written(g, SecretWord, file, u)
  BY <1>7, <1>13, OverWords
<1> HIDE DEF g
<1>15. /\ g \in Seq(SecretWord) /\ Len(file) <= Len(g) /\ Len(g) \in Nat
       /\ \A p \in 1 .. k : g[p] = w[p]
       /\ \A p \in 1 .. Len(file) : p > k => g[p] = file[p]
  BY <1>13, <1>14 DEF Written
<1>16. 3 + off[n] <= Len(g)
  BY <1>7, <1>12, <1>15
<1>17. g[1] = <<"magic", 2>> /\ g[2] = <<"version", 2>> /\ g[3] = <<"num", num>>
  <2>1. 1 \in 1 .. Len(file) /\ 2 \in 1 .. Len(file) /\ 3 \in 1 .. Len(file)
    BY <1>7, <1>12
  <2>2. ASSUME NEW p \in {1, 2, 3} PROVE g[p] = IF p <= k THEN w[p] ELSE file[p]
    <3>1. CASE p <= k
      <4>1. p \in 1 .. k
        BY <1>12, <3>1
      <4>2. QED
        BY <1>15, <3>1, <4>1
    <3>2. CASE ~(p <= k)
      <4>1. p \in 1 .. Len(file) /\ p > k
        BY <1>12, <2>1, <3>2
      <4>2. QED
        BY <1>15, <3>2, <4>1
    <3>3. QED
      BY <3>1, <3>2
  <2>3. g[1] = <<"magic", 2>> /\ g[2] = <<"version", 2>>
    BY <1>6, <1>7, <2>2
  <2>4. g[3] = IF 3 <= k THEN <<"num", 2>> ELSE <<"num", n>>
    BY <1>6, <1>7, <2>2
  <2>5. QED
    BY <1>12, <2>3, <2>4
<1>18. ASSUME NEW i \in 1 .. n PROVE LiesAt(g, 4 + off[i - 1], mix(i))
  <2> DEFINE o == off[i - 1]
             at == 4 + o
             l == 4 + sizes[D[i]]
             e == off[i]
  <2>1. o \in Nat /\ l \in Nat /\ l >= 4 /\ e = o + l
    <3>1. o \in Nat
      BY <1>1, <1>2
    <3>2. e = o + l
      BY <1>2
    <3>3. sizes[D[i]] \in Nat
      BY <1>11
    <3>4. l \in Nat /\ l >= 4
      BY <3>3
    <3>5. QED
      BY <3>1, <3>2, <3>4
  <2>2. /\ at + l - 1 <= Len(w) /\ \A j \in 1 .. l : w[at + j - 1] = new(i)[j]
        /\ at + l - 1 <= Len(file) /\ \A j \in 1 .. l : file[at + j - 1] = old(i)[j]
        /\ Len(old(i)) = l /\ Len(new(i)) = l
    <3>1. Len(old(i)) = l /\ Len(new(i)) = l
      BY <1>11 DEF ChatWords
    <3>2. LiesAt(w, at, new(i)) /\ LiesAt(file, at, old(i))
      BY <1>6, <1>7
    <3> HIDE DEF at, l
    <3>3. QED
      BY <3>1, <3>2 DEF LiesAt
  <2>3. ASSUME NEW j \in 1 .. l, j # l PROVE new(i)[j] = old(i)[j]
    <3> DEFINE m == sizes[D[i]]
    <3>1. m \in Nat /\ (j = 1 \/ j = 2 \/ j = 3 + m \/ (j - 2 \in 1 .. m /\ j = 2 + (j - 2)))
      <4>1. m \in Nat
        BY <1>11
      <4>2. j \in 1 .. 4 + m /\ j # 4 + m
        BY <2>3, Zenon
      <4> HIDE DEF m
      <4>3. QED
        BY <4>1, <4>2
    <3>2. /\ new(i)[1] = old(i)[1] /\ new(i)[2] = old(i)[2] /\ new(i)[3 + m] = old(i)[3 + m]
          /\ \A q \in 1 .. m : new(i)[2 + q] = old(i)[2 + q]
      <4>1. ChatWords(old(i), D[i], x[D[i]], sizes) /\ ChatWords(new(i), D[i], now[D[i]], sizes)
        BY <1>11
      <4> DEFINE a == old(i)
                 b == new(i)
                 c == D[i]
      <4> HIDE DEF a, b
      <4>2. /\ a[1] = <<"id", c>> /\ a[2] = <<"length", m>> /\ a[3 + m] = <<"key", c>>
            /\ \A q \in 1 .. m : a[2 + q] = <<"name", c>>
        BY <4>1 DEF ChatWords, a
      <4>3. /\ b[1] = <<"id", c>> /\ b[2] = <<"length", m>> /\ b[3 + m] = <<"key", c>>
            /\ \A q \in 1 .. m : b[2 + q] = <<"name", c>>
        BY <4>1 DEF ChatWords, b
      <4> HIDE DEF c, m
      <4>4. /\ b[1] = a[1] /\ b[2] = a[2] /\ b[3 + m] = a[3 + m]
            /\ \A q \in 1 .. m : b[2 + q] = a[2 + q]
        BY <4>2, <4>3
      <4>5. QED
        BY <4>4 DEF a, b
    <3> HIDE DEF m
    <3>3. QED
      BY <3>1, <3>2
  <2>4. Len(mix(i)) = l /\ at + l - 1 = 3 + e
    <3>1. Len(mix(i)) = l
      BY <1>10, <2>2
    <3>2. at + l - 1 = 3 + e
      <4> HIDE DEF o, l, e
      <4> QED BY <2>1
    <3>3. QED
      BY <3>1, <3>2, Zenon
  <2>5. at \in Nat /\ e \in Nat
    BY <2>1
  <2> HIDE DEF at, l, o
  <2>6. ASSUME NEW j \in 1 .. l PROVE g[at + j - 1] = mix(i)[j]
    <3> DEFINE p == at + j - 1
    <3>1. p \in 1 .. Len(file) /\ p \in 1 .. Len(w) /\ p <= 3 + e /\ (j # l => p < 3 + e)
      <4>1. at >= 4
        BY <2>1 DEF at
      <4> HIDE DEF e
      <4>2. QED
        BY <1>12, <2>1, <2>2, <2>4, <2>5, <4>1
    <3>2. w[p] = new(i)[j] /\ file[p] = old(i)[j]
      BY <2>2
    <3> HIDE DEF p
    <3>3. p <= k => g[p] = new(i)[j]
      <4>1. p <= k => p \in 1 .. k
        BY <1>12, <3>1
      <4>2. QED
        BY <1>15, <3>2, <4>1
    <3>4. ~(p <= k) => g[p] = old(i)[j]
      <4>1. ~(p <= k) => p > k
        BY <1>12, <3>1
      <4>2. QED
        BY <1>15, <3>1, <3>2, <4>1
    <3>5. CASE 3 + e <= k
      <4>1. p <= k
        <5> HIDE DEF e
        <5> QED BY <1>12, <2>5, <3>1, <3>5
      <4>2. QED
        BY <1>10, <3>3, <3>5, <4>1 DEF p
    <3>6. CASE ~(3 + e <= k)
      <4>1. mix(i) = old(i)
        BY <1>10, <3>6
      <4>2. CASE p <= k
        <5>1. j # l
          <6>1. p # 3 + e
            <7> HIDE DEF e
            <7> QED BY <1>12, <2>5, <3>1, <3>6, <4>2
          <6>2. j = l => p = 3 + e
            BY <2>4 DEF p
          <6>3. QED
            BY <6>1, <6>2
        <5>2. QED
          BY <2>3, <3>3, <4>1, <4>2, <5>1 DEF p
      <4>3. CASE ~(p <= k)
        BY <3>4, <4>1, <4>3 DEF p
      <4>4. QED
        BY <4>2, <4>3
    <3>7. QED
      BY <3>5, <3>6
  <2>7. at + l - 1 <= Len(g)
    <3>1. at + l - 1 \in Int
      BY <2>1, <2>5
    <3>2. QED
      BY <1>12, <1>15, <2>2, <3>1
  <2>8. QED
    BY <2>4, <2>6, <2>7 DEF LiesAt, at, o
<1>19. Keeps(g, y, sizes, num)
  <2>1. \A i \in 1 .. n : LiesAt(g, 4 + off[i - 1], write_secret_chat(D[i], y, sizes))
    BY <1>18 DEF mix
  <2> HIDE DEF num
  <2>2. QED
    BY <1>8, <1>15, <1>16, <1>17, <2>1 DEF Keeps, n, D, off
<1>20. num \in {2, n}
  OBVIOUS
<1> HIDE DEF num
<1>21. Mixed(g, x, now, sizes)
  BY <1>8, <1>19, <1>20 DEF Mixed, n, S
<1>22. QED
  BY <1>21 DEF g, u, w

-----------------------------------------------------------------------------
(* The invariant. *)
AuthKept ==
  LET was == saved["auth"]
  IN  /\ was = Nothing /\ torn["auth"] = 0 => auth = <<>>
      /\ was # Nothing /\ (torn["auth"] = 0 \/ (torn["auth"] = 1 /\ attempt["auth"] = was))
           => Begins(auth, AuthWords(was))
      /\ torn["auth"] # 0 => attempt["auth"] # Nothing

SecretKept ==
  LET was == saved["secret"].chats
      now == attempt["secret"].chats
      sizes == saved["secret"].names
  IN  /\ torn["secret"] = 0
           => \/ was = None /\ secret = <<>>
              \/ Keeps(secret, was, sizes, Cardinality(DOMAIN was))
      /\ (/\ torn["secret"] = 1 /\ attempt["secret"].names = sizes
          /\ Cardinality(DOMAIN was) >= 2)
           => Mixed(secret, was, now, sizes)

Kept == TypeOK /\ AuthKept /\ SecretKept

(* The history of the two files. *)
History == [auth : Addresses \cup {Nothing}, secret : Records]
Changed(g, h, f, x) == g[f] = x /\ \A e \in File : e # f => g[e] = h[e]

(* Only the history of one file changes. *)
LEMMA HistoryChanges ==
  ASSUME NEW h \in History, NEW f \in File, NEW x,
         f = "auth" => x \in Addresses, f = "secret" => x \in Records
  PROVE  [h EXCEPT ![f] = x] \in History /\ Changed([h EXCEPT ![f] = x], h, f, x)
BY DEF History, Changed, File

(* Likewise for the count of writes cut off. *)
LEMMA TornChanges ==
  ASSUME NEW h \in [File -> 0 .. MaxTorn], NEW f \in File, NEW x \in 0 .. MaxTorn
  PROVE  [h EXCEPT ![f] = x] \in [File -> 0 .. MaxTorn] /\ Changed([h EXCEPT ![f] = x], h, f, x)
BY DEF Changed, File

(* A record has a length for the name of each of its chats. *)
LEMMA RecordTyped ==
  ASSUME NEW x, NEW sizes
  PROVE  /\ Record(x, sizes).chats = x /\ Record(x, sizes).names = sizes
         /\ Record(x, sizes) \in Records
              <=> x \in Chats /\ sizes \in Names /\ DOMAIN sizes = DOMAIN x
BY DEF Record, Records

(* The same of any record. *)
LEMMA RecordsTyped ==
  ASSUME NEW r \in Records
  PROVE  r.chats \in Chats /\ r.names \in Names /\ DOMAIN r.names = DOMAIN r.chats
BY DEF Records

(* The words of the auth file. *)
LEMMA AuthWordsTyped ==
  ASSUME NEW x \in Addresses
  PROVE  AuthWords(x) \in Seq(AuthWord)
BY AuthPlaced DEF AuthPlaces

(* The words of the secret-chat file. *)
LEMMA SecretWordsTyped ==
  ASSUME NEW x \in Chats, NEW sizes \in Names, DOMAIN sizes = DOMAIN x,
         NEW num \in 0 .. Cardinality(Chat) + 2
  PROVE  SecretWords(x, sizes, num) \in Seq(SecretWord)
BY SecretPlaced DEF Keeps

(* The end of the process. *)
LEMMA DownTyped ==
  ASSUME Down
  PROVE  pc' = "down" /\ logged_in' = FALSE /\ dcs' \in Addresses
           /\ Record(chats, names)' \in Records /\ numbers' \in Numbers /\ written' \in Numbers
<1>1. Zero \in Numbers
  BY ChatsAndNames DEF Zero, Numbers
<1>2. None \in Addresses /\ Record(None, None) \in Records
  BY NoneTyped, RecordTyped DEF Addresses, Chats, Names
<1>3. QED
  BY <1>1, <1>2 DEF Down

(* A file is written in full. *)
LEMMA SavedHistory ==
  ASSUME TypeOK, NEW f \in File, NEW x, Saved(f, x),
         f = "auth" => x \in Addresses, f = "secret" => x \in Records
  PROVE  /\ saved' \in History /\ attempt' \in History /\ torn' \in [File -> 0 .. MaxTorn]
         /\ Changed(saved', saved, f, x) /\ Changed(attempt', attempt, f, x)
         /\ Changed(torn', torn, f, 0)
<1>1. saved \in History /\ attempt \in History /\ torn \in [File -> 0 .. MaxTorn]
  BY DEF TypeOK, History
<1>2. 0 \in 0 .. MaxTorn
  BY StateFilesAssumption
<1>3. saved' = [saved EXCEPT ![f] = x] /\ attempt' = [attempt EXCEPT ![f] = x]
        /\ torn' = [torn EXCEPT ![f] = 0]
  BY DEF Saved
<1>4. QED
  BY <1>1, <1>2, <1>3, HistoryChanges, TornChanges

(* A write is cut off. *)
LEMMA CutOffHistory ==
  ASSUME TypeOK, NEW f \in File, NEW x, CutOff(f, x),
         f = "auth" => x \in Addresses, f = "secret" => x \in Records
  PROVE  /\ saved' = saved /\ attempt' \in History /\ torn' \in [File -> 0 .. MaxTorn]
         /\ Changed(attempt', attempt, f, x) /\ Changed(torn', torn, f, torn[f] + 1)
<1>1. attempt \in History /\ torn \in [File -> 0 .. MaxTorn]
  BY DEF TypeOK, History
<1>2. torn[f] + 1 \in 0 .. MaxTorn
  <2>1. torn["auth"] + torn["secret"] < MaxTorn
    BY DEF CutOff
  <2>2. torn["auth"] \in 0 .. MaxTorn /\ torn["secret"] \in 0 .. MaxTorn /\ MaxTorn \in Nat
    BY <1>1, StateFilesAssumption DEF File
  <2>3. f = "auth" \/ f = "secret"
    BY DEF File
  <2>4. CASE f = "auth"
    BY <2>1, <2>2, <2>4
  <2>5. CASE f = "secret"
    BY <2>1, <2>2, <2>5
  <2>6. QED
    BY <2>3, <2>4, <2>5
<1>3. saved' = saved /\ attempt' = [attempt EXCEPT ![f] = x] /\ torn' = [torn EXCEPT ![f] = torn[f] + 1]
  BY DEF CutOff
<1>4. QED
  BY <1>1, <1>2, <1>3, HistoryChanges, TornChanges

(* write_auth_file, in full or cut off. *)
LEMMA LoginKeeps ==
  ASSUME Kept, on_login
  PROVE  Kept'
<1>1. TypeOK /\ dcs \in Addresses /\ auth \in Seq(AuthWord) /\ UNCHANGED <<secret, state, starts>>
  BY DEF Kept, TypeOK, on_login
<1>2. AuthWords(dcs) \in Seq(AuthWord) /\ dcs # Nothing
  BY <1>1, AuthWordsTyped, StateFilesAssumption DEF Addresses
<1>3. "auth" \in File /\ "secret" \in File /\ "auth" # "secret"
  BY DEF File
<1>4. ASSUME Changed(saved', saved, "auth", saved'["auth"]),
             Changed(attempt', attempt, "auth", attempt'["auth"]),
             Changed(torn', torn, "auth", torn'["auth"])
      PROVE  SecretKept'
  BY <1>1, <1>3, <1>4 DEF Kept, SecretKept, Changed
<1>5. CASE /\ auth' = AuthWritten(dcs) /\ Saved("auth", dcs) /\ logged_in' = TRUE
           /\ UNCHANGED <<pc, dcs, chats, names, numbers, written>>
  <2>1. /\ saved' \in History /\ attempt' \in History /\ torn' \in [File -> 0 .. MaxTorn]
        /\ Changed(saved', saved, "auth", dcs) /\ Changed(attempt', attempt, "auth", dcs)
        /\ Changed(torn', torn, "auth", 0)
    BY <1>1, <1>3, <1>5, SavedHistory
  <2>2. auth' \in Seq(AuthWord) /\ Begins(auth', AuthWords(dcs))
    BY <1>1, <1>2, <1>5, WrittenBegins DEF AuthWritten
  <2>3. TypeOK'
    BY <1>1, <1>5, <2>1, <2>2 DEF TypeOK, History
  <2>4. AuthKept'
    BY <1>2, <2>1, <2>2 DEF AuthKept, Changed
  <2>5. SecretKept'
    BY <1>4, <2>1 DEF Changed
  <2>6. QED
    BY <2>3, <2>4, <2>5 DEF Kept
<1>6. CASE auth' \in AuthTorn(dcs) /\ CutOff("auth", dcs)
  <2>1. /\ saved' = saved /\ attempt' \in History /\ torn' \in [File -> 0 .. MaxTorn]
        /\ Changed(attempt', attempt, "auth", dcs) /\ Changed(torn', torn, "auth", torn["auth"] + 1)
    BY <1>1, <1>3, <1>6, CutOffHistory
  <2>2. PICK k \in 1 .. Len(AuthWords(dcs)) - 1 : auth' = Over(auth, SubSeq(AuthWords(dcs), 1, k))
    BY <1>6 DEF AuthTorn
  <2>3. k \in 0 .. Len(AuthWords(dcs))
    <3>1. Len(AuthWords(dcs)) \in Nat
      BY <1>2
    <3>2. QED
      BY <3>1
  <2>4. auth' \in Seq(AuthWord)
    <3>1. SubSeq(AuthWords(dcs), 1, k) \in Seq(AuthWord)
      BY <1>2, <2>3, Prefix
    <3>2. QED
      BY <1>1, <2>2, <3>1, WrittenBegins
  <2>5. TypeOK'
    <3>1. pc' = "down" /\ logged_in' = FALSE /\ dcs' \in Addresses
           /\ Record(chats, names)' \in Records /\ numbers' \in Numbers /\ written' \in Numbers
      BY <1>6, DownTyped DEF CutOff
    <3>2. QED
      BY <1>1, <2>1, <2>4, <3>1 DEF TypeOK, History
  <2>6. AuthKept'
    <3>1. torn["auth"] \in Nat
      BY <1>1, StateFilesAssumption DEF TypeOK, File
    <3>2. torn'["auth"] = torn["auth"] + 1 /\ torn'["auth"] # 0 /\ attempt'["auth"] = dcs
            /\ saved'["auth"] = saved["auth"]
      BY <2>1, <3>1 DEF Changed
    <3>3. ASSUME saved["auth"] = dcs, torn'["auth"] = 1 PROVE Begins(auth', AuthWords(dcs))
      <4>1. torn["auth"] = 0
        BY <3>1, <3>2, <3>3
      <4>2. Begins(auth, AuthWords(dcs))
        BY <1>2, <3>3, <4>1 DEF Kept, AuthKept
      <4>3. QED
        BY <1>1, <1>2, <2>2, <2>3, <4>2, SameWordsAgain
    <3>4. QED
      BY <1>2, <3>2, <3>3 DEF AuthKept
  <2>7. SecretKept'
    BY <1>4, <2>1 DEF Changed
  <2>8. QED
    BY <2>5, <2>6, <2>7 DEF Kept
<1>7. QED
  BY <1>5, <1>6 DEF on_login

(* write_secret_chat_file, in full or cut off. *)
LEMMA ChatsKeep ==
  ASSUME Kept, NEW x \in Chats, NEW sizes \in Names, DOMAIN sizes = DOMAIN x,
         NEW n \in 0 .. MaxNumber, write_secret_chat_file(x, sizes, n),
         UNCHANGED <<auth, state, starts>>
  PROVE  Kept'
<1> DEFINE all == Cardinality(DOMAIN x)
           r == Record(x, sizes)
<1>0. r \in Records /\ r.chats = x /\ r.names = sizes
  BY RecordTyped
<1>1. TypeOK /\ secret \in Seq(SecretWord)
  BY DEF Kept, TypeOK
<1>2. all \in 0 .. Cardinality(Chat) + 2 /\ 2 \in 0 .. Cardinality(Chat) + 2
  <2>1. all \in Nat /\ Cardinality(Chat) \in Nat /\ all <= Cardinality(Chat)
    BY ChatsTyped, ChatsAndNames
  <2> HIDE DEF all
  <2>2. QED
    BY <2>1
<1>3. SecretWords(x, sizes, all) \in Seq(SecretWord) /\ SecretWords(x, sizes, 2) \in Seq(SecretWord)
  BY <1>2, SecretWordsTyped
<1>4. "auth" \in File /\ "secret" \in File /\ "auth" # "secret"
  BY DEF File
<1>5. ASSUME Changed(saved', saved, "secret", saved'["secret"]),
             Changed(attempt', attempt, "secret", attempt'["secret"]),
             Changed(torn', torn, "secret", torn'["secret"])
      PROVE  AuthKept'
  BY <1>4, <1>5 DEF Kept, AuthKept, Changed
<1>6. CASE /\ secret' = SecretWritten(x, sizes) /\ Saved("secret", Record(x, sizes))
           /\ chats' = x /\ names' = sizes /\ numbers' = [numbers EXCEPT !.qts = n]
           /\ UNCHANGED <<pc, logged_in, dcs, written>>
  <2>1. /\ saved' \in History /\ attempt' \in History /\ torn' \in [File -> 0 .. MaxTorn]
        /\ Changed(saved', saved, "secret", r) /\ Changed(attempt', attempt, "secret", r)
        /\ Changed(torn', torn, "secret", 0)
    BY <1>0, <1>1, <1>4, <1>6, SavedHistory
  <2>2. secret' \in Seq(SecretWord) /\ Begins(secret', SecretWords(x, sizes, all))
    BY <1>1, <1>3, <1>6, WrittenBegins DEF SecretWritten
  <2>3. Keeps(secret', x, sizes, all)
    BY <1>2, <2>2, BeginsKeeps, Zenon
  <2>4. numbers' \in Numbers
    BY <1>1, <1>6 DEF TypeOK, Numbers
  <2>5. TypeOK'
    BY <1>0, <1>1, <1>6, <2>1, <2>2, <2>4 DEF TypeOK, History
  <2>6. SecretKept'
    BY <1>0, <2>1, <2>3 DEF SecretKept, Changed
  <2>7. AuthKept'
    BY <1>5, <2>1 DEF Changed
  <2>8. QED
    BY <2>5, <2>6, <2>7 DEF Kept
<1>7. CASE secret' \in SecretTorn(x, sizes) /\ CutOff("secret", Record(x, sizes))
  <2>1. /\ saved' = saved /\ attempt' \in History /\ torn' \in [File -> 0 .. MaxTorn]
        /\ Changed(attempt', attempt, "secret", r)
        /\ Changed(torn', torn, "secret", torn["secret"] + 1)
    BY <1>0, <1>1, <1>4, <1>7, CutOffHistory
  <2>2. PICK k \in 1 .. Len(SecretWords(x, sizes, 2)) :
          secret' = Over(secret, SubSeq(SecretWords(x, sizes, 2), 1, k))
    BY <1>7 DEF SecretTorn
  <2>3. secret' \in Seq(SecretWord)
    <3>1. k \in 0 .. Len(SecretWords(x, sizes, 2))
      OBVIOUS
    <3>2. SubSeq(SecretWords(x, sizes, 2), 1, k) \in Seq(SecretWord)
      BY <1>3, <3>1, Prefix
    <3>3. QED
      BY <1>1, <2>2, <3>2, WrittenBegins
  <2>4. TypeOK'
    <3>1. pc' = "down" /\ logged_in' = FALSE /\ dcs' \in Addresses
           /\ Record(chats, names)' \in Records /\ numbers' \in Numbers /\ written' \in Numbers
      BY <1>7, DownTyped DEF CutOff
    <3>2. QED
      BY <1>1, <2>1, <2>3, <3>1 DEF TypeOK, History
  <2>5. SecretKept'
    <3> DEFINE was == saved["secret"].chats
    <3>1. torn["secret"] \in Nat /\ saved["secret"] \in Records
      BY <1>1, StateFilesAssumption DEF TypeOK, File
    <3>2. torn'["secret"] = torn["secret"] + 1 /\ torn'["secret"] # 0 /\ attempt'["secret"] = r
            /\ saved'["secret"] = saved["secret"]
      BY <2>1, <3>1 DEF Changed
    <3>3. ASSUME torn'["secret"] = 1, sizes = saved["secret"].names, Cardinality(DOMAIN was) >= 2
          PROVE  Mixed(secret', was, x, sizes)
      <4>1. torn["secret"] = 0
        BY <3>1, <3>2, <3>3
      <4>2. was # None
        <5>1. Cardinality(DOMAIN None) = 0
          BY FS_EmptySet DEF None
        <5>2. QED
          BY <3>3, <5>1
      <4>3. Keeps(secret, was, sizes, Cardinality(DOMAIN was))
        BY <3>3, <4>1, <4>2 DEF Kept, SecretKept
      <4>4. was \in Chats /\ DOMAIN sizes = DOMAIN was
        BY <3>1, <3>3, RecordsTyped
      <4> HIDE DEF was
      <4>5. DOMAIN x = DOMAIN was
        BY <4>4
      <4>6. Mixed(Over(secret, SubSeq(SecretWords(x, sizes, 2), 1, k)), was, x, sizes)
        BY <4>3, <4>4, <4>5, TornIsMixed
      <4>7. QED
        BY <2>2, <4>6
    <3>4. QED
      BY <1>0, <3>2, <3>3 DEF SecretKept
  <2>6. AuthKept'
    BY <1>5, <2>1 DEF Changed
  <2>7. QED
    BY <2>4, <2>5, <2>6 DEF Kept
<1>8. QED
  BY <1>6, <1>7 DEF write_secret_chat_file

(* The first start finds no file. *)
LEMMA InitKept == Init => Kept
<1> SUFFICES ASSUME Init PROVE Kept
  OBVIOUS
<1>1. None \in Addresses /\ Zero \in Numbers /\ 0 \in 0 .. MaxTorn /\ 0 \in 0 .. MaxStarts
        /\ Record(None, None) \in Records /\ Record(None, None).chats = None
  BY NoneTyped, RecordTyped, StateFilesAssumption DEF Addresses, Chats, Names, Zero, Numbers
<1>2. saved["auth"] = Nothing /\ saved["secret"] = Record(None, None)
        /\ torn["auth"] = 0 /\ torn["secret"] = 0
  BY DEF Init, File
<1>3. TypeOK
  <2>1. saved \in History /\ attempt \in History
    BY <1>1 DEF Init, History
  <2>2. torn \in [File -> 0 .. MaxTorn]
    BY <1>1 DEF Init
  <2>3. auth \in Seq(AuthWord) /\ secret \in Seq(SecretWord)
    BY DEF Init
  <2>4. QED
    BY <1>1, <2>1, <2>2, <2>3 DEF Init, TypeOK, History
<1>4. AuthKept
  BY <1>2 DEF Init, AuthKept
<1>5. SecretKept
  BY <1>1, <1>2 DEF Init, SecretKept
<1>6. QED
  BY <1>3, <1>4, <1>5 DEF Kept

(* What is left without one is a function still. *)
LEMMA WithoutTyped ==
  ASSUME NEW S, NEW T, NEW f \in Partial(S, T), NEW c
  PROVE  Without(f, c) \in Partial(S, T) /\ DOMAIN Without(f, c) = DOMAIN f \ {c}
<1>1. PICK D \in SUBSET S : f \in [D -> T]
  BY DEF Partial
<1>2. Without(f, c) \in [D \ {c} -> T] /\ D \ {c} \in SUBSET S
  BY <1>1 DEF Without
<1>3. QED
  BY <1>1, <1>2 DEF Partial

(* Every step preserves the invariant. *)
LEMMA NextKept == Kept /\ [Next]_vars => Kept'
<1> SUFFICES ASSUME Kept, [Next]_vars PROVE Kept'
  OBVIOUS
<1>1. ASSUME UNCHANGED <<auth, secret, saved, attempt, torn>> PROVE AuthKept' /\ SecretKept'
  BY <1>1 DEF Kept, AuthKept, SecretKept
<1>2. TypeOK /\ chats \in Chats /\ names \in Names /\ DOMAIN names = DOMAIN chats
  BY RecordTyped DEF Kept, TypeOK
<1>3. MaxNumber \in Nat
  BY StateFilesAssumption
<1>4. CASE start
  <2> DEFINE a == read_auth_file(auth)
             s == read_secret_chat_file(secret)
  <2>1. a.got \in Addresses /\ s.got \in Chats
    BY <1>2, AuthResult, ChatsResult DEF TypeOK, Result
  <2>2. \A v \in read_state_file : v \in Numbers
    <3>1. Zero \in Numbers
      BY <1>3 DEF Zero, Numbers
    <3>2. ASSUME state # Nothing, NEW t \in 0 .. MaxNumber PROVE [state EXCEPT !.pts = t] \in Numbers
      BY <1>2, <3>2 DEF Numbers, TypeOK
    <3>3. QED
      BY <3>1, <3>2 DEF read_state_file
  <2>3. starts' \in 0 .. MaxStarts
    BY <1>2, <1>4, StateFilesAssumption DEF TypeOK, start
  <2> HIDE DEF a, s
  <2>4. /\ pc' \in {"run", "dead"} /\ dcs' \in Addresses /\ numbers' \in Numbers
        /\ Record(chats, names)' \in Records
    <3>1. CASE a.verdict = "ok" /\ s.verdict = "ok"
      <4>1. /\ pc' = "run" /\ dcs' = a.got /\ chats' = s.got
            /\ names' \in Named(DOMAIN s.got) /\ numbers' \in read_state_file
        BY <1>4, <3>1 DEF start, a, s
      <4>2. names' \in Names /\ DOMAIN names' = DOMAIN s.got
        <5>1. DOMAIN s.got \subseteq Chat
          BY <2>1, ChatsTyped
        <5>2. QED
          BY <4>1, <5>1 DEF Named, Names, Partial
      <4>3. Record(chats', names') \in Records
        BY <2>1, <4>1, <4>2, RecordTyped
      <4>4. QED
        BY <2>1, <2>2, <4>1, <4>3
    <3>2. CASE ~(a.verdict = "ok" /\ s.verdict = "ok")
      <4>1. pc' = "dead" /\ UNCHANGED <<dcs, chats, names, numbers>>
        BY <1>4, <3>2 DEF start, a, s
      <4>2. QED
        BY <1>2, <4>1 DEF TypeOK
    <3>3. QED
      BY <3>1, <3>2
  <2>5. UNCHANGED <<auth, secret, state, logged_in, written, saved, attempt, torn>>
    BY <1>4 DEF start
  <2>6. TypeOK'
    BY <1>2, <2>3, <2>4, <2>5 DEF TypeOK
  <2>7. QED
    BY <1>1, <2>5, <2>6 DEF Kept
<1>5. CASE on_login
  BY <1>5, LoginKeeps
<1>6. CASE print_msg_success_gw
  <2>1. chats \in Chats /\ numbers.qts \in 0 .. MaxNumber
    BY <1>2 DEF TypeOK, Numbers
  <2>2. QED
    BY <1>2, <1>6, <2>1, ChatsKeep DEF print_msg_success_gw
<1>7. CASE update
  <2>1. numbers' \in Numbers
    <3>1. numbers \in Numbers /\ numbers' = [numbers EXCEPT !.pts = @ + 1] /\ numbers.pts < MaxNumber
      BY <1>2, <1>7 DEF update, TypeOK
    <3>2. PICK v : v = numbers.pts + 1
      OBVIOUS
    <3>3. v \in 0 .. MaxNumber
      BY <1>3, <3>1, <3>2 DEF Numbers
    <3>4. [numbers EXCEPT !.pts = v] \in Numbers
      BY <3>1, <3>3 DEF Numbers
    <3>5. QED
      BY <3>1, <3>2, <3>4
  <2>2. TypeOK'
    BY <1>2, <1>7, <2>1 DEF update, TypeOK
  <2>3. QED
    BY <1>1, <1>7, <2>2 DEF update, Kept
<1>8. CASE write_state_file
  <2>1. TypeOK'
    <3>1. CASE state' = numbers /\ written' = numbers /\ UNCHANGED <<pc, logged_in, dcs, chats, names, numbers>>
      BY <1>2, <1>8, <3>1 DEF write_state_file, TypeOK
    <3>2. CASE Down /\ UNCHANGED state
      BY <1>2, <1>8, <3>2, DownTyped DEF write_state_file, TypeOK
    <3>3. QED
      BY <1>8, <3>1, <3>2 DEF write_state_file
  <2>2. QED
    BY <1>1, <1>8, <2>1 DEF write_state_file, Kept
<1>9. CASE stop
  <2>1. TypeOK'
    BY <1>2, <1>9, DownTyped DEF stop, TypeOK
  <2>2. QED
    BY <1>1, <1>9, <2>1 DEF stop, Kept
<1>10. ASSUME NEW d \in DC, NEW n \in IpLengths[d], dc_option(d, n) PROVE Kept'
  <2>1. n \in Lengths
    BY DEF Lengths
  <2>2. dcs' \in Addresses
    BY <1>2, <1>10, <2>1, PutTyped DEF dc_option, TypeOK, Addresses
  <2>3. TypeOK'
    BY <1>2, <1>10, <2>2 DEF dc_option, TypeOK
  <2>4. QED
    BY <1>1, <1>10, <2>3 DEF dc_option, Kept
<1>11. ASSUME NEW c \in Chat, NEW k \in NameLengths[c], secret_chat_update_gw(c, k) PROVE Kept'
  <2>1. numbers.qts \in 0 .. MaxNumber /\ k \in NamesLengths
    <3>1. numbers.qts \in 0 .. MaxNumber
      BY <1>2 DEF TypeOK, Numbers
    <3>2. k \in NamesLengths
      BY DEF NamesLengths
    <3>3. QED
      BY <3>1, <3>2
  <2>2. UNCHANGED <<auth, state, starts>>
    BY <1>11 DEF secret_chat_update_gw
  <2>3. CASE c \in DOMAIN chats
    <3>1. /\ Without(chats, c) \in Chats /\ Without(names, c) \in Names
          /\ DOMAIN Without(names, c) = DOMAIN Without(chats, c)
      <4>1. Without(chats, c) \in Chats
        BY <1>2, WithoutTyped DEF Chats
      <4>2. Without(names, c) \in Names
        BY <1>2, WithoutTyped DEF Names
      <4>3. DOMAIN Without(names, c) = DOMAIN Without(chats, c)
        BY <1>2 DEF Without
      <4>4. QED
        BY <4>1, <4>2, <4>3
    <3>2. write_secret_chat_file(Without(chats, c), Without(names, c), numbers.qts)
      BY <1>11, <2>3 DEF secret_chat_update_gw
    <3>3. QED
      BY <2>1, <2>2, <3>1, <3>2, ChatsKeep DEF Kept
  <2>4. CASE c \notin DOMAIN chats
    <3>1. /\ Put(chats, c, numbers.qts) \in Chats /\ Put(names, c, k) \in Names
          /\ DOMAIN Put(names, c, k) = DOMAIN Put(chats, c, numbers.qts)
      <4>1. Put(chats, c, numbers.qts) \in Chats /\ Put(names, c, k) \in Names
        BY <1>2, <2>1, PutTyped DEF Chats, Names
      <4>2. QED
        BY <1>2, <4>1 DEF Put
    <3>2. write_secret_chat_file(Put(chats, c, numbers.qts), Put(names, c, k), numbers.qts)
      BY <1>11, <2>4 DEF secret_chat_update_gw
    <3>3. QED
      BY <2>1, <2>2, <3>1, <3>2, ChatsKeep DEF Kept
  <2>5. QED
    BY <2>3, <2>4
<1>12. ASSUME NEW c \in Chat, print_message_gw(c) PROVE Kept'
  <2> DEFINE x == [chats EXCEPT ![c] = numbers.qts + 1]
             n == numbers.qts + 1
  <2>1. /\ chats \in Chats /\ numbers.qts \in 0 .. MaxNumber /\ numbers.qts < MaxNumber
        /\ c \in DOMAIN chats
    BY <1>2, <1>12 DEF TypeOK, Numbers, print_message_gw
  <2>2. n \in 0 .. MaxNumber
    BY <1>3, <2>1
  <2>3. x \in Chats
    <3>1. PICK S \in SUBSET Chat : chats \in [S -> 0 .. MaxNumber]
      BY <2>1 DEF Chats, Partial
    <3> HIDE DEF n
    <3>2. x \in [S -> 0 .. MaxNumber]
      BY <2>2, <3>1 DEF n
    <3> HIDE DEF x
    <3>3. QED
      BY <3>2 DEF Chats, Partial
  <2>4. write_secret_chat_file(x, names, n) /\ UNCHANGED <<auth, state, starts>>
    BY <1>12 DEF print_message_gw
  <2>5. DOMAIN names = DOMAIN x
    BY <1>2
  <2> HIDE DEF x, n
  <2>6. QED
    BY <1>2, <2>2, <2>3, <2>4, <2>5, ChatsKeep
<1>13. CASE UNCHANGED vars
  <2>1. TypeOK'
    BY <1>2, <1>13 DEF vars, TypeOK
  <2>2. QED
    BY <1>1, <1>13, <2>1 DEF vars, Kept
<1>14. QED
  BY <1>4, <1>5, <1>6, <1>7, <1>8, <1>9, <1>10, <1>11, <1>12, <1>13 DEF Next

(* What was written in full is read back. *)
LEMMA KeptIsReadBack == Kept => ReadsBack
<1> SUFFICES ASSUME Kept PROVE ReadsBack
  OBVIOUS
<1>1. auth \in Seq(AuthWord) /\ secret \in Seq(SecretWord) /\ saved["secret"] \in Records
        /\ (saved["auth"] # Nothing => saved["auth"] \in Addresses)
  BY DEF Kept, TypeOK
<1>2. ASSUME torn["auth"] = 0, saved["auth"] = Nothing PROVE ReadsAuth = Verdict("ok", Default)
  <2>1. auth = <<>>
    BY <1>2 DEF Kept, AuthKept
  <2>2. read_auth_file(<<>>) = empty_auth_file
    BY DEF read_auth_file
  <2>3. QED
    BY <2>1, <2>2 DEF ReadsAuth, Reads, Verdict, empty_auth_file
<1>3. ASSUME torn["auth"] = 0, saved["auth"] # Nothing PROVE ReadsAuth = Verdict("ok", saved["auth"])
  <2>1. Begins(auth, AuthWords(saved["auth"]))
    BY <1>3 DEF Kept, AuthKept
  <2>2. QED
    BY <1>1, <1>3, <2>1, AuthReadsBack DEF ReadsAuth
<1>4. ASSUME torn["secret"] = 0 PROVE ReadsSecret = Verdict("ok", saved["secret"].chats)
  <2> DEFINE x == saved["secret"].chats
             sizes == saved["secret"].names
             n == Cardinality(DOMAIN x)
  <2>1. CASE x = None /\ secret = <<>>
    <3>1. read_secret_chat_file(<<>>) = [verdict |-> "ok", at |-> 1, got |-> None]
      BY DEF read_secret_chat_file
    <3>2. QED
      BY <2>1, <3>1 DEF ReadsSecret, Reads, Verdict
  <2>2. CASE Keeps(secret, x, sizes, n)
    <3>1. x \in Chats /\ sizes \in Names /\ DOMAIN sizes = DOMAIN x
      BY <1>1, RecordsTyped
    <3> HIDE DEF x, sizes
    <3>2. n \in 0 .. n /\ n \in Nat /\ DOMAIN x \subseteq Int /\ IsFiniteSet(DOMAIN x)
      <4>1. n \in Nat /\ DOMAIN x \subseteq Int /\ IsFiniteSet(DOMAIN x)
        BY <3>1, ChatsTyped
      <4>2. QED
        BY <4>1
    <3>3. ReadsSecret = Verdict("ok", Part(InOrder(DOMAIN x), x, n))
      BY <2>2, <3>1, <3>2, ChatsReadBack DEF ReadsSecret
    <3>4. DOMAIN x \subseteq {InOrder(DOMAIN x)[k] : k \in 1 .. n}
      <4>1. \A c \in DOMAIN x : \E i \in 1 .. n : InOrder(DOMAIN x)[i] = c
        BY <3>2, Ordered
      <4>2. QED
        BY <4>1
    <3>5. OneByOne(InOrder(DOMAIN x), x, n)
      BY <3>1, <3>2, Parts, Zenon DEF Chats
    <3>6. Part(InOrder(DOMAIN x), x, n) = x
      BY <3>4, <3>5 DEF OneByOne
    <3>7. QED
      BY <3>3, <3>6 DEF x
  <2>3. QED
    BY <1>4, <2>1, <2>2 DEF Kept, SecretKept
<1>5. QED
  BY <1>2, <1>3, <1>4 DEF ReadsBack

(* A write that was cut off leaves a file of the same shape readable. *)
LEMMA KeptIsReadable == Kept => TornIsReadable
<1> SUFFICES ASSUME Kept PROVE TornIsReadable
  OBVIOUS
<1>1. auth \in Seq(AuthWord) /\ saved["secret"] \in Records
        /\ (saved["auth"] # Nothing => saved["auth"] \in Addresses)
  BY DEF Kept, TypeOK
<1>2. SameAuthIsSafe
  <2> SUFFICES ASSUME torn["auth"] = 1, attempt["auth"] = saved["auth"]
               PROVE  ReadsAuth = Verdict("ok", saved["auth"])
    BY DEF SameAuthIsSafe
  <2>1. saved["auth"] # Nothing /\ Begins(auth, AuthWords(saved["auth"]))
    BY DEF Kept, AuthKept
  <2>2. QED
    BY <1>1, <2>1, AuthReadsBack DEF ReadsAuth
<1>3. TornKeepsTwo
  <2> DEFINE was == saved["secret"].chats
             now == attempt["secret"].chats
             sizes == saved["secret"].names
             D == InOrder(DOMAIN was)
             n == Cardinality(DOMAIN was)
  <2> SUFFICES ASSUME torn["secret"] = 1, attempt["secret"].names = sizes, n >= 2
               PROVE  /\ ReadsSecret.verdict = "ok"
                      /\ {D[i] : i \in 1 .. 2} \subseteq DOMAIN ReadsSecret.got
                      /\ \A c \in DOMAIN ReadsSecret.got : ReadsSecret.got[c] \in {was[c], now[c]}
    BY DEF TornKeepsTwo
  <2>1. Mixed(secret, was, now, sizes)
    BY DEF Kept, SecretKept
  <2>2. was \in Chats /\ sizes \in Names /\ DOMAIN sizes = DOMAIN was
    BY <1>1, RecordsTyped
  <2>3. n \in Nat /\ D \in [1 .. n -> DOMAIN was]
    <3> HIDE DEF was
    <3>1. n \in Nat /\ DOMAIN was \subseteq Int /\ IsFiniteSet(DOMAIN was)
      BY <2>2, ChatsTyped
    <3>2. QED
      BY <3>1, Ordered
  <2>4. n >= 2
    OBVIOUS
  <2> HIDE DEF was, now, sizes
  <2>5. PICK y \in Chats, num \in {2, n} :
          /\ DOMAIN y = DOMAIN was /\ \A c \in DOMAIN was : y[c] \in {was[c], now[c]}
          /\ Keeps(secret, y, sizes, num)
    BY <2>1 DEF Mixed
  <2> DEFINE got == Part(D, y, num)
  <2>6. num \in 0 .. n /\ num >= 2
    <3> HIDE DEF n
    <3> QED BY <2>3, <2>4
  <2>7. ReadsSecret = Verdict("ok", got)
    BY <2>2, <2>5, <2>6, ChatsReadBack DEF ReadsSecret
  <2>8. DOMAIN got = {D[k] : k \in 1 .. num} \cap DOMAIN y /\ \A c \in DOMAIN got : got[c] = y[c]
    BY DEF Part
  <2> HIDE DEF got
  <2>9. {D[i] : i \in 1 .. 2} \subseteq DOMAIN got
    <3>1. ASSUME NEW i \in 1 .. 2 PROVE D[i] \in DOMAIN got
      <4>1. i \in 1 .. num /\ i \in 1 .. n
        <5> HIDE DEF n
        <5> QED BY <2>3, <2>6
      <4>2. D[i] \in DOMAIN y
        BY <2>3, <2>5, <4>1
      <4> HIDE DEF D
      <4>3. QED
        BY <2>8, <4>1, <4>2
    <3>2. QED
      BY <3>1
  <2>10. ReadsSecret.verdict = "ok" /\ ReadsSecret.got = got
    BY <2>7 DEF Verdict
  <2>11. ASSUME NEW c \in DOMAIN got PROVE got[c] \in {was[c], now[c]}
    BY <2>5, <2>8
  <2>12. QED
    BY <2>9, <2>10, <2>11
<1>4. QED
  BY <1>2, <1>3 DEF TornIsReadable

(* The invariant of the files: an auth file begins with the words it was   *)
(* written with last, also after one write of the same addresses was cut   *)
(* off, and a secret-chat file keeps the chats it was written with last, or *)
(* a mixture of these and those of the write that was cut off.             *)
THEOREM AlwaysKept == Spec => []Kept
BY InitKept, NextKept, PTL DEF Spec

(* Type correctness: whatever a file holds, what a start reads of it are   *)
(* addresses of data centers and numbers of chats (loop.c:543, 621).       *)
THEOREM TypeCorrect == Spec => []TypeOK
<1>1. Kept => TypeOK
  BY DEF Kept
<1>2. QED
  BY <1>1, AlwaysKept, PTL

(* What was written in full is what a start reads, whatever longer content *)
(* the file had before, of which the end is still there (loop.c:480, 524). *)
THEOREM ReadsBackCorrect == Spec => []ReadsBack
BY AlwaysKept, KeptIsReadBack, PTL

(* Being killed within a write of a file whose records have not changed    *)
(* their places leaves a file that the next start can read: all of the auth *)
(* file, and two of the chats at least, each with its number of before or   *)
(* now.  Places are kept where ips and names have the lengths of before.    *)
THEOREM TornCorrect == Spec => []TornIsReadable
BY AlwaysKept, KeptIsReadable, PTL

-----------------------------------------------------------------------------
(* What a process has in memory. *)

(* A process that runs has in memory what the next start would read. *)
InMemory == pc = "run" => chats = ReadsSecret.got

(* The history of each file is kept apart. *)
Histories == /\ saved = [f \in File |-> saved[f]]
             /\ torn = [f \in File |-> torn[f]]

Inv == InMemory /\ Histories

(* The writing of the secret-chat file: in full it holds what is in        *)
(* memory then, and cut off nothing is in memory any more.                 *)
LEMMA WrittenIsInMemory ==
  ASSUME Inv, ReadsBack', NEW x, NEW sizes, NEW n, write_secret_chat_file(x, sizes, n)
  PROVE  Inv'
<1> DEFINE r == Record(x, sizes)
<1>0. r.chats = x
  BY RecordTyped
<1>1. CASE Saved("secret", r) /\ chats' = x
  <2>1. saved' = [saved EXCEPT !["secret"] = r] /\ torn' = [torn EXCEPT !["secret"] = 0]
    BY <1>1 DEF Saved
  <2>2. Histories'
    BY <2>1 DEF Inv, Histories
  <2>3. saved'["secret"] = r /\ torn'["secret"] = 0
    BY <2>1 DEF Inv, Histories, File
  <2>4. ReadsSecret' = Verdict("ok", x)
    BY <1>0, <2>3 DEF ReadsBack
  <2>5. chats' = ReadsSecret'.got
    BY <1>1, <2>4 DEF Verdict
  <2>6. QED
    BY <2>2, <2>5 DEF Inv, InMemory
<1>2. CASE CutOff("secret", r)
  <2>1. pc' = "down" /\ saved' = saved /\ torn' = [torn EXCEPT !["secret"] = @ + 1]
    BY <1>2 DEF CutOff, Down
  <2>2. QED
    BY <2>1 DEF Inv, InMemory, Histories
<1>3. QED
  BY <1>1, <1>2 DEF write_secret_chat_file

(* Every step keeps the two, where what was written in full is read back. *)
LEMMA NextInv == Inv /\ ReadsBack' /\ [Next]_vars => Inv'
<1> SUFFICES ASSUME Inv, ReadsBack', [Next]_vars PROVE Inv'
  OBVIOUS
<1>1. ASSUME UNCHANGED <<secret, saved, torn>>, pc' = "run" => pc = "run" /\ chats' = chats
      PROVE  Inv'
  BY <1>1 DEF Inv, InMemory, Histories, ReadsSecret, Reads, Verdict
<1>2. CASE start
  <2>1. UNCHANGED <<secret, saved, torn>>
    BY <1>2 DEF start
  <2>2. pc' = "run" => chats' = read_secret_chat_file(secret).got
    BY <1>2 DEF start
  <2>3. QED
    BY <2>1, <2>2 DEF Inv, InMemory, Histories, ReadsSecret, Reads, Verdict
<1>3. CASE on_login
  <2>1. CASE Saved("auth", dcs) /\ UNCHANGED <<pc, chats, secret>>
    <3>1. saved' = [saved EXCEPT !["auth"] = dcs] /\ torn' = [torn EXCEPT !["auth"] = 0]
      BY <2>1 DEF Saved
    <3>2. QED
      BY <2>1, <3>1 DEF Inv, InMemory, Histories, ReadsSecret, Reads, Verdict
  <2>2. CASE CutOff("auth", dcs)
    <3>1. pc' = "down" /\ saved' = saved /\ torn' = [torn EXCEPT !["auth"] = @ + 1]
      BY <2>2 DEF CutOff, Down
    <3>2. QED
      BY <3>1 DEF Inv, InMemory, Histories
  <2>3. QED
    BY <1>3, <2>1, <2>2 DEF on_login
<1>4. CASE print_msg_success_gw
  BY <1>4, WrittenIsInMemory DEF print_msg_success_gw
<1>5. /\ \A c \in Chat : \A k \in NameLengths[c] : secret_chat_update_gw(c, k) => Inv'
      /\ \A c \in Chat : print_message_gw(c) => Inv'
  <2>1. ASSUME NEW c \in Chat, NEW k \in NameLengths[c], secret_chat_update_gw(c, k) PROVE Inv'
    BY <2>1, WrittenIsInMemory DEF secret_chat_update_gw
  <2>2. ASSUME NEW c \in Chat, print_message_gw(c) PROVE Inv'
    BY <2>2, WrittenIsInMemory DEF print_message_gw
  <2>3. QED
    BY <2>1, <2>2
<1>6. CASE update \/ write_state_file \/ stop
  BY <1>1, <1>6 DEF update, write_state_file, stop, Down
<1>7. ASSUME NEW d \in DC, NEW n \in IpLengths[d], dc_option(d, n)
      PROVE  Inv'
  BY <1>1, <1>7 DEF dc_option
<1>8. CASE UNCHANGED vars
  BY <1>1, <1>8 DEF vars
<1>9. QED
  BY <1>2, <1>3, <1>4, <1>5, <1>6, <1>7, <1>8 DEF Next

(* A message of a secret chat that the state file counts as received is in *)
(* the secret-chat file with the same number: print_message_gw saves the   *)
(* chats before tgl counts the message, and a write that is cut off ends   *)
(* the process (interface.c:3062, loop.c:538).                             *)
THEOREM ReceivedCorrect == Spec => []ReceivedIsSaved
<1>1. Init => Inv
  <2>1. ASSUME Init PROVE Histories
    BY <2>1 DEF Init, Histories, File
  <2>2. QED
    BY <2>1 DEF Init, Inv, InMemory
<1>2. Inv => ReceivedIsSaved
  BY DEF Inv, InMemory, ReceivedIsSaved
<1>3. Spec => []ReadsBack
  BY ReadsBackCorrect
<1>4. QED
  BY <1>1, <1>2, <1>3, NextInv, PTL DEF Spec
=============================================================================
