--------------------------- MODULE CgymLineProofs ---------------------------
(***************************************************************************)
(* What the server reads and what it writes: lemmas about the operators of *)
(* CgymLine, CgymFiles and CgymServer.  readline() stores CHAR_MAX symbols *)
(* at most; a stream of lines as libcgym sends them is read line by line,  *)
(* and the words of such a line are the command and its arguments; the     *)
(* replies are what Reply says, whether CgymServer or CgymService says it. *)
(***************************************************************************)
EXTENDS CgymServerProps, SequenceTheorems, FiniteSetTheorems, TLAPS

(***************************************************************************)
(* Induction and recursion over the natural numbers.                       *)
(***************************************************************************)
LEMMA NatSetInduction ==
  ASSUME NEW T, 0 \in T, \A n \in Nat : n \in T => n + 1 \in T
  PROVE  Nat \subseteq T
<1> DEFINE D == {n \in Nat : n \notin T}
           R == OpToRel(<, Nat)
<1> SUFFICES ASSUME D # {} PROVE FALSE
  OBVIOUS
<1>1. IsWellFoundedOn(R, Nat)
  BY NatLessThanWellFounded
<1>2. \A x, y \in Nat : x < y => <<x, y>> \in R
  BY DEF OpToRel
<1> HIDE DEF R
<1>3. PICK x \in D : \A y \in D : ~ (<<y, x>> \in R)
  BY <1>1, WFMin
<1>4. x # 0 /\ x - 1 \in Nat /\ x - 1 < x
  OBVIOUS
<1>5. x - 1 \in T
  BY <1>2, <1>3, <1>4
<1> QED
  BY <1>3, <1>4, <1>5

(* A first value and what makes the next one from the last and its number. *)
Steps(S, a, g) == a \in S /\ g \in [Nat \X S -> S]
Iterated(S, a, g, N) ==
  \E f \in [N -> S] : f[0] = a /\ \A n \in Nat : n + 1 \in N => f[n + 1] = g[<<n, f[n]>>]

LEMMA NatSetRecursion ==
  ASSUME NEW S, NEW a, NEW g, Steps(S, a, g)
  PROVE  Iterated(S, a, g, Nat)
<1> USE DEF Steps
<1> DEFINE Upto(n, f) == f[0] = a /\ \A m \in 0 .. n - 1 : f[m + 1] = g[<<m, f[m]>>]
           T == {n \in Nat : \E f \in [Nat -> S] : Upto(n, f)}
           U == {n \in Nat : \A p, q \in [Nat -> S] :
                    Upto(n, p) /\ Upto(n, q) => p[n] = q[n]}
<1>1. 0 \in T
  <2> DEFINE f == [n \in Nat |-> a]
  <2>1. f \in [Nat -> S] /\ Upto(0, f)
    OBVIOUS
  <2> QED
    BY <2>1
<1>2. ASSUME NEW n \in T
      PROVE  n + 1 \in T
  <2>1. PICK f \in [Nat -> S] : Upto(n, f)
    BY <1>2
  <2> DEFINE h == [m \in Nat |-> IF m = n + 1 THEN g[<<n, f[n]>>] ELSE f[m]]
  <2>2. h \in [Nat -> S]
    OBVIOUS
  <2>3. \A m \in 0 .. n : h[m] = f[m]
    OBVIOUS
  <2>4. h[n + 1] = g[<<n, f[n]>>]
    OBVIOUS
  <2> HIDE DEF h
  <2>5. Upto(n + 1, h)
    BY <2>1, <2>2, <2>3, <2>4
  <2> QED
    BY <2>2, <2>5
<1>3. 0 \in U
  OBVIOUS
<1>4. ASSUME NEW n \in U
      PROVE  n + 1 \in U
  <2>1. ASSUME NEW p \in [Nat -> S], NEW q \in [Nat -> S], Upto(n + 1, p), Upto(n + 1, q)
        PROVE  p[n + 1] = q[n + 1]
    <3>1. Upto(n, p) /\ Upto(n, q)
      BY <1>4, <2>1
    <3>2. p[n] = q[n]
      BY <1>4, <3>1
    <3>3. p[n + 1] = g[<<n, p[n]>>] /\ q[n + 1] = g[<<n, q[n]>>]
      BY <1>4, <2>1
    <3> QED
      BY <3>2, <3>3
  <2> QED
    BY <1>4, <2>1
<1> HIDE DEF T, U
<1>5. Nat \subseteq T /\ Nat \subseteq U
  BY <1>1, <1>2, <1>3, <1>4, NatSetInduction
<1> DEFINE c == [n \in Nat |-> CHOOSE f \in [Nat -> S] : Upto(n, f)]
           r == [n \in Nat |-> c[n][n]]
<1>6. \A n \in Nat : c[n] \in [Nat -> S] /\ Upto(n, c[n])
  BY <1>5 DEF T
<1> HIDE DEF c
<1>7. r \in [Nat -> S]
  BY <1>6
<1>8. r[0] = a
  BY <1>6
<1>9. ASSUME NEW n \in Nat
      PROVE  r[n + 1] = g[<<n, r[n]>>]
  <2>1. c[n + 1] \in [Nat -> S] /\ Upto(n + 1, c[n + 1])
    BY <1>6
  <2>2. Upto(n, c[n + 1]) /\ Upto(n, c[n])
    BY <1>6, <2>1
  <2>3. c[n + 1][n] = c[n][n]
    BY <1>5, <1>6, <2>1, <2>2 DEF U
  <2>4. c[n + 1][n + 1] = g[<<n, c[n + 1][n]>>]
    BY <2>1
  <2> QED
    BY <2>3, <2>4
<1> QED
  BY <1>7, <1>8, <1>9 DEF Iterated

(* The same for functions on an initial segment.                           *)
LEMMA SegmentRecursion ==
  ASSUME NEW S, NEW a, NEW g, Steps(S, a, g), NEW N \in Nat
  PROVE  Iterated(S, a, g, 0 .. N)
<1>3. PICK f \in [Nat -> S] :
        f[0] = a /\ \A n \in Nat : n + 1 \in Nat => f[n + 1] = g[<<n, f[n]>>]
  BY NatSetRecursion DEF Iterated
<1> DEFINE r == [n \in 0 .. N |-> f[n]]
<1>4. r \in [0 .. N -> S] /\ r[0] = a
  BY <1>3
<1>5. \A n \in Nat : n + 1 \in 0 .. N => r[n + 1] = g[<<n, r[n]>>]
  BY <1>3
<1> QED
  BY <1>4, <1>5 DEF Iterated

-----------------------------------------------------------------------------
(***************************************************************************)
(* FlattenSeq().                                                           *)
(***************************************************************************)
LEMMA FlattenEquation ==
  ASSUME NEW S, NEW s \in Seq(Seq(S)), s # <<>>
  PROVE  \E f \in [1 .. Len(s) -> Seq(S)] :
           /\ f[1] = s[1]
           /\ \A i \in 1 .. Len(s) - 1 : f[i + 1] = f[i] \o s[i + 1]
           /\ FlattenSeq(s) = f[Len(s)]
<1> DEFINE N == Len(s) - 1
           g == [x \in Nat \X Seq(S) |->
                   IF x[1] \in 0 .. N - 1 THEN x[2] \o s[x[1] + 2] ELSE x[2]]
<1>1. /\ N \in Nat /\ Len(s) = N + 1 /\ Len(s) # 0
      /\ \A i \in 1 .. Len(s) : s[i] \in Seq(S)
  OBVIOUS
<1> HIDE DEF N
<1>2. g \in [Nat \X Seq(S) -> Seq(S)]
  <2>1. \A i \in 0 .. N - 1 : i + 2 \in 1 .. Len(s)
    BY <1>1
  <2>2. \A a \in Seq(S), i \in 0 .. N - 1 : a \o s[i + 2] \in Seq(S)
    BY <1>1, <2>1, ConcatProperties
  <2> QED
    BY <2>2
<1>3. ASSUME NEW n \in 0 .. N - 1, NEW a \in Seq(S)
      PROVE  g[<<n, a>>] = a \o s[n + 2]
  <2>1. n \in Nat
    BY <1>1
  <2> QED
    BY <2>1
<1> HIDE DEF g
<1>4. Steps(Seq(S), s[1], g)
  BY <1>1, <1>2 DEF Steps
<1>4a. Iterated(Seq(S), s[1], g, 0 .. N)
  BY <1>1, <1>4, SegmentRecursion
<1>5. PICK h \in [0 .. N -> Seq(S)] :
        h[0] = s[1] /\ \A n \in Nat : n + 1 \in 0 .. N => h[n + 1] = g[<<n, h[n]>>]
  BY <1>4a DEF Iterated
<1> DEFINE f == [i \in 1 .. Len(s) |-> h[i - 1]]
           Body(e) == [i \in 1 .. Len(s) |-> IF i = 1 THEN s[i] ELSE e[i - 1] \o s[i]]
           Eq(e) == e = Body(e)
<1>6. f \in [1 .. Len(s) -> Seq(S)] /\ f[1] = s[1]
  BY <1>1, <1>5
<1>7. ASSUME NEW i \in 1 .. Len(s) - 1
      PROVE  f[i + 1] = f[i] \o s[i + 1]
  <2>1. i - 1 \in 0 .. N - 1 /\ (i - 1) + 1 = i /\ (i - 1) + 2 = i + 1
    BY <1>1
  <2>2. h[i] = h[i - 1] \o s[i + 1]
    <3>1. i - 1 \in Nat /\ i \in 0 .. N /\ h[i - 1] \in Seq(S)
      BY <1>1, <1>5, <2>1
    <3>2. h[(i - 1) + 1] = g[<<i - 1, h[i - 1]>>]
      BY <1>5, <2>1, <3>1
    <3> QED
      BY <1>3, <2>1, <3>1, <3>2
  <2>3. f[i + 1] = h[i] /\ f[i] = h[i - 1]
    BY <1>1
  <2> QED
    BY <2>2, <2>3
<1> HIDE DEF f
<1>8. Eq(f)
  <2>1. ASSUME NEW i \in 1 .. Len(s) PROVE f[i] = Body(f)[i]
    <3>1. CASE i = 1
      BY <1>6, <3>1
    <3>2. CASE i # 1
      <4>1. i - 1 \in 1 .. Len(s) - 1 /\ (i - 1) + 1 = i
        BY <1>1, <3>2
      <4>2. f[i] = f[i - 1] \o s[i]
        BY <1>7, <4>1
      <4> QED
        BY <3>2, <4>2
    <3> QED
      BY <3>1, <3>2
  <2> QED
    BY <1>6, <2>1
<1> DEFINE c == CHOOSE e : Eq(e)
<1>9. FlattenSeq(s) = c[Len(s)]
  BY <1>1 DEF FlattenSeq
<1>10. Eq(c)
  <2> HIDE DEF Eq
  <2> QED
    BY <1>8
<1> HIDE DEF c
<1> DEFINE T == {i \in Nat : i + 1 \in 1 .. Len(s) => c[i + 1] = f[i + 1]}
<1>11. Nat \subseteq T
  <2>0. 1 \in 1 .. Len(s)
    BY <1>1
  <2>1. c[1] = s[1]
    BY <1>10, <2>0
  <2>1a. 0 \in T
    BY <1>6, <2>1
  <2>2. ASSUME NEW i \in Nat, i \in T
        PROVE  i + 1 \in T
    <3> SUFFICES ASSUME i + 2 \in 1 .. Len(s)
                 PROVE  c[i + 2] = f[i + 2]
      OBVIOUS
    <3>1. c[i + 1] = f[i + 1]
      BY <2>2, <1>1
    <3>2. c[i + 2] = c[(i + 2) - 1] \o s[i + 2]
      <4> i + 2 # 1
        OBVIOUS
      <4> QED
        BY <1>10
    <3>3. (i + 2) - 1 = i + 1 /\ i + 1 \in 1 .. Len(s) - 1 /\ (i + 1) + 1 = i + 2
      BY <1>1
    <3>4. f[i + 2] = f[i + 1] \o s[i + 2]
      BY <1>7, <3>3
    <3> QED
      BY <3>1, <3>2, <3>3, <3>4
  <2> HIDE DEF T
  <2> QED
    BY <2>1a, <2>2, NatSetInduction
<1>12. c[Len(s)] = f[Len(s)]
  <2>1. N \in T
    BY <1>1, <1>11
  <2> QED
    BY <1>1, <2>1
<1> QED
  BY <1>6, <1>7, <1>9, <1>12

-----------------------------------------------------------------------------
LEMMA Regrouped ==
  ASSUME NEW S
  PROVE  \A a, b, d \in Seq(S) : (a \o b) \o d = a \o (b \o d)
  BY ConcatAssociative

LEMMA FlattenEmpty == FlattenSeq(<<>>) = <<>>
  BY DEF FlattenSeq

LEMMA FlattenOne ==
  ASSUME NEW S, NEW m \in Seq(S)
  PROVE  FlattenSeq(<<m>>) = m
<1> DEFINE s == <<m>>
<1>1. s \in Seq(Seq(S)) /\ s # <<>> /\ Len(s) = 1 /\ s[1] = m
  OBVIOUS
<1> HIDE DEF s
<1>2. PICK f \in [1 .. Len(s) -> Seq(S)] :
        /\ f[1] = s[1]
        /\ \A i \in 1 .. Len(s) - 1 : f[i + 1] = f[i] \o s[i + 1]
        /\ FlattenSeq(s) = f[Len(s)]
  BY <1>1, FlattenEquation
<1> QED
  BY <1>1, <1>2 DEF s

LEMMA FlattenType ==
  ASSUME NEW S, NEW s \in Seq(Seq(S))
  PROVE  FlattenSeq(s) \in Seq(S)
<1>1. CASE s = <<>>
  BY <1>1, FlattenEmpty, EmptySeq
<1>2. CASE s # <<>>
  <2>1. PICK f \in [1 .. Len(s) -> Seq(S)] :
          /\ f[1] = s[1]
          /\ \A i \in 1 .. Len(s) - 1 : f[i + 1] = f[i] \o s[i + 1]
          /\ FlattenSeq(s) = f[Len(s)]
    BY <1>2, FlattenEquation
  <2>2. Len(s) \in 1 .. Len(s)
    BY <1>2, EmptySeq
  <2> QED
    BY <2>1, <2>2
<1> QED
  BY <1>1, <1>2

(* The last sequence comes last.                                           *)
LEMMA FlattenAppend ==
  ASSUME NEW S, NEW t \in Seq(Seq(S)), NEW m \in Seq(S)
  PROVE  FlattenSeq(Append(t, m)) = FlattenSeq(t) \o m
<1>1. CASE t = <<>>
  <2>1. Append(t, m) = <<m>> /\ <<>> \o m = m
    BY <1>1, ConcatEmptySeq
  <2> QED
    BY <1>1, <2>1, FlattenOne, FlattenEmpty
<1>2. CASE t # <<>>
  <2> DEFINE s == Append(t, m)
  <2>1. /\ s \in Seq(Seq(S)) /\ s # <<>> /\ Len(s) = Len(t) + 1 /\ s[Len(t) + 1] = m
        /\ \A i \in 1 .. Len(t) : s[i] = t[i]
        /\ Len(t) \in Nat /\ Len(t) >= 1
    BY <1>2, AppendProperties, EmptySeq
  <2> HIDE DEF s
  <2>2. PICK f \in [1 .. Len(s) -> Seq(S)] :
          /\ f[1] = s[1]
          /\ \A i \in 1 .. Len(s) - 1 : f[i + 1] = f[i] \o s[i + 1]
          /\ FlattenSeq(s) = f[Len(s)]
    BY <2>1, FlattenEquation
  <2>3. PICK h \in [1 .. Len(t) -> Seq(S)] :
          /\ h[1] = t[1]
          /\ \A i \in 1 .. Len(t) - 1 : h[i + 1] = h[i] \o t[i + 1]
          /\ FlattenSeq(t) = h[Len(t)]
    BY <1>2, FlattenEquation
  <2> DEFINE T == {i \in Nat : i \in 1 .. Len(t) => f[i] = h[i]}
  <2>4. Nat \subseteq T
    <3>1. 0 \in T
      OBVIOUS
    <3>2. ASSUME NEW i \in Nat, i \in T
          PROVE  i + 1 \in T
      <4> SUFFICES ASSUME i + 1 \in 1 .. Len(t)
                   PROVE  f[i + 1] = h[i + 1]
        OBVIOUS
      <4>1. s[i + 1] = t[i + 1]
        BY <2>1
      <4>2. CASE i = 0
        BY <2>2, <2>3, <4>1, <4>2
      <4>3. CASE i # 0
        <5>1. i \in 1 .. Len(t) - 1 /\ i \in 1 .. Len(s) - 1 /\ i \in 1 .. Len(t)
          BY <2>1, <4>3
        <5>2. f[i] = h[i]
          BY <3>2, <5>1
        <5>3. f[i + 1] = f[i] \o s[i + 1] /\ h[i + 1] = h[i] \o t[i + 1]
          BY <2>2, <2>3, <5>1
        <5> QED
          BY <4>1, <5>2, <5>3
      <4> QED
        BY <4>2, <4>3
    <3> HIDE DEF T
    <3> QED
      BY <3>1, <3>2, NatSetInduction
  <2>5. f[Len(t)] = h[Len(t)]
    <3>1. Len(t) \in Nat /\ Len(t) \in 1 .. Len(t)
      BY <2>1
    <3> QED
      BY <2>4, <3>1
  <2>6. f[Len(t) + 1] = f[Len(t)] \o m
    <3>1. Len(t) \in 1 .. Len(s) - 1
      BY <2>1
    <3> QED
      BY <2>1, <2>2, <3>1
  <2> QED
    BY <2>1, <2>2, <2>3, <2>5, <2>6 DEF s
<1> QED
  BY <1>1, <1>2

(* The first sequence comes first.                                         *)
LEMMA FlattenTail ==
  ASSUME NEW S, NEW s \in Seq(Seq(S)), s # <<>>
  PROVE  FlattenSeq(s) = Head(s) \o FlattenSeq(Tail(s))
<1>0. \A a, b, d \in Seq(S) : (a \o b) \o d = a \o (b \o d)
  BY Regrouped
<1> DEFINE t == Tail(s)
           m == Head(s)
<1>1. /\ t \in Seq(Seq(S)) /\ m \in Seq(S) /\ Len(t) = Len(s) - 1
      /\ Len(t) \in Nat /\ Len(s) \in Nat /\ m = s[1]
      /\ \A i \in 1 .. Len(t) : t[i] = s[i + 1]
      /\ \A i \in 1 .. Len(s) : s[i] \in Seq(S)
      /\ \A i \in 1 .. Len(t) : t[i] \in Seq(S)
  OBVIOUS
<1>2. CASE t = <<>>
  <2> HIDE DEF t, m
  <2>0. Len(s) = 1
    BY <1>1, <1>2
  <2>1. s = <<m>> /\ m \o <<>> = m
    BY <1>1, <2>0, ConcatEmptySeq
  <2>2. FlattenSeq(s) = m
    BY <1>1, <2>1, FlattenOne
  <2>3. FlattenSeq(t) = <<>>
    BY <1>2, FlattenEmpty
  <2>4. FlattenSeq(s) = m \o FlattenSeq(t)
    BY <2>1, <2>2, <2>3
  <2> QED
    BY <2>4 DEF t, m
<1>3. CASE t # <<>>
  <2> HIDE DEF t, m
  <2>1. Len(t) >= 1
    BY <1>1, <1>3
  <2>2. PICK f \in [1 .. Len(s) -> Seq(S)] :
          /\ f[1] = s[1]
          /\ \A i \in 1 .. Len(s) - 1 : f[i + 1] = f[i] \o s[i + 1]
          /\ FlattenSeq(s) = f[Len(s)]
    BY FlattenEquation
  <2>3. PICK h \in [1 .. Len(t) -> Seq(S)] :
          /\ h[1] = t[1]
          /\ \A i \in 1 .. Len(t) - 1 : h[i + 1] = h[i] \o t[i + 1]
          /\ FlattenSeq(t) = h[Len(t)]
    BY <1>1, <1>3, FlattenEquation
  <2> DEFINE T == {i \in Nat : i \in 1 .. Len(t) => f[i + 1] = m \o h[i]}
  <2>4. Nat \subseteq T
    <3>1. 0 \in T
      OBVIOUS
    <3>2. ASSUME NEW i \in Nat, i \in T
          PROVE  i + 1 \in T
      <4> SUFFICES ASSUME i + 1 \in 1 .. Len(t)
                   PROVE  f[(i + 1) + 1] = m \o h[i + 1]
        OBVIOUS
      <4>1. /\ t[i + 1] = s[(i + 1) + 1] /\ t[i + 1] \in Seq(S)
            /\ i + 1 \in 1 .. Len(s) - 1
        BY <1>1
      <4>2. f[(i + 1) + 1] = f[i + 1] \o s[(i + 1) + 1]
        BY <2>2, <4>1
      <4>3. CASE i = 0
        <5>1. f[1] = m /\ h[1] = t[1] /\ i + 1 = 1
          BY <1>1, <2>2, <2>3, <4>3
        <5> QED
          BY <4>1, <4>2, <5>1
      <4>4. CASE i # 0
        <5>1. i \in 1 .. Len(t) - 1 /\ i \in 1 .. Len(t)
          BY <1>1, <4>4
        <5>2. f[i + 1] = m \o h[i]
          BY <3>2, <5>1
        <5>3. h[i + 1] = h[i] \o t[i + 1] /\ h[i] \in Seq(S)
          BY <2>3, <5>1
        <5>4. (m \o h[i]) \o t[i + 1] = m \o (h[i] \o t[i + 1])
          <6>1. m \in Seq(S) /\ h[i] \in Seq(S) /\ t[i + 1] \in Seq(S)
            BY <1>1, <4>1, <5>3
          <6> HIDE DEF T
          <6> QED
            <7> DEFINE hi == h[i]
                       ti == t[i + 1]
            <7> HIDE DEF hi, ti
            <7>2. hi \in Seq(S) /\ ti \in Seq(S) /\ m \in Seq(S)
              BY <6>1 DEF hi, ti
            <7>3. (m \o hi) \o ti = m \o (hi \o ti)
              BY <1>0, <7>2
            <7> QED BY <7>3 DEF hi, ti
        <5> QED
          BY <4>1, <4>2, <5>2, <5>3, <5>4
      <4> QED
        BY <4>3, <4>4
    <3> HIDE DEF T
    <3> QED
      BY <3>1, <3>2, NatSetInduction
  <2>5. f[Len(s)] = m \o h[Len(t)]
    <3>1. Len(t) \in Nat /\ Len(t) \in 1 .. Len(t) /\ Len(t) + 1 = Len(s)
      BY <1>1, <2>1
    <3>2. f[Len(t) + 1] = m \o h[Len(t)]
      BY <2>4, <3>1
    <3> QED
      BY <3>1, <3>2
  <2>6. FlattenSeq(s) = m \o FlattenSeq(t)
    BY <2>2, <2>3, <2>5
  <2> QED
    BY <2>6 DEF t, m
<1> QED
  BY <1>2, <1>3

LEMMA FlattenCons ==
  ASSUME NEW S, NEW m \in Seq(S), NEW t \in Seq(Seq(S))
  PROVE  FlattenSeq(<<m>> \o t) = m \o FlattenSeq(t)
<1> DEFINE s == <<m>> \o t
<1>1. s \in Seq(Seq(S)) /\ s # <<>> /\ Head(s) = m /\ Tail(s) = t
  OBVIOUS
<1> HIDE DEF s
<1>2. FlattenSeq(s) = m \o FlattenSeq(t)
  BY <1>1, FlattenTail
<1> QED
  BY <1>2 DEF s

(***************************************************************************)
(* How many symbols readline() can store.                                  *)
(***************************************************************************)
LEMMA LimDef ==
  /\ lim \in [Nat -> Int]
  /\ lim[0] = -1
  /\ \A n \in Nat : lim[n + 1] = IF n >= lim[n] THEN ToChar(lim[n] + ADD) ELSE lim[n]
<1> DEFINE g == [x \in Nat \X Int |-> IF x[1] >= x[2] THEN ToChar(x[2] + ADD) ELSE x[2]]
<1>1. g \in [Nat \X Int -> Int]
  BY LineAssumption DEF ToChar
<1>1a. \A n \in Nat, y \in Int : g[<<n, y>>] = IF n >= y THEN ToChar(y + ADD) ELSE y
  OBVIOUS
<1> HIDE DEF g
<1>1b. Steps(Int, -1, g)
  BY <1>1 DEF Steps
<1>1c. Iterated(Int, -1, g, Nat)
  BY <1>1b, NatSetRecursion
<1>2. PICK f \in [Nat -> Int] :
        f[0] = -1 /\ \A n \in Nat : n + 1 \in Nat => f[n + 1] = g[<<n, f[n]>>]
  BY <1>1c DEF Iterated
<1>3. ASSUME NEW n \in Nat
      PROVE  f[n + 1] = IF n >= f[n] THEN ToChar(f[n] + ADD) ELSE f[n]
  <2>1. f[n] \in Int /\ f[n + 1] = g[<<n, f[n]>>]
    BY <1>2
  <2> QED
    BY <1>1a, <2>1
<1> DEFINE Body(h) == [size \in Nat |-> IF size = 0 THEN -1
                      ELSE IF size - 1 >= h[size - 1] THEN ToChar(h[size - 1] + ADD)
                      ELSE h[size - 1]]
           Eq(h) == h = Body(h)
<1>4. Eq(f)
  <2>1. ASSUME NEW n \in Nat PROVE f[n] = Body(f)[n]
    <3>1. CASE n = 0
      BY <1>2, <3>1
    <3>2. CASE n # 0
      <4>1. n - 1 \in Nat /\ (n - 1) + 1 = n
        BY <3>2
      <4> QED
        BY <1>3, <3>2, <4>1
    <3> QED
      BY <3>1, <3>2
  <2> QED
    BY <1>2, <2>1
<1>5. lim = CHOOSE h : Eq(h)
  BY DEF lim
<1>6. Eq(lim)
  <2> HIDE DEF Eq
  <2> QED
    BY <1>4, <1>5
<1>7. /\ lim[0] = -1
      /\ \A n \in Nat : lim[n + 1] = IF n >= lim[n] THEN ToChar(lim[n] + ADD) ELSE lim[n]
  BY <1>6
<1>8. lim = [n \in Nat |-> lim[n]]
  BY <1>6
<1> DEFINE T == {n \in Nat : lim[n] \in Int}
<1>9. Nat \subseteq T
  <2>1. 0 \in T
    BY <1>7
  <2>2. \A n \in Nat : n \in T => n + 1 \in T
    BY <1>7, LineAssumption DEF ToChar
  <2> HIDE DEF T
  <2> QED
    BY <2>1, <2>2, NatSetInduction
<1> QED
  BY <1>7, <1>8, <1>9

LEMMA ToCharSmall ==
  ASSUME NEW x \in Int, -1 <= x, x <= CHAR_MAX
  PROVE  ToChar(x) = x
<1> DEFINE m == 2 * (CHAR_MAX + 1)
           y == x + CHAR_MAX + 1
<1>1. m \in Nat \ {0} /\ y \in Nat /\ y < m
  BY LineAssumption
<1>2. y % m = y
  <2> HIDE DEF y, m
  <2> QED
    BY <1>1
<1> QED
  BY <1>2, LineAssumption DEF ToChar

LEMMA ToCharWraps ==
  ASSUME NEW x \in Int, x = CHAR_MAX + ADD
  PROVE  ToChar(x) + 1 < 0
<1> DEFINE m == 2 * (CHAR_MAX + 1)
           y == x + CHAR_MAX + 1
<1>1. m \in Nat \ {0} /\ y - m \in Nat /\ y - m < m
  BY LineAssumption
<1>2. y % m = y - m
  <2>1. y = m + (y - m)
    BY <1>1, LineAssumption
  <2> HIDE DEF y, m
  <2>2. y \in Int
    BY <1>1, LineAssumption DEF y, m
  <2> QED
    BY <1>1, <2>1, <2>2
<1> QED
  BY <1>2, LineAssumption DEF ToChar

LEMMA NextMultiple ==
  ASSUME NEW a \in Nat \ {0}, NEW j \in Nat, NEW k \in Nat, j * a < k * a
  PROVE  j * a + a <= k * a
<1>1. j < k
  OBVIOUS
<1>2. j + 1 <= k
  BY <1>1
<1>3. (j + 1) * a <= k * a
  <2>1. PICK d \in Nat : k = (j + 1) + d
    <3>1. k - (j + 1) \in Nat
      BY <1>2
    <3> QED
      BY <3>1
  <2>2. k * a = (j + 1) * a + d * a
    BY <2>1
  <2>3. d * a >= 0
    OBVIOUS
  <2> QED
    BY <2>2, <2>3
<1>4. (j + 1) * a = j * a + a
  OBVIOUS
<1> QED
  BY <1>3, <1>4

(* The buffer ends at a multiple of ADD, and not before size.              *)
LEMMA LimGrows ==
  \A n \in 0 .. CHAR_MAX :
    /\ n - 1 <= lim[n] /\ lim[n] <= CHAR_MAX
    /\ lim[n] < CHAR_MAX => lim[n] + ADD <= CHAR_MAX
    /\ \E k \in Nat : lim[n] + 1 = k * ADD
<1> DEFINE Ok(n) == /\ n - 1 <= lim[n] /\ lim[n] <= CHAR_MAX
                    /\ lim[n] < CHAR_MAX => lim[n] + ADD <= CHAR_MAX
                    /\ \E k \in Nat : lim[n] + 1 = k * ADD
           T == {n \in Nat : n \in 0 .. CHAR_MAX => Ok(n)}
<1>0. ADD \in Nat \ {0, 1} /\ CHAR_MAX \in Nat /\ CHAR_MAX >= ADD
  BY LineAssumption
<1>1. PICK K \in Nat : CHAR_MAX + 1 = K * ADD
  <2>1. CHAR_MAX + 1 = ADD * ((CHAR_MAX + 1) \div ADD)
    BY LineAssumption
  <2>2. (CHAR_MAX + 1) \div ADD \in Nat
    BY LineAssumption
  <2> DEFINE q == (CHAR_MAX + 1) \div ADD
  <2> HIDE DEF q
  <2>3. CHAR_MAX + 1 = q * ADD /\ q \in Nat
    BY <1>0, <2>1, <2>2 DEF q
  <2> QED
    BY <2>3
<1>2. 0 \in T
  <2>1. lim[0] = -1 /\ lim[0] + 1 = 0 * ADD
    BY <1>0, LimDef
  <2> QED
    BY <1>0, <2>1
<1>3. ASSUME NEW n \in Nat, n \in T
      PROVE  n + 1 \in T
  <2> SUFFICES ASSUME n + 1 \in 0 .. CHAR_MAX
               PROVE  Ok(n + 1)
    OBVIOUS
  <2>0. n \in 0 .. CHAR_MAX /\ n < CHAR_MAX
    BY <1>0
  <2>0a. Ok(n)
    BY <1>3, <2>0
  <2>1. Ok(n) /\ n < CHAR_MAX /\ lim[n] \in Int
    BY <2>0, <2>0a, LimDef
  <2>2. lim[n + 1] = IF n >= lim[n] THEN ToChar(lim[n] + ADD) ELSE lim[n]
    BY LimDef
  <2>3. CASE n < lim[n]
    <3>1. lim[n + 1] = lim[n]
      BY <2>1, <2>2, <2>3
    <3> QED
      BY <2>1, <2>3, <3>1
  <2>4. CASE n >= lim[n]
    <3>1. lim[n] < CHAR_MAX /\ lim[n] + ADD <= CHAR_MAX /\ -1 <= lim[n] + ADD
      BY <1>0, <2>1, <2>4
    <3>2. lim[n + 1] = lim[n] + ADD
      BY <1>0, <2>1, <2>2, <2>4, <3>1, ToCharSmall
    <3>3. PICK k \in Nat : lim[n] + 1 = k * ADD
      BY <2>1
    <3> DEFINE l == lim[n + 1]
    <3> HIDE DEF l
    <3>4. (k + 1) * ADD = k * ADD + ADD
      BY <1>0
    <3>5. l + 1 = (k + 1) * ADD /\ l \in Int
      BY <1>0, <2>1, <3>2, <3>3, <3>4 DEF l
    <3>6. l < CHAR_MAX => l + ADD <= CHAR_MAX
      <4> SUFFICES ASSUME l < CHAR_MAX
                   PROVE  l + ADD <= CHAR_MAX
        OBVIOUS
      <4>1. (k + 1) * ADD < K * ADD
        BY <1>0, <1>1, <3>5
      <4>2. (k + 1) * ADD + ADD <= K * ADD
        BY <1>0, <4>1, NextMultiple
      <4> QED
        BY <1>0, <1>1, <3>5, <4>2
    <3>7. (n + 1) - 1 <= l /\ l <= CHAR_MAX
      BY <1>0, <2>1, <3>1, <3>2 DEF l
    <3>8. \E j \in Nat : l + 1 = j * ADD
      BY <3>5
    <3> QED
      BY <3>6, <3>7, <3>8 DEF l
  <2> QED
    BY <2>1, <2>3, <2>4
<1> HIDE DEF T
<1>4. Nat \subseteq T
  BY <1>2, <1>3, NatSetInduction
<1> QED
  BY <1>0, <1>4 DEF T

(* readline() takes CHAR_MAX symbols and no more, whatever ADD is.         *)
THEOREM LineLimit == MaxStored = CHAR_MAX
<1>0. ADD \in Nat \ {0, 1} /\ CHAR_MAX \in Nat /\ CHAR_MAX >= ADD
  BY LineAssumption
<1>1. ASSUME NEW n \in 0 .. CHAR_MAX - 1
      PROVE  HasRoom(n)
  <2> SUFFICES ASSUME n >= lim[n]
               PROVE  ToChar(lim[n] + ADD) + 1 >= 0
    BY DEF HasRoom
  <2>1. /\ lim[n] \in Int /\ n - 1 <= lim[n]
        /\ lim[n] < CHAR_MAX => lim[n] + ADD <= CHAR_MAX
    BY <1>0, LimDef, LimGrows
  <2>2. -1 <= lim[n] + ADD /\ lim[n] + ADD <= CHAR_MAX
    BY <1>0, <2>1
  <2>3. ToChar(lim[n] + ADD) = lim[n] + ADD
    BY <1>0, <2>1, <2>2, ToCharSmall
  <2> QED
    BY <1>0, <2>1, <2>2, <2>3
<1>2. ~HasRoom(CHAR_MAX)
  <2>1. /\ lim[CHAR_MAX] \in Int /\ CHAR_MAX - 1 <= lim[CHAR_MAX] /\ lim[CHAR_MAX] <= CHAR_MAX
        /\ lim[CHAR_MAX] < CHAR_MAX => lim[CHAR_MAX] + ADD <= CHAR_MAX
    BY <1>0, LimDef, LimGrows
  <2>2. lim[CHAR_MAX] = CHAR_MAX
    BY <1>0, <2>1
  <2>3. ToChar(CHAR_MAX + ADD) + 1 < 0
    BY <1>0, ToCharWraps
  <2>4. ToChar(CHAR_MAX + ADD) \in Int
    BY <1>0 DEF ToChar
  <2> QED
    BY <1>0, <2>2, <2>3, <2>4 DEF HasRoom
<1> DEFINE Ends(n) == ~HasRoom(n) /\ \A m \in 0 .. n - 1 : HasRoom(m)
<1>3. CHAR_MAX \in 0 .. CHAR_MAX + 1 /\ Ends(CHAR_MAX)
  BY <1>0, <1>1, <1>2
<1>4. \A n \in 0 .. CHAR_MAX + 1 : Ends(n) => n = CHAR_MAX
  BY <1>0, <1>1, <1>2
<1>5. MaxStored = CHOOSE n \in 0 .. CHAR_MAX + 1 : Ends(n)
  BY DEF MaxStored
<1> HIDE DEF Ends
<1> QED
  BY <1>3, <1>4, <1>5

-----------------------------------------------------------------------------
LEMMA NatLeast ==
  ASSUME NEW D \in SUBSET Nat, D # {}
  PROVE  \E x \in D : \A y \in D : x <= y
<1> DEFINE T == {n \in Nat : \A m \in 0 .. n : m \notin D}
<1> SUFFICES ASSUME \A x \in D : \E y \in D : y < x
             PROVE  FALSE
  OBVIOUS
<1>1. 0 \in T
  OBVIOUS
<1>2. \A n \in Nat : n \in T => n + 1 \in T
  OBVIOUS
<1> HIDE DEF T
<1>3. Nat \subseteq T
  BY <1>1, <1>2, NatSetInduction
<1>4. PICK x \in D : TRUE
  OBVIOUS
<1>5. x \in T /\ x \in 0 .. x
  BY <1>3
<1> QED
  BY <1>4, <1>5 DEF T

(***************************************************************************)
(* The words of a line.                                                    *)
(***************************************************************************)
LEMMA WordEndType ==
  ASSUME NEW str \in Seq(Symbols), NEW p \in 1 .. Len(str), str[p] # "SP"
  PROVE  WordEnd(str, p) \in p .. Len(str)
<1> DEFINE D == {q \in p .. Len(str) : q = Len(str) \/ str[q + 1] = "SP"}
<1>1. Len(str) \in Nat /\ p <= Len(str)
  OBVIOUS
<1>2. D \in SUBSET Nat /\ Len(str) \in D
  BY <1>1
<1>3. PICK q \in D : \A r \in D : q <= r
  BY <1>2, NatLeast
<1>4. ASSUME NEW r \in p .. q
      PROVE  str[r] # "SP"
  <2>1. CASE r = p
    BY <2>1
  <2>2. CASE r # p
    <3>1. r - 1 \in p .. Len(str) /\ r - 1 < q /\ (r - 1) + 1 = r
      BY <1>1, <1>2, <1>3, <2>2
    <3>2. ASSUME r - 1 \in D PROVE FALSE
      <4>1. q <= r - 1
        BY <1>3, <3>2
      <4>2. q \in Nat /\ r - 1 \in Nat
        BY <1>2, <3>1
      <4> QED
        BY <3>1, <4>1, <4>2
    <3> QED
      BY <3>1, <3>2
  <2> QED
    BY <2>1, <2>2
<1> QED
  BY <1>3, <1>4 DEF WordEnd

LEMMA NextWordType ==
  ASSUME NEW str \in Seq(Symbols), NEW w \in Scans
  PROVE  NextWord(str, w) \in Scans
<1>1. /\ w.words \in Seq(Seq(Symbols)) /\ w.s \in Nat \ {0} /\ w.nuls \in SUBSET Nat
      /\ w.past \in BOOLEAN
      /\ w = [words |-> w.words, s |-> w.s, nuls |-> w.nuls, past |-> w.past]
  BY DEF Scans
<1>2. CASE w.s > Len(str) + 1
  BY <1>1, <1>2 DEF NextWord, Scans
<1>3. CASE ~(w.s > Len(str) + 1) /\ WordStart(str, w.s, w.nuls) = {}
  BY <1>3 DEF NextWord
<1>4. CASE ~(w.s > Len(str) + 1) /\ WordStart(str, w.s, w.nuls) # {}
  <2> DEFINE p == CHOOSE p \in WordStart(str, w.s, w.nuls) : TRUE
             q == WordEnd(str, p)
  <2>1. p \in WordStart(str, w.s, w.nuls)
    BY <1>4
  <2> HIDE DEF p
  <2>2. p \in 1 .. Len(str) /\ str[p] # "SP"
    BY <1>1, <2>1 DEF WordStart
  <2>3. q \in p .. Len(str)
    BY <2>2, WordEndType
  <2> HIDE DEF q
  <2>4. SubSeq(str, p, q) \in Seq(Symbols)
    BY <2>2, <2>3, SubSeqProperties
  <2>5. q \in Nat /\ q - p + 1 \in Nat
    BY <2>2, <2>3
  <2>6. NextWord(str, w) =
          [words |-> Append(w.words, SubSeq(str, p, q)), s |-> w.s + (q - p + 1) + 1,
           nuls |-> w.nuls \cup {q + 1}, past |-> w.past]
    BY <1>1, <1>4 DEF NextWord, p, q
  <2>7. /\ Append(w.words, SubSeq(str, p, q)) \in Seq(Seq(Symbols))
        /\ w.s + (q - p + 1) + 1 \in Nat \ {0}
        /\ w.nuls \cup {q + 1} \in SUBSET Nat
    BY <1>1, <2>4, <2>5
  <2> QED
    BY <1>1, <2>6, <2>7 DEF Scans
<1> QED
  BY <1>2, <1>3, <1>4

(* The loop of Words().                                                    *)
Turns(str, f) ==
  /\ f \in [Nat -> Scans] /\ f[0] = NoWords
  /\ \A n \in Nat : f[n + 1] = NextWord(str, f[n])

LEMMA WordsLoop ==
  ASSUME NEW str \in Seq(Symbols)
  PROVE  \E f : Turns(str, f) /\ Words(str) = f[Len(str) + 1]
<1> DEFINE turn == [w \in Scans |-> NextWord(str, w)]
           g == [x \in Nat \X Scans |-> turn[x[2]]]
<1>1. turn \in [Scans -> Scans]
  BY NextWordType
<1>1a. \A w \in Scans : turn[w] = NextWord(str, w)
  OBVIOUS
<1> HIDE DEF turn
<1>2. g \in [Nat \X Scans -> Scans]
  BY <1>1
<1>2a. \A n \in Nat, w \in Scans : g[<<n, w>>] = turn[w]
  OBVIOUS
<1> HIDE DEF g
<1>3. NoWords \in Scans
  BY EmptySeq DEF NoWords, Scans
<1>4. Steps(Scans, NoWords, g)
  BY <1>2, <1>3 DEF Steps
<1>5. Iterated(Scans, NoWords, g, Nat)
  BY <1>4, NatSetRecursion
<1>6. PICK f \in [Nat -> Scans] :
        f[0] = NoWords /\ \A n \in Nat : n + 1 \in Nat => f[n + 1] = g[<<n, f[n]>>]
  BY <1>5 DEF Iterated
<1>7. ASSUME NEW n \in Nat
      PROVE  f[n + 1] = turn[f[n]]
  <2>1. f[n] \in Scans /\ f[n + 1] = g[<<n, f[n]>>]
    BY <1>6
  <2> QED
    BY <1>2a, <2>1
<1>8. Turns(str, f)
  <2>1. \A n \in Nat : f[n + 1] = NextWord(str, f[n])
    BY <1>1a, <1>6, <1>7
  <2> QED
    BY <1>6, <2>1 DEF Turns
<1> DEFINE Body(h) == [n \in Nat |-> IF n = 0 THEN NoWords ELSE turn[h[n - 1]]]
           Eq(h) == h = Body(h)
           loop == CHOOSE h : Eq(h)
<1>9. Eq(f)
  <2>1. ASSUME NEW n \in Nat PROVE f[n] = Body(f)[n]
    <3>1. CASE n = 0
      BY <1>6, <3>1
    <3>2. CASE n # 0
      <4>1. n - 1 \in Nat /\ (n - 1) + 1 = n
        BY <3>2
      <4>2. f[n] = turn[f[n - 1]]
        BY <1>7, <4>1
      <4> QED
        BY <3>2, <4>2
    <3> QED
      BY <3>1, <3>2
  <2> QED
    BY <1>6, <2>1
<1>10. Words(str) = loop[Len(str) + 1]
  BY DEF Words, turn
<1>11. Eq(loop)
  <2> HIDE DEF Eq
  <2> QED
    BY <1>9
<1> HIDE DEF loop
<1> DEFINE T == {n \in Nat : loop[n] = f[n]}
<1>12. Nat \subseteq T
  <2>1. 0 \in T
    BY <1>6, <1>11
  <2>2. ASSUME NEW n \in Nat, n \in T
        PROVE  n + 1 \in T
    <3>1. loop[n + 1] = turn[loop[(n + 1) - 1]]
      BY <1>11
    <3>2. (n + 1) - 1 = n
      OBVIOUS
    <3>3. loop[n] = f[n]
      BY <2>2
    <3>4. loop[n + 1] = f[n + 1]
      BY <1>7, <3>1, <3>2, <3>3
    <3> QED
      BY <3>4
  <2> HIDE DEF T
  <2> QED
    BY <2>1, <2>2, NatSetInduction
<1>13. Len(str) + 1 \in Nat
  OBVIOUS
<1> QED
  BY <1>8, <1>10, <1>12, <1>13

LEMMA WordsType ==
  ASSUME NEW str \in Seq(Symbols)
  PROVE  Words(str).words \in Seq(Seq(Symbols)) /\ Words(str).past \in BOOLEAN
<1>1. PICK f : Turns(str, f) /\ Words(str) = f[Len(str) + 1]
  BY WordsLoop
<1>2. Len(str) + 1 \in Nat
  OBVIOUS
<1>3. Words(str) \in Scans
  BY <1>1, <1>2 DEF Turns
<1> QED
  BY <1>3 DEF Scans

(* When a turn changes nothing the loop is over.                           *)
LEMMA WordsSettle ==
  ASSUME NEW str \in Seq(Symbols), NEW f, Turns(str, f), NEW k \in 0 .. Len(str) + 1,
         NextWord(str, f[k]) = f[k]
  PROVE  f[Len(str) + 1] = f[k]
<1> DEFINE T == {n \in Nat : f[k + n] = f[k]}
<1>1. 0 \in T
  OBVIOUS
<1>2. ASSUME NEW n \in Nat, n \in T
      PROVE  n + 1 \in T
  <2>1. f[(k + n) + 1] = NextWord(str, f[k + n])
    BY DEF Turns
  <2>2. (k + n) + 1 = k + (n + 1)
    OBVIOUS
  <2> QED
    BY <1>2, <2>1, <2>2
<1> HIDE DEF T
<1>3. Nat \subseteq T
  BY <1>1, <1>2, NatSetInduction
<1>4. (Len(str) + 1) - k \in Nat /\ k + ((Len(str) + 1) - k) = Len(str) + 1
  OBVIOUS
<1> QED
  BY <1>3, <1>4 DEF T

(* A turn that finds the word from s to q, and one at the end.             *)
LEMMA NextWordFound ==
  ASSUME NEW str \in Seq(Symbols), NEW w \in Scans, NEW q \in w.s .. Len(str),
         \A r \in w.s .. q : str[r] # "SP" /\ r \notin w.nuls,
         q = Len(str) \/ str[q + 1] = "SP"
  PROVE  NextWord(str, w) =
           [words |-> Append(w.words, SubSeq(str, w.s, q)), s |-> q + 2,
            nuls |-> w.nuls \cup {q + 1}, past |-> w.past]
<1>1. /\ w.s \in Nat \ {0} /\ Len(str) \in Nat /\ q \in Nat
      /\ w = [words |-> w.words, s |-> w.s, nuls |-> w.nuls, past |-> w.past]
  BY DEF Scans
<1> DEFINE s == w.s
<1>2. /\ s \in Nat /\ s # 0 /\ w.s = s /\ q \in s .. Len(str)
      /\ \A r \in s .. q : str[r] # "SP" /\ r \notin w.nuls
  BY <1>1
<1> HIDE DEF s
<1>3. WordStart(str, s, w.nuls) = {s}
  <2>1. s \in WordStart(str, s, w.nuls)
    BY <1>1, <1>2 DEF WordStart
  <2>2. ASSUME NEW p \in WordStart(str, s, w.nuls)
        PROVE  p = s
    <3>1. p \in s .. Len(str) /\ \A r \in s .. p - 1 : str[r] = "SP"
      BY <2>2 DEF WordStart
    <3>2. str[s] # "SP"
      BY <1>1, <1>2
    <3> QED
      BY <1>1, <1>2, <3>1, <3>2
  <2> QED
    BY <2>1, <2>2
<1>4. WordEnd(str, s) = q
  <2> DEFINE Ends(e) == /\ e = Len(str) \/ str[e + 1] = "SP"
                      /\ \A r \in s .. e : str[r] # "SP"
  <2>1. q \in s .. Len(str) /\ Ends(q)
    BY <1>2
  <2>2. ASSUME NEW e \in s .. Len(str), Ends(e)
        PROVE  e = q
    <3>1. ~(e < q)
      <4> SUFFICES ASSUME e < q PROVE FALSE
        OBVIOUS
      <4>1. e + 1 \in s .. q /\ e # Len(str)
        BY <1>1, <1>2
      <4> QED
        BY <1>2, <2>2, <4>1
    <3>2. ~(q < e)
      <4> SUFFICES ASSUME q < e PROVE FALSE
        OBVIOUS
      <4>1. q + 1 \in s .. e /\ q # Len(str)
        BY <1>1, <1>2
      <4> QED
        BY <1>2, <2>2, <4>1
    <3> QED
      BY <1>1, <1>2, <3>1, <3>2
  <2>3. WordEnd(str, s) = CHOOSE e \in s .. Len(str) : Ends(e)
    BY DEF WordEnd
  <2> HIDE DEF Ends
  <2> QED
    BY <2>1, <2>2, <2>3
<1>5. ~(w.s > Len(str) + 1)
  BY <1>1, <1>2
<1>6. (CHOOSE p \in WordStart(str, w.s, w.nuls) : TRUE) = s
  BY <1>2, <1>3
<1>7. w.s + (q - s + 1) + 1 = q + 2
  BY <1>1, <1>2
<1>8. NextWord(str, w) =
        [w EXCEPT !.words = Append(@, SubSeq(str, s, q)),
                  !.s = @ + (q - s + 1) + 1, !.nuls = @ \cup {q + 1}]
  BY <1>2, <1>3, <1>4, <1>5, <1>6 DEF NextWord
<1> QED
  BY <1>1, <1>2, <1>7, <1>8

LEMMA NextWordNone ==
  ASSUME NEW str \in Seq(Symbols), NEW w \in Scans, w.s = Len(str) + 1
  PROVE  NextWord(str, w) = w
<1>1. WordStart(str, w.s, w.nuls) = {}
  BY DEF WordStart
<1>2. ~(w.s > Len(str) + 1)
  OBVIOUS
<1> QED
  BY <1>1, <1>2 DEF NextWord

-----------------------------------------------------------------------------
LEMMA SubSeqOne ==
  ASSUME NEW S, NEW s \in Seq(S), NEW p \in 1 .. Len(s)
  PROVE  SubSeq(s, p, p) = <<s[p]>>
<1>1. \A i \in p .. p : s[i] \in S
  BY ElementOfSeq
<1>2. /\ SubSeq(s, p, p) \in Seq(S) /\ Len(SubSeq(s, p, p)) = 1
      /\ SubSeq(s, p, p)[1] = s[p]
  BY <1>1, SubSeqProperties
<1> DEFINE u == SubSeq(s, p, p)
<1> HIDE DEF u
<1>3. u \in Seq(S) /\ Len(u) = 1 /\ u[1] = s[p]
  BY <1>2 DEF u
<1>4. u = <<s[p]>>
  BY <1>3
<1> QED
  BY <1>4 DEF u

LEMMA AppendOne ==
  ASSUME NEW S, NEW a \in S, NEW b \in S
  PROVE  Append(<<a>>, b) = <<a, b>>
<1> DEFINE u == Append(<<a>>, b)
           t == <<a, b>>
<1>1. <<a>> \in Seq(S)
  OBVIOUS
<1>2. u \in Seq(S) /\ Len(u) = 2 /\ u[1] = a /\ u[2] = b
  BY <1>1, AppendProperties
<1>3. t \in Seq(S) /\ Len(t) = 2 /\ t[1] = a /\ t[2] = b
  OBVIOUS
<1> HIDE DEF u, t
<1>4. u = t
  BY <1>2, <1>3, SeqEqual
<1> QED
  BY <1>4 DEF u, t

LEMMA AppendTwo ==
  ASSUME NEW S, NEW a \in S, NEW b \in S, NEW d \in S
  PROVE  Append(<<a, b>>, d) = <<a, b, d>>
<1> DEFINE u == Append(<<a, b>>, d)
           t == <<a, b, d>>
<1>1. <<a, b>> \in Seq(S)
  OBVIOUS
<1>2. u \in Seq(S) /\ Len(u) = 3 /\ u[1] = a /\ u[2] = b /\ u[3] = d
  BY <1>1, AppendProperties
<1>3. t \in Seq(S) /\ Len(t) = 3 /\ t[1] = a /\ t[2] = b /\ t[3] = d
  OBVIOUS
<1> HIDE DEF u, t
<1>4. u = t
  BY <1>2, <1>3, SeqEqual
<1> QED
  BY <1>4 DEF u, t

LEMMA AppendThree ==
  ASSUME NEW S, NEW a \in S, NEW b \in S, NEW d \in S, NEW e \in S
  PROVE  Append(<<a, b, d>>, e) = <<a, b, d, e>>
<1> DEFINE u == Append(<<a, b, d>>, e)
           t == <<a, b, d, e>>
<1>1. <<a, b, d>> \in Seq(S)
  OBVIOUS
<1>2. u \in Seq(S) /\ Len(u) = 4 /\ u[1] = a /\ u[2] = b /\ u[3] = d /\ u[4] = e
  BY <1>1, AppendProperties
<1>3. t \in Seq(S) /\ Len(t) = 4 /\ t[1] = a /\ t[2] = b /\ t[3] = d /\ t[4] = e
  OBVIOUS
<1> HIDE DEF u, t
<1>4. u = t
  BY <1>2, <1>3, SeqEqual
<1> QED
  BY <1>4 DEF u, t

(* The scan of str after k turns that have not read past the end, and the  *)
(* word that comes next.                                                   *)
Scan(ws, s, nuls) == [words |-> ws, s |-> s, nuls |-> nuls, past |-> FALSE]

Stands(str, f, k, ws, s, nuls) ==
  /\ str \in Seq(Symbols) /\ Turns(str, f)
  /\ k \in Nat /\ ws \in Seq(Seq(Symbols))
  /\ f[k] = Scan(ws, s, nuls)

WordAt(str, s, nuls, q) ==
  /\ s \in Nat \ {0} /\ nuls \in SUBSET Nat /\ q \in s .. Len(str)
  /\ \A r \in s .. q : str[r] # "SP" /\ r \notin nuls
  /\ q = Len(str) \/ str[q + 1] = "SP"

LEMMA OneMoreWord ==
  ASSUME NEW str, NEW f, NEW k, NEW ws, NEW s, NEW nuls, NEW q, NEW word,
         Stands(str, f, k, ws, s, nuls), WordAt(str, s, nuls, q),
         SubSeq(str, s, q) = word, word \in Seq(Symbols)
  PROVE  Stands(str, f, k + 1, Append(ws, word), q + 2, nuls \cup {q + 1})
<1> DEFINE w == f[k]
<1>1. str \in Seq(Symbols) /\ Turns(str, f) /\ k \in Nat /\ ws \in Seq(Seq(Symbols))
  BY DEF Stands
<1>2. w = Scan(ws, s, nuls)
  BY DEF Stands
<1>3. w \in Scans
  BY <1>1 DEF Turns
<1>4. f[k + 1] = NextWord(str, w)
  BY <1>1 DEF Turns
<1> HIDE DEF w
<1>5. w.s = s /\ w.nuls = nuls /\ w.words = ws /\ w.past = FALSE
  BY <1>2 DEF Scan
<1>6. /\ q \in w.s .. Len(str) /\ \A r \in w.s .. q : str[r] # "SP" /\ r \notin w.nuls
      /\ q = Len(str) \/ str[q + 1] = "SP"
  BY <1>5 DEF WordAt
<1>7. NextWord(str, w) =
        [words |-> Append(w.words, SubSeq(str, w.s, q)), s |-> q + 2,
         nuls |-> w.nuls \cup {q + 1}, past |-> w.past]
  BY <1>1, <1>3, <1>6, NextWordFound
<1>8. f[k + 1] = [words |-> Append(ws, word), s |-> q + 2,
                  nuls |-> nuls \cup {q + 1}, past |-> FALSE]
  BY <1>4, <1>5, <1>7
<1>9. k + 1 \in Nat /\ Append(ws, word) \in Seq(Seq(Symbols))
  BY <1>1
<1> QED
  BY <1>1, <1>8, <1>9 DEF Stands, Scan

LEMMA NoMoreWords ==
  ASSUME NEW str, NEW f, NEW k, NEW ws, NEW s, NEW nuls,
         Stands(str, f, k, ws, s, nuls), k <= Len(str) + 1, s = Len(str) + 1
  PROVE  f[Len(str) + 1] = Scan(ws, s, nuls)
<1> DEFINE w == f[k]
<1>1. str \in Seq(Symbols) /\ Turns(str, f) /\ k \in Nat
  BY DEF Stands
<1>2. w = Scan(ws, s, nuls)
  BY DEF Stands
<1>3. w \in Scans
  BY <1>1 DEF Turns
<1>4. w.s = Len(str) + 1
  BY <1>2 DEF Scan
<1>5. k \in 0 .. Len(str) + 1
  BY <1>1
<1> HIDE DEF w
<1>6. NextWord(str, w) = w
  BY <1>1, <1>3, <1>4, NextWordNone
<1>7. NextWord(str, f[k]) = f[k]
  BY <1>6 DEF w
<1>8. f[Len(str) + 1] = f[k]
  BY <1>1, <1>5, <1>7, WordsSettle
<1> QED
  BY <1>2, <1>8 DEF w

LEMMA NoWordYet ==
  ASSUME NEW str \in Seq(Symbols)
  PROVE  \E f : /\ Stands(str, f, 0, <<>>, 1, {})
                /\ Words(str) = f[Len(str) + 1]
<1>1. PICK f : Turns(str, f) /\ Words(str) = f[Len(str) + 1]
  BY WordsLoop
<1>2. f[0] = Scan(<<>>, 1, {})
  BY <1>1 DEF Turns, NoWords, Scan
<1>3. <<>> \in Seq(Seq(Symbols)) /\ 0 \in Nat
  OBVIOUS
<1> QED
  BY <1>1, <1>2, <1>3 DEF Stands

LEMMA LineAndSpace ==
  ASSUME NEW line \in Seq(Symbols), NEW S, Spaces(line, S)
  PROVE  /\ Append(line, "SP") \in Seq(Symbols)
         /\ Len(Append(line, "SP")) = Len(line) + 1
         /\ \A p \in 1 .. Len(line) : /\ Append(line, "SP")[p] = line[p]
                                      /\ line[p] = "SP" <=> p \in S
         /\ Append(line, "SP")[Len(line) + 1] = "SP"
         /\ Len(line) \in Nat
<1>1. "SP" \in Symbols
  BY LineAssumption
<1>2. \A p \in 1 .. Len(line) : line[p] = "SP" <=> p \in S
  BY DEF Spaces, Positions
<1> QED
  BY <1>1, <1>2, AppendProperties

LEMMA OneWord ==
  ASSUME NEW x \in Symbols, x # "SP"
  PROVE  Words(<<x, "SP">>).words = << <<x>> >> /\ Words(<<x, "SP">>).past = FALSE
<1> DEFINE str == <<x, "SP">>
           a   == <<x>>
<1>1. str \in Seq(Symbols) /\ Len(str) = 2 /\ str[1] = x /\ str[2] = "SP"
  BY LineAssumption
<1>2. a \in Seq(Symbols)
  OBVIOUS
<1> HIDE DEF str
<1>3. SubSeq(str, 1, 1) = a
  BY <1>1, SubSeqOne
<1> HIDE DEF a
<1>4. PICK f : Stands(str, f, 0, <<>>, 1, {}) /\ Words(str) = f[Len(str) + 1]
  BY <1>1, NoWordYet
<1>5. WordAt(str, 1, {}, 1)
  BY <1>1 DEF WordAt
<1>6. Stands(str, f, 0 + 1, Append(<<>>, a), 1 + 2, {} \cup {1 + 1})
  BY <1>2, <1>3, <1>4, <1>5, OneMoreWord
<1>7. 0 + 1 <= Len(str) + 1 /\ 1 + 2 = Len(str) + 1
  BY <1>1
<1>8. f[Len(str) + 1] = Scan(Append(<<>>, a), 1 + 2, {} \cup {1 + 1})
  BY <1>6, <1>7, NoMoreWords
<1>9. Append(<<>>, a) = <<a>>
  BY <1>2
<1>10. Words(str).words = <<a>> /\ Words(str).past = FALSE
  BY <1>4, <1>8, <1>9 DEF Scan
<1> QED
  BY <1>10 DEF str, a

LEMMA RestOfLine ==
  ASSUME NEW line \in Seq(Symbols), NEW p \in 1 .. Len(line)
  PROVE  /\ NameFrom(line, p) \in Seq(Symbols) /\ NameFrom(line, p) # <<>>
         /\ SubSeq(Append(line, "SP"), p, Len(line)) = NameFrom(line, p)
<1> DEFINE L   == Len(line)
           str == Append(line, "SP")
           a   == NameFrom(line, p)
           b   == SubSeq(str, p, L)
<1>1. str \in Seq(Symbols) /\ Len(str) = L + 1 /\ L \in Nat
      /\ \A i \in 1 .. L : str[i] = line[i]
  BY LineAssumption, AppendProperties
<1>2. /\ a \in Seq(Symbols) /\ Len(a) = L - p + 1
      /\ \A i \in 1 .. L - p + 1 : a[i] = line[p + i - 1]
  BY ElementOfSeq, SubSeqProperties DEF NameFrom
<1> HIDE DEF a
<1>3. \A i \in p .. L : str[i] \in Symbols
  BY <1>1, ElementOfSeq
<1> HIDE DEF str
<1>4. /\ b \in Seq(Symbols) /\ Len(b) = L - p + 1
      /\ \A i \in 1 .. L - p + 1 : b[i] = str[p + i - 1]
  BY <1>1, <1>3, SubSeqProperties
<1> HIDE DEF b
<1>5. ASSUME NEW i \in 1 .. L - p + 1 PROVE b[i] = a[i]
  <2>1. p + i - 1 \in 1 .. L
    BY <1>1
  <2> QED
    BY <1>1, <1>2, <1>4, <2>1
<1>6. Len(a) = Len(b) /\ \A i \in 1 .. Len(a) : a[i] = b[i]
  BY <1>2, <1>4, <1>5
<1>7. a = b
  BY <1>2, <1>4, <1>6, SeqEqual
<1>8. a # <<>>
  BY <1>2
<1> QED
  BY <1>2, <1>7, <1>8 DEF a, b, str

LEMMA TwoWords ==
  ASSUME NEW line \in Seq(Symbols), Spaces(line, {2}), 3 \in DOMAIN line
  PROVE  /\ Words(Append(line, "SP")).words =
              << <<line[1]>>, NameFrom(line, 3) >>
         /\ Words(Append(line, "SP")).past = FALSE
<1> DEFINE str == Append(line, "SP")
           L   == Len(line)
           a   == <<line[1]>>
           b   == NameFrom(line, 3)
<1>1. /\ str \in Seq(Symbols) /\ Len(str) = L + 1 /\ str[L + 1] = "SP"
      /\ \A p \in 1 .. L : str[p] = line[p] /\ (line[p] = "SP" <=> p \in {2})
      /\ L \in Nat /\ L >= 3
  BY LineAndSpace
<1>2. SubSeq(str, 3, L) = b /\ b \in Seq(Symbols)
  BY <1>1, RestOfLine
<1>3. ASSUME NEW p \in 1 .. L
      PROVE  SubSeq(str, p, p) = <<line[p]>> /\ <<line[p]>> \in Seq(Symbols)
  <2>1. str[p] = line[p] /\ p \in 1 .. Len(str)
    BY <1>1
  <2> HIDE DEF str
  <2>2. SubSeq(str, p, p) = <<str[p]>>
    BY <1>1, <2>1, SubSeqOne
  <2> QED
    BY <2>1, <2>2, ElementOfSeq
<1>4. \A p \in 1 .. 3 : p \in 1 .. L
  BY <1>1
<1>5. SubSeq(str, 1, 1) = a /\ a \in Seq(Symbols)
  BY <1>3, <1>4
<1> HIDE DEF str, L, a, b
<1>6. PICK f : Stands(str, f, 0, <<>>, 1, {}) /\ Words(str) = f[Len(str) + 1]
  BY <1>1, NoWordYet
<1>7. Stands(str, f, 1, <<a>>, 3, {2})
  <2>1. WordAt(str, 1, {}, 1)
    BY <1>1 DEF WordAt
  <2>2. Stands(str, f, 0 + 1, Append(<<>>, a), 1 + 2, {} \cup {1 + 1})
    BY <1>5, <1>6, <2>1, OneMoreWord
  <2>3. Append(<<>>, a) = <<a>>
    BY <1>5
  <2>4. 0 + 1 = 1 /\ 1 + 2 = 3
    BY <1>1
  <2>5. {} \cup {1 + 1} = {2}
    BY <1>1
  <2> QED
    BY <2>2, <2>3, <2>4, <2>5
<1>8. Stands(str, f, 2, <<a, b>>, L + 2, {2, L + 1})
  <2>1. WordAt(str, 3, {2}, L)
    BY <1>1 DEF WordAt
  <2>2. Stands(str, f, 1 + 1, Append(<<a>>, b), L + 2, {2} \cup {L + 1})
    BY <1>2, <1>7, <2>1, OneMoreWord
  <2>3. Append(<<a>>, b) = <<a, b>>
    BY <1>5, <1>2, AppendOne
  <2>4. 1 + 1 = 2 /\ L + 2 = L + 2
    BY <1>1
  <2>5. {2} \cup {L + 1} = {2, L + 1}
    BY <1>1
  <2> QED
    BY <2>2, <2>3, <2>4, <2>5
<1>9. 2 <= Len(str) + 1 /\ L + 2 = Len(str) + 1
  BY <1>1
<1>10. f[Len(str) + 1] = Scan(<<a, b>>, L + 2, {2, L + 1})
  BY <1>8, <1>9, NoMoreWords
<1>11. Words(str).words = <<a, b>> /\ Words(str).past = FALSE
  BY <1>6, <1>10 DEF Scan
<1> QED
  BY <1>11 DEF str, a, b

LEMMA FourWords ==
  ASSUME NEW line \in Seq(Symbols), Spaces(line, {2, 4, 6}), 7 \in DOMAIN line
  PROVE  /\ Words(Append(line, "SP")).words =
              << <<line[1]>>, <<line[3]>>, <<line[5]>>, NameFrom(line, 7) >>
         /\ Words(Append(line, "SP")).past = FALSE
<1> DEFINE str == Append(line, "SP")
           L   == Len(line)
           a   == <<line[1]>>
           b   == <<line[3]>>
           d   == <<line[5]>>
           e   == NameFrom(line, 7)
<1>1. /\ str \in Seq(Symbols) /\ Len(str) = L + 1 /\ str[L + 1] = "SP"
      /\ \A p \in 1 .. L : str[p] = line[p] /\ (line[p] = "SP" <=> p \in {2, 4, 6})
      /\ L \in Nat /\ L >= 7
  BY LineAndSpace
<1>2. SubSeq(str, 7, L) = e /\ e \in Seq(Symbols)
  BY <1>1, RestOfLine
<1>3. ASSUME NEW p \in 1 .. L
      PROVE  SubSeq(str, p, p) = <<line[p]>> /\ <<line[p]>> \in Seq(Symbols)
  <2>1. str[p] = line[p] /\ p \in 1 .. Len(str)
    BY <1>1
  <2> HIDE DEF str
  <2>2. SubSeq(str, p, p) = <<str[p]>>
    BY <1>1, <2>1, SubSeqOne
  <2> QED
    BY <2>1, <2>2, ElementOfSeq
<1>4. \A p \in 1 .. 7 : p \in 1 .. L
  BY <1>1
<1>5. SubSeq(str, 1, 1) = a /\ a \in Seq(Symbols)
  BY <1>3, <1>4
<1>6. SubSeq(str, 3, 3) = b /\ b \in Seq(Symbols)
  BY <1>3, <1>4
<1>7. SubSeq(str, 5, 5) = d /\ d \in Seq(Symbols)
  BY <1>3, <1>4
<1> HIDE DEF str, L, a, b, d, e
<1>8. PICK f : Stands(str, f, 0, <<>>, 1, {}) /\ Words(str) = f[Len(str) + 1]
  BY <1>1, NoWordYet
<1>9. Stands(str, f, 1, <<a>>, 3, {2})
  <2>1. WordAt(str, 1, {}, 1)
    BY <1>1 DEF WordAt
  <2>2. Stands(str, f, 0 + 1, Append(<<>>, a), 1 + 2, {} \cup {1 + 1})
    BY <1>5, <1>8, <2>1, OneMoreWord
  <2>3. Append(<<>>, a) = <<a>>
    BY <1>5
  <2>4. 0 + 1 = 1 /\ 1 + 2 = 3
    BY <1>1
  <2>5. {} \cup {1 + 1} = {2}
    BY <1>1
  <2> QED
    BY <2>2, <2>3, <2>4, <2>5
<1>10. Stands(str, f, 2, <<a, b>>, 5, {2, 4})
  <2>1. WordAt(str, 3, {2}, 3)
    BY <1>1 DEF WordAt
  <2>2. Stands(str, f, 1 + 1, Append(<<a>>, b), 3 + 2, {2} \cup {3 + 1})
    BY <1>6, <1>9, <2>1, OneMoreWord
  <2>3. Append(<<a>>, b) = <<a, b>>
    BY <1>5, <1>6, AppendOne
  <2>4. 1 + 1 = 2 /\ 3 + 2 = 5
    BY <1>1
  <2>5. {2} \cup {3 + 1} = {2, 4}
    BY <1>1
  <2> QED
    BY <2>2, <2>3, <2>4, <2>5
<1>11. Stands(str, f, 3, <<a, b, d>>, 7, {2, 4, 6})
  <2>1. WordAt(str, 5, {2, 4}, 5)
    BY <1>1 DEF WordAt
  <2>2. Stands(str, f, 2 + 1, Append(<<a, b>>, d), 5 + 2, {2, 4} \cup {5 + 1})
    BY <1>7, <1>10, <2>1, OneMoreWord
  <2>3. Append(<<a, b>>, d) = <<a, b, d>>
    BY <1>5, <1>6, <1>7, AppendTwo
  <2>4. 2 + 1 = 3 /\ 5 + 2 = 7
    BY <1>1
  <2>5. {2, 4} \cup {5 + 1} = {2, 4, 6}
    BY <1>1
  <2> QED
    BY <2>2, <2>3, <2>4, <2>5
<1>12. Stands(str, f, 4, <<a, b, d, e>>, L + 2, {2, 4, 6, L + 1})
  <2>1. WordAt(str, 7, {2, 4, 6}, L)
    BY <1>1 DEF WordAt
  <2>2. Stands(str, f, 3 + 1, Append(<<a, b, d>>, e), L + 2, {2, 4, 6} \cup {L + 1})
    BY <1>2, <1>11, <2>1, OneMoreWord
  <2>3. Append(<<a, b, d>>, e) = <<a, b, d, e>>
    BY <1>5, <1>6, <1>7, <1>2, AppendThree
  <2>4. 3 + 1 = 4 /\ L + 2 = L + 2
    BY <1>1
  <2>5. {2, 4, 6} \cup {L + 1} = {2, 4, 6, L + 1}
    BY <1>1
  <2> QED
    BY <2>2, <2>3, <2>4, <2>5
<1>13. 4 <= Len(str) + 1 /\ L + 2 = Len(str) + 1
  BY <1>1
<1>14. f[Len(str) + 1] = Scan(<<a, b, d, e>>, L + 2, {2, 4, 6, L + 1})
  BY <1>12, <1>13, NoMoreWords
<1>15. Words(str).words = <<a, b, d, e>> /\ Words(str).past = FALSE
  BY <1>8, <1>14 DEF Scan
<1> QED
  BY <1>15 DEF str, a, b, d, e

(***************************************************************************)
(* Lines one after the other.                                              *)
(***************************************************************************)
LineEnds(s) == Cardinality(Positions(s, "LF"))

LEMMA PositionsFinite ==
  ASSUME NEW S, NEW s \in Seq(S), NEW x
  PROVE  IsFiniteSet(Positions(s, x)) /\ Cardinality(Positions(s, x)) \in Nat
<1>1. Positions(s, x) \in SUBSET (1 .. Len(s)) /\ Len(s) \in Int /\ 1 \in Int
  BY LenProperties DEF Positions
<1>2. IsFiniteSet(1 .. Len(s))
  BY <1>1, FS_Interval
<1>3. IsFiniteSet(Positions(s, x))
  BY <1>1, <1>2, FS_Subset
<1> QED
  BY <1>3, FS_CardinalityType

LEMMA PositionsConcat ==
  ASSUME NEW S, NEW a \in Seq(S), NEW b \in Seq(S), NEW x
  PROVE  Cardinality(Positions(a \o b, x))
           = Cardinality(Positions(a, x)) + Cardinality(Positions(b, x))
<1> DEFINE n == Len(a)
           m == Len(b)
           P == Positions(a, x)
           Q == Positions(b, x)
           R == {n + q : q \in Q}
           ab == a \o b
<1>1. /\ n \in Nat /\ m \in Nat
      /\ DOMAIN a = 1 .. n /\ DOMAIN b = 1 .. m /\ DOMAIN ab = 1 .. n + m
      /\ \A i \in 1 .. n : ab[i] = a[i]
      /\ \A i \in 1 .. m : ab[n + i] = b[i]
  BY ConcatProperties, LenProperties
<1> HIDE DEF ab, n, m
<1>2. P = {i \in 1 .. n : a[i] = x} /\ Q = {i \in 1 .. m : b[i] = x}
  BY <1>1 DEF Positions
<1>3. IsFiniteSet(P) /\ IsFiniteSet(Q) /\ Cardinality(P) \in Nat /\ Cardinality(Q) \in Nat
  BY PositionsFinite
<1> HIDE DEF P, Q
<1>4. Positions(ab, x) = P \cup R
  <2>1. ASSUME NEW i \in 1 .. n + m, ab[i] = x PROVE i \in P \cup R
    <3>1. CASE i \in 1 .. n
      BY <1>1, <1>2, <2>1, <3>1
    <3>2. CASE i \notin 1 .. n
      <4>1. i - n \in 1 .. m /\ n + (i - n) = i
        BY <1>1, <3>2
      <4>2. i - n \in Q
        BY <1>1, <1>2, <2>1, <4>1
      <4> QED
        BY <4>1, <4>2
    <3> QED
      BY <3>1, <3>2
  <2>2. ASSUME NEW i \in P PROVE i \in 1 .. n + m /\ ab[i] = x
    BY <1>1, <1>2
  <2>3. ASSUME NEW q \in Q PROVE n + q \in 1 .. n + m /\ ab[n + q] = x
    BY <1>1, <1>2
  <2> QED
    BY <1>1, <2>1, <2>2, <2>3 DEF Positions
<1>5. P \cap R = {}
  BY <1>1, <1>2
<1>6. IsFiniteSet(R) /\ Cardinality(R) = Cardinality(Q)
  <2> DEFINE f == [q \in Q |-> n + q]
  <2>1. f \in Bijection(Q, R)
    <3>1. \A q \in Q : q \in Nat
      BY <1>2
    <3> QED
      BY <1>1, <3>1 DEF Bijection, Injection, Surjection, IsInjective
  <2>2. ExistsBijection(Q, R)
    BY <2>1 DEF ExistsBijection
  <2> QED
    BY <1>3, <2>2, FS_Bijection
<1>7. Cardinality(P \cap R) = 0
  BY <1>5, FS_EmptySet
<1>8. Cardinality(P \cup R) = Cardinality(P) + Cardinality(R) - 0
  BY <1>3, <1>6, <1>7, FS_Union
<1>9. Cardinality(Positions(ab, x)) = Cardinality(P) + Cardinality(Q)
  BY <1>3, <1>4, <1>6, <1>8
<1> QED
  BY <1>9 DEF ab, P, Q

LEMMA LineEndType == <<"CR", "LF">> \in Seq(Symbols)
  BY LineAssumption

LEMMA OneLineEnd ==
  ASSUME NEW line \in Seq(Symbols), Positions(line, "LF") = {}
  PROVE  LineEnds(line \o <<"CR", "LF">>) = 1
<1>1. LineEnds(line \o <<"CR", "LF">>)
        = Cardinality(Positions(line, "LF")) + Cardinality(Positions(<<"CR", "LF">>, "LF"))
  BY LineEndType, PositionsConcat DEF LineEnds
<1>2. Positions(<<"CR", "LF">>, "LF") = {2}
  BY DEF Positions
<1>3. Cardinality(Positions(<<"CR", "LF">>, "LF")) = 1
  BY <1>2, FS_Singleton
<1>4. Cardinality(Positions(line, "LF")) = 0
  BY FS_EmptySet
<1> QED
  BY <1>1, <1>3, <1>4

(* What a client has sent when it sent the lines ls.                       *)
Sent(ls) == FlattenSeq([k \in 1 .. Len(ls) |-> ls[k] \o <<"CR", "LF">>])

LEMMA SentEmpty == Sent(<<>>) = <<>>
<1>1. [k \in 1 .. Len(<<>>) |-> <<>>[k] \o <<"CR", "LF">>] = <<>>
  OBVIOUS
<1> QED
  BY <1>1, FlattenEmpty DEF Sent

LEMMA SentParts ==
  ASSUME NEW ls \in Seq(Seq(Symbols))
  PROVE  [k \in 1 .. Len(ls) |-> ls[k] \o <<"CR", "LF">>] \in Seq(Seq(Symbols))
<1> DEFINE s == [k \in 1 .. Len(ls) |-> ls[k] \o <<"CR", "LF">>]
<1>1. ASSUME NEW k \in 1 .. Len(ls) PROVE ls[k] \o <<"CR", "LF">> \in Seq(Symbols)
  BY LineEndType, ElementOfSeq, ConcatProperties
<1>2. Len(ls) \in Nat
  BY LenProperties
<1> QED
  BY <1>1, <1>2

LEMMA SentType ==
  ASSUME NEW ls \in Seq(Seq(Symbols))
  PROVE  Sent(ls) \in Seq(Symbols)
  BY SentParts, FlattenType DEF Sent

LEMMA SentAppend ==
  ASSUME NEW ls \in Seq(Seq(Symbols)), NEW line \in Seq(Symbols)
  PROVE  Sent(Append(ls, line)) = Sent(ls) \o (line \o <<"CR", "LF">>)
<1> DEFINE s == [k \in 1 .. Len(ls) |-> ls[k] \o <<"CR", "LF">>]
           u == Append(ls, line)
           t == [k \in 1 .. Len(u) |-> u[k] \o <<"CR", "LF">>]
           m == line \o <<"CR", "LF">>
           n == Len(ls)
<1>1. /\ u \in Seq(Seq(Symbols)) /\ Len(u) = n + 1 /\ n \in Nat
      /\ \A i \in 1 .. n : u[i] = ls[i]
      /\ u[n + 1] = line
  BY AppendProperties, LenProperties
<1>2. s \in Seq(Seq(Symbols)) /\ Len(s) = n /\ m \in Seq(Symbols)
  <2>1. s \in Seq(Seq(Symbols))
    BY SentParts
  <2>2. Len(s) = n
    BY <1>1
  <2>3. m \in Seq(Symbols)
    BY LineEndType, ConcatProperties
  <2> QED
    BY <2>1, <2>2, <2>3
<1> HIDE DEF u
<1>3. t \in Seq(Seq(Symbols)) /\ Len(t) = n + 1
  BY <1>1, SentParts
<1>4. ASSUME NEW i \in 1 .. n PROVE t[i] = s[i]
  <2>1. i \in 1 .. Len(u) /\ u[i] = ls[i]
    BY <1>1
  <2>2. t[i] = u[i] \o <<"CR", "LF">> /\ s[i] = ls[i] \o <<"CR", "LF">>
    BY <2>1
  <2> QED
    BY <2>1, <2>2
<1>5. t[n + 1] = m
  <2>1. n + 1 \in 1 .. Len(u)
    BY <1>1
  <2>2. t[n + 1] = u[n + 1] \o <<"CR", "LF">>
    BY <2>1
  <2> QED
    BY <1>1, <2>2
<1>6. FlattenSeq(t) = Sent(u) /\ FlattenSeq(s) = Sent(ls)
  BY DEF Sent
<1> HIDE DEF s, t, m
<1> DEFINE v == Append(s, m)
<1>7. /\ v \in Seq(Seq(Symbols)) /\ Len(v) = n + 1
      /\ \A i \in 1 .. n : v[i] = s[i]
      /\ v[n + 1] = m
  BY <1>2, AppendProperties
<1> HIDE DEF v
<1>8. \A i \in 1 .. n + 1 : i \in 1 .. n \/ i = n + 1
  BY <1>1
<1>9. \A i \in 1 .. Len(t) : t[i] = v[i]
  BY <1>3, <1>4, <1>5, <1>7, <1>8
<1>10. t = v
  BY <1>3, <1>7, <1>9, SeqEqual
<1>11. FlattenSeq(v) = FlattenSeq(s) \o m
  BY <1>2, FlattenAppend DEF v
<1> QED
  BY <1>6, <1>10, <1>11 DEF u, m

LEMMA SentTail ==
  ASSUME NEW ls \in Seq(Seq(Symbols)), ls # <<>>
  PROVE  Sent(ls) = (Head(ls) \o <<"CR", "LF">>) \o Sent(Tail(ls))
<1> DEFINE s == [k \in 1 .. Len(ls) |-> ls[k] \o <<"CR", "LF">>]
           u == Tail(ls)
           t == [k \in 1 .. Len(u) |-> u[k] \o <<"CR", "LF">>]
           n == Len(ls)
<1>1. /\ u \in Seq(Seq(Symbols)) /\ Len(u) = n - 1 /\ n \in Nat \ {0}
      /\ \A i \in 1 .. n - 1 : u[i] = ls[i + 1]
      /\ Head(ls) = ls[1]
  BY HeadTailProperties, LenProperties
<1>2. s \in Seq(Seq(Symbols)) /\ Len(s) = n /\ s # <<>> /\ s[1] = Head(ls) \o <<"CR", "LF">>
  <2>1. s \in Seq(Seq(Symbols))
    BY SentParts
  <2>2. Len(s) = n
    BY <1>1
  <2>3. 1 \in 1 .. Len(ls)
    BY <1>1
  <2>4. s[1] = ls[1] \o <<"CR", "LF">>
    BY <2>3
  <2> HIDE DEF s
  <2>5. s # <<>>
    BY <1>1, <2>2
  <2> QED
    BY <1>1, <2>1, <2>2, <2>4, <2>5
<1> HIDE DEF u
<1>3. t \in Seq(Seq(Symbols)) /\ Len(t) = n - 1
  BY <1>1, SentParts
<1>4. ASSUME NEW i \in 1 .. n - 1 PROVE t[i] = s[i + 1]
  <2>1. i \in 1 .. Len(u) /\ i + 1 \in 1 .. Len(ls) /\ u[i] = ls[i + 1]
    BY <1>1
  <2>2. t[i] = u[i] \o <<"CR", "LF">> /\ s[i + 1] = ls[i + 1] \o <<"CR", "LF">>
    BY <2>1
  <2> QED
    BY <2>1, <2>2
<1>5. FlattenSeq(t) = Sent(u) /\ FlattenSeq(s) = Sent(ls)
  BY DEF Sent
<1> HIDE DEF s, t
<1>6. /\ Tail(s) \in Seq(Seq(Symbols)) /\ Len(Tail(s)) = n - 1
      /\ \A i \in 1 .. n - 1 : Tail(s)[i] = s[i + 1]
      /\ Head(s) = s[1]
  BY <1>2, HeadTailProperties
<1>7. Tail(s) = t
  BY <1>3, <1>4, <1>6, SeqEqual
<1>8. FlattenSeq(s) = Head(s) \o FlattenSeq(Tail(s))
  BY <1>2, FlattenTail
<1> QED
  BY <1>2, <1>5, <1>6, <1>7, <1>8 DEF u

(***************************************************************************)
(* readline().                                                             *)
(***************************************************************************)
LEMMA StoredType == MaxStored \in Nat /\ MaxStored > 0
  BY LineLimit, LineAssumption

LEMMA ReadsLine ==
  ASSUME NEW line \in Seq(Symbols), Positions(line, "CR") = {}, Len(line) < MaxStored,
         NEW rest \in Seq(Symbols), NEW eof
  PROVE  readline((line \o <<"CR", "LF">>) \o rest, eof) = {Line(Append(line, "SP"), rest)}
<1> DEFINE n == Len(line)
           l == line \o <<"CR", "LF">>
           s == l \o rest
           p == n + 1
<1>1. /\ l \in Seq(Symbols) /\ Len(l) = n + 2 /\ n \in Nat
      /\ \A i \in 1 .. n : l[i] = line[i]
      /\ l[n + 1] = "CR" /\ l[n + 2] = "LF"
  <2>1. /\ l \in Seq(Symbols) /\ Len(l) = n + Len(<<"CR", "LF">>) /\ n \in Nat
        /\ \A i \in 1 .. n + Len(<<"CR", "LF">>) : l[i] =
             IF i <= n THEN line[i] ELSE <<"CR", "LF">>[i - n]
    BY LineEndType, ConcatProperties, LenProperties
  <2>2. Len(<<"CR", "LF">>) = 2
    OBVIOUS
  <2> HIDE DEF l, n
  <2>3. n + 1 \in 1 .. n + 2 /\ n + 2 \in 1 .. n + 2 /\ (n + 1) - n = 1 /\ (n + 2) - n = 2
    BY <2>1
  <2>4. ~(n + 1 <= n) /\ ~(n + 2 <= n)
    BY <2>1
  <2>5. l[n + 1] = <<"CR", "LF">>[1] /\ l[n + 2] = <<"CR", "LF">>[2]
    BY <2>1, <2>2, <2>3, <2>4
  <2>6. \A i \in 1 .. n : l[i] = line[i]
    BY <2>1, <2>2
  <2> QED
    BY <2>1, <2>2, <2>5, <2>6
<1> HIDE DEF l
<1>2. /\ s \in Seq(Symbols) /\ Len(s) = (n + 2) + Len(rest) /\ Len(rest) \in Nat
      /\ \A i \in 1 .. n + 2 : s[i] = l[i]
      /\ \A i \in 1 .. Len(rest) : s[n + 2 + i] = rest[i]
      /\ DOMAIN s = 1 .. Len(s)
  <2>1. /\ s \in Seq(Symbols) /\ Len(s) = Len(l) + Len(rest)
        /\ \A i \in 1 .. Len(l) + Len(rest) : s[i] =
              IF i <= Len(l) THEN l[i] ELSE rest[i - Len(l)]
    BY <1>1, ConcatProperties
  <2>2. Len(rest) \in Nat /\ DOMAIN s = 1 .. Len(s)
    BY <2>1, LenProperties
  <2> HIDE DEF s, n
  <2>3. ASSUME NEW i \in 1 .. n + 2 PROVE s[i] = l[i]
    <3>1. i \in 1 .. Len(l) + Len(rest) /\ i <= Len(l)
      BY <1>1, <2>2
    <3> QED
      BY <2>1, <3>1
  <2>4. ASSUME NEW i \in 1 .. Len(rest) PROVE s[n + 2 + i] = rest[i]
    <3> DEFINE k == n + 2 + i
    <3>1. k \in 1 .. Len(l) + Len(rest) /\ ~(k <= Len(l)) /\ k - Len(l) = i
      BY <1>1, <2>2
    <3> HIDE DEF k
    <3>2. s[k] = rest[k - Len(l)]
      BY <2>1, <3>1
    <3>3. s[k] = rest[i]
      BY <3>1, <3>2
    <3> QED
      BY <3>3 DEF k
  <2> QED
    BY <1>1, <2>1, <2>2, <2>3, <2>4
<1> HIDE DEF s
<1>3. \A i \in 1 .. n : line[i] # "CR"
  BY <1>1 DEF Positions
<1> HIDE DEF n
<1>4. /\ \A i \in 1 .. n : s[i] = line[i] /\ s[i] # "CR"
      /\ s[n + 1] = "CR" /\ s[n + 2] = "LF"
  BY <1>1, <1>2, <1>3
<1>5. IsEnd(s, p)
  <2>1. Before(s, "CR", p - 1)
    BY <1>1, <1>2, <1>4 DEF Before, Positions
  <2>2. p <= MaxStored
    BY <1>1, StoredType DEF n
  <2> QED
    BY <1>4, <2>1, <2>2 DEF IsEnd
<1>6. ASSUME NEW q \in DOMAIN s, IsEnd(s, q) PROVE q = p
  <2>1. q \in 1 .. Len(s) /\ s[q] = "CR" /\ Before(s, "CR", q - 1)
    BY <1>2, <1>6 DEF IsEnd
  <2>2. ~(q <= n)
    BY <1>1, <1>4, <2>1
  <2>3. ~(p <= q - 1)
    BY <1>1, <1>2, <1>4, <2>1 DEF Before, Positions
  <2> QED
    BY <1>1, <2>1, <2>2, <2>3
<1>7. p \in DOMAIN s
  BY <1>1, <1>2
<1>8. (CHOOSE q \in DOMAIN s : IsEnd(s, q)) = p
  BY <1>5, <1>6, <1>7
<1>9. p < Len(s) /\ s[p + 1] = "LF"
  <2>1. p + 1 = n + 2
    BY <1>1
  <2> QED
    BY <1>1, <1>2, <1>4, <2>1
<1>10. readline(s, eof) = {Line(Append(SubSeq(s, 1, p - 1), "SP"), From(s, p + 2))}
  BY <1>5, <1>7, <1>8, <1>9 DEF readline
<1>11. SubSeq(s, 1, p - 1) = line
  <2>1. p - 1 = n /\ n \in Int /\ 1 \in Int
    BY <1>1
  <2>2. \A i \in 1 .. n : s[i] \in Symbols
    BY <1>4, ElementOfSeq DEF n
  <2>3. /\ SubSeq(s, 1, n) \in Seq(Symbols)
        /\ Len(SubSeq(s, 1, n)) = IF 1 <= n THEN n - 1 + 1 ELSE 0
        /\ \A i \in 1 .. n - 1 + 1 : SubSeq(s, 1, n)[i] = s[1 + i - 1]
    BY <2>1, <2>2, SubSeqProperties
  <2> DEFINE u == SubSeq(s, 1, n)
  <2> HIDE DEF u
  <2>4. u \in Seq(Symbols) /\ Len(u) = n
    BY <1>1, <2>3 DEF u
  <2>5. ASSUME NEW i \in 1 .. n PROVE u[i] = line[i]
    <3>1. i \in 1 .. n - 1 + 1 /\ 1 + i - 1 = i
      BY <1>1
    <3> QED
      BY <1>4, <2>3, <3>1 DEF u
  <2>6. u = line
    BY <2>4, <2>5, SeqEqual DEF n
  <2> QED
    BY <2>1, <2>6 DEF u
<1>12. From(s, p + 2) = rest
  <2> DEFINE a == p + 2
             e == Len(s)
             r == Len(rest)
             u == SubSeq(s, a, e)
  <2>1. a = n + 3 /\ a \in Int /\ e \in Int /\ e = n + 2 + r /\ r \in Nat
    BY <1>1, <1>2
  <2>2. \A i \in a .. e : s[i] \in Symbols
    BY <1>1, <1>2, <2>1, ElementOfSeq
  <2> HIDE DEF a, e, r
  <2>3. /\ u \in Seq(Symbols)
        /\ Len(u) = IF a <= e THEN e - a + 1 ELSE 0
        /\ \A i \in 1 .. e - a + 1 : u[i] = s[a + i - 1]
    BY <2>1, <2>2, SubSeqProperties
  <2> HIDE DEF u
  <2>4. Len(u) = r
    BY <1>1, <2>1, <2>3
  <2>5. ASSUME NEW i \in 1 .. r PROVE u[i] = rest[i]
    <3>1. i \in 1 .. e - a + 1 /\ a + i - 1 = n + 2 + i
      BY <1>1, <2>1
    <3> QED
      BY <1>2, <2>3, <3>1 DEF r
  <2>6. u = rest
    BY <2>3, <2>4, <2>5, SeqEqual DEF r
  <2> QED
    BY <2>6 DEF u, a, e, From
<1> QED
  BY <1>10, <1>11, <1>12 DEF s, l

LEMMA ReadsNothing ==
  ASSUME NEW eof
  PROVE  readline(<<>>, eof) = IF eof THEN {NULL} ELSE {}
<1>1. ~\E p \in DOMAIN <<>> : IsEnd(<<>>, p)
  OBVIOUS
<1>2. ~(Len(<<>>) > MaxStored)
  BY StoredType
<1> QED
  BY <1>1, <1>2 DEF readline

LEMMA ReadType ==
  ASSUME NEW s \in Seq(Symbols), NEW eof, NEW r \in readline(s, eof)
  PROVE  r.ok \in BOOLEAN /\ r.str \in Seq(Symbols) /\ r.rest \in Seq(Symbols)
<1>1. NULL.ok \in BOOLEAN /\ NULL.str \in Seq(Symbols) /\ NULL.rest \in Seq(Symbols)
  BY EmptySeq DEF NULL
<1>2. ASSUME NEW u \in Seq(Symbols), NEW t \in Seq(Symbols)
      PROVE  /\ Line(u, t).ok \in BOOLEAN /\ Line(u, t).str \in Seq(Symbols)
             /\ Line(u, t).rest \in Seq(Symbols)
  BY DEF Line
<1>3. /\ Len(s) \in Nat /\ DOMAIN s = 1 .. Len(s)
      /\ \A i \in 1 .. Len(s) : s[i] \in Symbols
  BY LenProperties, ElementOfSeq
<1>4. ASSUME NEW a \in Int, 1 <= a PROVE From(s, a) \in Seq(Symbols)
  BY <1>3, <1>4, SubSeqProperties DEF From
<1>5. ASSUME NEW a \in Int, a <= Len(s) PROVE SubSeq(s, 1, a) \in Seq(Symbols)
  BY <1>3, <1>5, SubSeqProperties
<1>6. MaxStored \in Nat
  BY StoredType
<1>7. CASE \E p \in DOMAIN s : IsEnd(s, p)
  <2> DEFINE p == CHOOSE p \in DOMAIN s : IsEnd(s, p)
  <2>1. p \in 1 .. Len(s)
    BY <1>3, <1>7
  <2>2. r \in IF p < Len(s)
              THEN IF s[p + 1] = "LF"
                   THEN {Line(Append(SubSeq(s, 1, p - 1), "SP"), From(s, p + 2))}
                   ELSE {NULL}
              ELSE IF eof THEN {NULL} ELSE {}
    BY <1>7 DEF readline
  <2> HIDE DEF p
  <2>3. SubSeq(s, 1, p - 1) \in Seq(Symbols) /\ From(s, p + 2) \in Seq(Symbols)
    BY <1>3, <1>4, <1>5, <2>1
  <2>4. Append(SubSeq(s, 1, p - 1), "SP") \in Seq(Symbols)
    BY <2>3, AppendProperties, LineAssumption
  <2>5. r = NULL \/ r = Line(Append(SubSeq(s, 1, p - 1), "SP"), From(s, p + 2))
    BY <2>2
  <2> QED
    BY <1>1, <1>2, <2>3, <2>4, <2>5
<1>8. CASE ~\E p \in DOMAIN s : IsEnd(s, p)
  <2>1. r \in IF Len(s) > MaxStored
              THEN {Line(SubSeq(s, 1, MaxStored), From(s, MaxStored + 2))}
              ELSE IF ~eof THEN {} ELSE IF s = <<>> THEN {NULL} ELSE {Line(s, <<>>)}
    BY <1>8 DEF readline
  <2>2. CASE Len(s) > MaxStored
    <3>1. SubSeq(s, 1, MaxStored) \in Seq(Symbols) /\ From(s, MaxStored + 2) \in Seq(Symbols)
      BY <1>3, <1>4, <1>5, <1>6, <2>2
    <3> QED
      BY <1>2, <2>1, <2>2, <3>1
  <2>3. CASE ~(Len(s) > MaxStored)
    <3>1. r = NULL \/ r = Line(s, <<>>)
      BY <2>1, <2>3
    <3>2. <<>> \in Seq(Symbols)
      BY EmptySeq
    <3> QED
      BY <1>1, <1>2, <3>1, <3>2
  <2> QED
    BY <2>2, <2>3
<1> QED
  BY <1>7, <1>8

(***************************************************************************)
(* What the server makes of a line of libcgym.                             *)
(***************************************************************************)
Arguments(line) ==
  CASE line[1] = "QUIT" -> <<>>
    [] line[1] \in {"SIZE", "LIST"} -> <<NameFrom(line, 3)>>
    [] line[1] = "GET" -> << <<line[3]>>, <<line[5]>>, NameFrom(line, 7) >>

(* The words of a line are its command and arguments.                      *)
AreWords(words, command, args) ==
  /\ words \in Seq(Seq(Symbols)) /\ Len(words) \in 1 .. 4
  /\ words[1] = command /\ SubSeq(words, 2, Len(words)) = args

LEMMA WordsOfTwo ==
  ASSUME NEW a \in Seq(Symbols), NEW b \in Seq(Symbols)
  PROVE  AreWords(<<a, b>>, a, <<b>>)
<1> DEFINE w == <<a, b>>
           t == SubSeq(w, 2, 2)
<1>1. w \in Seq(Seq(Symbols)) /\ Len(w) = 2 /\ w[1] = a /\ w[2] = b
  OBVIOUS
<1> HIDE DEF w
<1>2. t = <<w[2]>>
  <2>1. 2 \in 1 .. Len(w)
    BY <1>1
  <2> QED
    BY <1>1, <2>1, SubSeqOne
<1> QED
  BY <1>1, <1>2 DEF AreWords, w

LEMMA WordsOfFour ==
  ASSUME NEW a \in Seq(Symbols), NEW b \in Seq(Symbols),
         NEW d \in Seq(Symbols), NEW e \in Seq(Symbols)
  PROVE  AreWords(<<a, b, d, e>>, a, <<b, d, e>>)
<1> DEFINE w == <<a, b, d, e>>
           t == SubSeq(w, 2, 4)
           u == <<b, d, e>>
<1>1. w \in Seq(Seq(Symbols)) /\ Len(w) = 4 /\ w[1] = a /\ w[2] = b /\ w[3] = d /\ w[4] = e
  OBVIOUS
<1>2. u \in Seq(Seq(Symbols)) /\ Len(u) = 3 /\ u[1] = b /\ u[2] = d /\ u[3] = e
  OBVIOUS
<1> HIDE DEF w, u
<1>3. \A i \in 2 .. 4 : w[i] \in Seq(Symbols)
  BY <1>1, ElementOfSeq
<1>4. /\ t \in Seq(Seq(Symbols)) /\ Len(t) = 4 - 2 + 1
      /\ \A i \in 1 .. 4 - 2 + 1 : t[i] = w[2 + i - 1]
  BY <1>3, SubSeqProperties
<1> HIDE DEF t
<1>5. Len(t) = 3 /\ t[1] = w[2] /\ t[2] = w[3] /\ t[3] = w[4]
  BY <1>4
<1>6. t = u
  <2>1. \A i \in 1 .. 3 : i = 1 \/ i = 2 \/ i = 3
    OBVIOUS
  <2>2. \A i \in 1 .. Len(t) : t[i] = u[i]
    BY <1>1, <1>2, <1>5, <2>1
  <2>3. t \in Seq(Seq(Symbols)) /\ u \in Seq(Seq(Symbols)) /\ Len(t) = Len(u)
    BY <1>2, <1>4, <1>5
  <2> QED
    BY <2>2, <2>3, SeqEqual
<1> QED
  BY <1>1, <1>6 DEF AreWords, w, u, t

LEMMA SpokenWords ==
  ASSUME NEW line \in Seq(Symbols), Speaks(line)
  PROVE  /\ AreWords(Words(Append(line, "SP")).words, <<line[1]>>, Arguments(line))
         /\ Words(Append(line, "SP")).past = FALSE
<1>1. Len(line) \in Nat /\ DOMAIN line = 1 .. Len(line)
  BY LenProperties
<1>2. CASE line = <<"QUIT">>
  <2>1. line[1] = "QUIT" /\ Len(line) = 1
    BY <1>2
  <2>2. "QUIT" \in Symbols
    BY <2>1, ElementOfSeq
  <2>3. Append(line, "SP") = <<"QUIT", "SP">>
    BY <1>2, <2>2, AppendOne, LineAssumption
  <2>4. /\ Words(Append(line, "SP")).words = << <<"QUIT">> >>
        /\ Words(Append(line, "SP")).past = FALSE
    BY <2>2, <2>3, OneWord
  <2>5. Arguments(line) = <<>>
    BY <2>1 DEF Arguments
  <2>6. AreWords(<< <<"QUIT">> >>, <<"QUIT">>, <<>>)
    <3> DEFINE a == <<"QUIT">>
    <3>1. a \in Seq(Symbols)
      BY <2>2
    <3> HIDE DEF a
    <3>2. <<a>> \in Seq(Seq(Symbols)) /\ Len(<<a>>) = 1 /\ <<a>>[1] = a
      BY <3>1
    <3>3. SubSeq(<<a>>, 2, 1) = <<>>
      BY SubSeqEmpty
    <3> QED
      BY <3>2, <3>3 DEF AreWords, a
  <2> QED
    BY <2>1, <2>4, <2>5, <2>6
<1>3. CASE line[1] \in {"SIZE", "LIST"} /\ Spaces(line, {2}) /\ IsName(line, 3)
  <2>1. 3 \in DOMAIN line
    BY <1>3 DEF IsName
  <2>2. /\ Words(Append(line, "SP")).words = << <<line[1]>>, NameFrom(line, 3) >>
        /\ Words(Append(line, "SP")).past = FALSE
    BY <1>3, <2>1, TwoWords
  <2>3. Arguments(line) = <<NameFrom(line, 3)>>
    BY <1>3 DEF Arguments
  <2>4. <<line[1]>> \in Seq(Symbols) /\ NameFrom(line, 3) \in Seq(Symbols)
    BY <1>1, <2>1, ElementOfSeq, RestOfLine
  <2> QED
    BY <2>2, <2>3, <2>4, WordsOfTwo
<1>4. CASE line[1] = "GET" /\ Spaces(line, {2, 4, 6}) /\ IsName(line, 7)
  <2>1. 7 \in DOMAIN line
    BY <1>4 DEF IsName
  <2>2. /\ Words(Append(line, "SP")).words =
             << <<line[1]>>, <<line[3]>>, <<line[5]>>, NameFrom(line, 7) >>
        /\ Words(Append(line, "SP")).past = FALSE
    BY <1>4, <2>1, FourWords
  <2>3. Arguments(line) = << <<line[3]>>, <<line[5]>>, NameFrom(line, 7) >>
    BY <1>4 DEF Arguments
  <2>4. /\ <<line[1]>> \in Seq(Symbols) /\ <<line[3]>> \in Seq(Symbols)
        /\ <<line[5]>> \in Seq(Symbols) /\ NameFrom(line, 7) \in Seq(Symbols)
    BY <1>1, <2>1, ElementOfSeq, RestOfLine
  <2> QED
    BY <2>2, <2>3, <2>4, WordsOfFour
<1> QED
  BY <1>2, <1>3, <1>4 DEF Speaks

(* The four commands, and what is known of each.                           *)
LEMMA Spoken ==
  ASSUME NEW line \in Seq(Symbols), Speaks(line)
  PROVE  \/ /\ line[1] = "QUIT" /\ Arguments(line) = <<>>
            /\ Meaning(line) = Request("quit", <<>>, 0, 0)
         \/ /\ line[1] = "SIZE" /\ IsName(line, 3)
            /\ Arguments(line) = <<NameFrom(line, 3)>>
            /\ Meaning(line) = Request("size", NameFrom(line, 3), 0, 0)
         \/ /\ line[1] = "LIST" /\ IsName(line, 3) /\ ~OneLetter(NameFrom(line, 3))
            /\ Arguments(line) = <<NameFrom(line, 3)>>
            /\ Meaning(line) = Request("list", NameFrom(line, 3), 0, 0)
         \/ /\ line[1] = "GET" /\ IsName(line, 7)
            /\ Numeral(line, 3) /\ Numeral(line, 5)
            /\ Arguments(line) = << <<line[3]>>, <<line[5]>>, NameFrom(line, 7) >>
            /\ Meaning(line) = Request("get", NameFrom(line, 7),
                                       Numerals[line[3]], Numerals[line[5]])
<1>1. CASE line = <<"QUIT">>
  <2>1. line[1] = "QUIT"
    BY <1>1
  <2> QED
    BY <2>1 DEF Arguments, Meaning
<1>2. CASE line[1] = "SIZE" /\ IsName(line, 3)
  BY <1>2 DEF Arguments, Meaning
<1>3. CASE line[1] = "LIST" /\ IsName(line, 3) /\ ~OneLetter(NameFrom(line, 3))
  BY <1>3 DEF Arguments, Meaning
<1>4. CASE line[1] = "GET" /\ IsName(line, 7) /\ Numeral(line, 3) /\ Numeral(line, 5)
  BY <1>4 DEF Arguments, Meaning
<1> QED
  BY <1>1, <1>2, <1>3, <1>4 DEF Speaks

(* A name that starts with "/" and has no two of them in a row.            *)
Proper(name) ==
  /\ name \in Seq(Symbols) /\ name # <<>> /\ name[1] = "/"
  /\ ~\E p \in 1 .. Len(name) - 1 : name[p] = "/" /\ name[p + 1] = "/"

LEMMA ProperName ==
  ASSUME NEW line \in Seq(Symbols), NEW p \in DOMAIN line, line[p] = "/",
         ~\E i \in 1 .. Len(line) - 1 : line[i] = "/" /\ line[i + 1] = "/"
  PROVE  Proper(NameFrom(line, p))
<1> DEFINE n == Len(line)
           m == NameFrom(line, p)
<1>1. n \in Nat /\ p \in 1 .. n
  BY LenProperties
<1>2. \A i \in p .. n : line[i] \in Symbols
  BY <1>1, ElementOfSeq
<1>3. /\ m \in Seq(Symbols) /\ Len(m) = n - p + 1
      /\ \A i \in 1 .. n - p + 1 : m[i] = line[p + i - 1]
  BY <1>1, <1>2, SubSeqProperties DEF NameFrom
<1> HIDE DEF m
<1>4. m[1] = "/"
  <2>1. 1 \in 1 .. n - p + 1 /\ p + 1 - 1 = p
    BY <1>1
  <2> QED
    BY <1>3, <2>1
<1>5. ASSUME NEW i \in 1 .. Len(m) - 1, m[i] = "/", m[i + 1] = "/" PROVE FALSE
  <2> DEFINE k == p + i - 1
  <2>1. /\ i \in 1 .. n - p + 1 /\ i + 1 \in 1 .. n - p + 1
        /\ p + (i + 1) - 1 = k + 1 /\ k \in 1 .. n - 1
    BY <1>1, <1>3
  <2>2. m[i] = line[k] /\ m[i + 1] = line[k + 1]
    BY <1>3, <2>1
  <2> QED
    BY <1>5, <2>1, <2>2
<1>6. m # <<>>
  BY <1>1, <1>3
<1> QED
  BY <1>3, <1>4, <1>5, <1>6 DEF Proper, m

(* A directory is listed under its name, but for the one letter.           *)
LEMMA SlashAgain ==
  ASSUME NEW s \in Seq(Symbols), s # <<>>, s[Len(s)] = "/"
  PROVE  Append(SubSeq(s, 1, Len(s) - 1), "/") = s
<1> DEFINE n == Len(s)
           t == SubSeq(s, 1, n - 1)
           u == Append(t, "/")
<1>1. n \in Nat \ {0} /\ n - 1 \in Int /\ \A i \in 1 .. n - 1 : s[i] \in Symbols
  BY EmptySeq, ElementOfSeq
<1>2. /\ t \in Seq(Symbols) /\ Len(t) = n - 1
      /\ \A i \in 1 .. n - 1 : t[i] = s[i]
  <2>1. /\ t \in Seq(Symbols) /\ Len(t) = IF 1 <= n - 1 THEN n - 1 - 1 + 1 ELSE 0
        /\ \A i \in 1 .. n - 1 - 1 + 1 : t[i] = s[1 + i - 1]
    BY <1>1, SubSeqProperties
  <2> HIDE DEF t, n
  <2>2. Len(t) = n - 1
    BY <1>1, <2>1
  <2>3. ASSUME NEW i \in 1 .. n - 1 PROVE t[i] = s[i]
    <3>1. i \in 1 .. n - 1 - 1 + 1 /\ 1 + i - 1 = i
      BY <1>1
    <3> QED
      BY <2>1, <3>1
  <2> QED
    BY <2>1, <2>2, <2>3
<1> HIDE DEF t
<1>3. /\ u \in Seq(Symbols) /\ Len(u) = (n - 1) + 1
      /\ \A i \in 1 .. n - 1 : u[i] = t[i]
      /\ u[(n - 1) + 1] = "/"
  BY <1>2, AppendProperties, ServerAssumption
<1> HIDE DEF u
<1>4. Len(u) = n /\ (n - 1) + 1 = n /\ \A i \in 1 .. n : i \in 1 .. n - 1 \/ i = n
  BY <1>1, <1>3
<1>5. \A i \in 1 .. n : u[i] = s[i]
  BY <1>2, <1>3, <1>4
<1>6. u = s
  BY <1>3, <1>4, <1>5, SeqEqual
<1> QED
  BY <1>6 DEF u, t

LEMMA ShownUnderItsName ==
  ASSUME NEW name, Proper(name), ~OneLetter(name), NEW base
  PROVE  DirName(name) \o base = Join(Denoted(name), base)
<1> DEFINE n == Len(name)
           root == <<"/">>
           p == LastSlash(name)
           IsLast(q) == name[q] = "/" /\ \A r \in q + 1 .. n : name[r] # "/"
<1>1. /\ name \in Seq(Symbols) /\ name # <<>> /\ name[1] = "/"
      /\ n \in Nat \ {0} /\ DOMAIN name = 1 .. n
  BY EmptySeq, LenProperties DEF Proper
<1>2. root \in Seq(Symbols) /\ Len(root) = 1 /\ root[1] = "/"
  BY ServerAssumption
<1> HIDE DEF root, n
<1>3. p \in 1 .. n /\ IsLast(p)
  <2> DEFINE D == {d \in Nat : n - d \in 1 .. n /\ name[n - d] = "/"}
  <2>1. n - (n - 1) = 1 /\ n - 1 \in Nat /\ 1 \in 1 .. n
    BY <1>1
  <2>2. n - 1 \in D
    BY <1>1, <2>1
  <2>3. PICK d \in D : \A x \in D : d <= x
    BY <2>2, NatLeast
  <2>4. ASSUME NEW r \in n - d + 1 .. n, name[r] = "/" PROVE FALSE
    <3>1. n - r \in Nat /\ n - (n - r) = r /\ r \in 1 .. n /\ n - r < d
      BY <1>1, <2>3, <2>4
    <3>2. n - r \in D
      BY <2>4, <3>1
    <3>3. d <= n - r
      BY <2>3, <3>2
    <3> QED
      BY <1>1, <2>3, <3>1, <3>3
  <2>5. n - d \in 1 .. n /\ IsLast(n - d)
    BY <2>3, <2>4
  <2>6. LastSlash(name) = CHOOSE q \in 1 .. n : IsLast(q)
    BY <1>1 DEF LastSlash, n
  <2> HIDE DEF IsLast
  <2> QED
    BY <2>5, <2>6
<1> HIDE DEF p
<1>4. DirName(name) = IF n - p + 1 > 2 THEN Append(name, "/") ELSE name
  BY DEF DirName, p, n
<1>5. Denoted(name) = IF n > 1 /\ name[n] = "/" THEN SubSeq(name, 1, n - 1) ELSE name
  BY DEF Denoted, n
<1>6. \A d : Join(d, base) = (IF d = root THEN d ELSE Append(d, "/")) \o base
  BY DEF Join, root
<1>7. CASE n = 1
  <2>1. name = root
    BY <1>1, <1>2, <1>7, SeqEqual DEF n
  <2>2. ~(n - p + 1 > 2) /\ ~(n > 1)
    BY <1>3, <1>7
  <2> QED
    BY <1>4, <1>5, <1>6, <2>1, <2>2
<1>8. CASE n > 1 /\ name[n] = "/"
  <2> DEFINE d == SubSeq(name, 1, n - 1)
  <2>1. p = n
    BY <1>1, <1>3, <1>8
  <2>2. Append(d, "/") = name
    BY <1>1, <1>8, SlashAgain DEF n
  <2>3. d # root
    <3> SUFFICES ASSUME d = root PROVE FALSE
      OBVIOUS
    <3>1. \A i \in 1 .. n - 1 : name[i] \in Symbols
      BY <1>1, ElementOfSeq DEF n
    <3>2. Len(d) = IF 1 <= n - 1 THEN n - 1 - 1 + 1 ELSE 0
      BY <1>1, <3>1, SubSeqProperties
    <3>3. n = 2
      <4> HIDE DEF d
      <4>1. 1 <= n - 1 /\ n - 1 - 1 + 1 = n - 1
        BY <1>1, <1>8
      <4>2. Len(d) = n - 1 /\ Len(d) = 1
        BY <1>2, <3>2, <4>1
      <4>3. n - 1 = 1
        BY <4>2
      <4> QED
        BY <1>1, <4>3
    <3>4. 1 \in 1 .. n - 1 /\ 1 + 1 = 2
      BY <3>3
    <3> QED
      BY <1>1, <1>8, <3>3, <3>4 DEF Proper, n
  <2>4. ~(n - p + 1 > 2)
    BY <1>1, <2>1
  <2> HIDE DEF d
  <2>5. DirName(name) = name
    BY <1>4, <2>4
  <2>6. Denoted(name) = d
    BY <1>5, <1>8 DEF d
  <2> QED
    BY <1>6, <2>2, <2>3, <2>5, <2>6
<1>9. CASE n > 1 /\ name[n] # "/"
  <2>1. p # n
    BY <1>3, <1>9
  <2>2. p # n - 1
    BY <1>1, <1>3, <1>9 DEF OneLetter, n
  <2>3. n - p + 1 > 2
    BY <1>1, <1>3, <2>1, <2>2
  <2>4. name # root
    BY <1>2, <1>9 DEF n
  <2>5. DirName(name) = Append(name, "/") /\ Denoted(name) = name
    BY <1>4, <1>5, <1>9, <2>3
  <2> QED
    BY <1>6, <2>4, <2>5
<1> QED
  BY <1>1, <1>7, <1>8, <1>9

(***************************************************************************)
(* What is found in a directory, and what is sent of it.                   *)
(***************************************************************************)
Items == [kind : {"file", "dir"}, name : Seq(Symbols), of : Versions \cup {NoVersion}]

(* What list() may make of a file that changes or cannot be opened.        *)
Mixed == [kind : {"mixed"}, name : Seq(Symbols), of : Versions \cup {NoVersion}]
Shows == Items \cup Mixed

Units == Unit \cup Shows
              \cup [kind : {"mixed"}, of : Versions \cup {NoVersion}, at : Nat]

LEMMA JoinType ==
  ASSUME NEW dir \in Dirs, NEW base \in Seq(Symbols)
  PROVE  Join(dir, base) \in Seq(Symbols)
<1>1. dir \in Seq(Symbols) /\ "/" \in Symbols
  BY ServerAssumption
<1>2. Append(dir, "/") \in Seq(Symbols)
  BY <1>1, AppendProperties
<1> QED
  BY <1>1, <1>2, ConcatProperties DEF Join

LEMMA BasesType ==
  ASSUME NEW dir \in Dirs
  PROVE  /\ ReadDir[dir] \in Seq(Seq(Symbols)) /\ Len(ReadDir[dir]) \in Nat
         /\ \A k \in 1 .. Len(ReadDir[dir]) :
              /\ ReadDir[dir][k] \in Seq(Symbols)
              /\ Join(dir, ReadDir[dir][k]) \in Entries
<1>1. ReadDir[dir] \in Seq(Seq(Symbols)) /\ Len(ReadDir[dir]) \in Nat
  BY LenProperties, ServerAssumption
<1>2. ASSUME NEW k \in 1 .. Len(ReadDir[dir])
      PROVE  ReadDir[dir][k] \in ToSet(ReadDir[dir])
  BY <1>1, LenProperties DEF ToSet
<1>3. \A k \in 1 .. Len(ReadDir[dir]) : Join(dir, ReadDir[dir][k]) \in Entries
  BY <1>2 DEF Entries
<1> QED
  BY <1>1, <1>3, ElementOfSeq

LEMMA ShownType ==
  ASSUME NEW st \in Stores, NEW name \in Entries, NEW shown \in Seq(Symbols)
  PROVE  Shown(st, name, shown) \in Seq(Items)
<1>1. CASE name \in Dirs
  <2>1. DirItem(shown) \in Items
    BY DEF DirItem, Items
  <2> HIDE DEF Items
  <2>2. <<DirItem(shown)>> \in Seq(Items)
    BY <2>1
  <2> QED
    BY <1>1, <2>2 DEF Shown
<1>2. CASE name \notin Dirs
  <2>1. st[name] \in Versions \cup {NoVersion}
    BY <1>2 DEF Stores, FileNames
  <2>2. FileItem(shown, st[name]) \in Items
    BY <2>1 DEF FileItem, Items
  <2>3. <<FileItem(shown, st[name])>> \in Seq(Items) /\ <<>> \in Seq(Items)
    <3> HIDE DEF Items
    <3> QED
      BY <2>2
  <2> QED
    BY <1>2, <2>3 DEF Shown
<1> QED
  BY <1>1, <1>2

(* What is found when the first k entries of dir have been looked at.      *)
Found(st, dir) ==
  LET bases == ReadDir[dir]
      after[k \in 0 .. Len(bases)] ==
        IF k = 0 THEN <<>>
        ELSE LET name == Join(dir, bases[k]) IN Shown(st, name, name) \o after[k - 1]
  IN  after

LEMMA FoundDef ==
  ASSUME NEW st \in Stores, NEW dir \in Dirs
  PROVE  /\ Listing(st, dir) = Found(st, dir)[Len(ReadDir[dir])]
         /\ Found(st, dir)[0] = <<>>
         /\ \A k \in 0 .. Len(ReadDir[dir]) : Found(st, dir)[k] \in Seq(Items)
         /\ \A k \in 1 .. Len(ReadDir[dir]) :
              LET name == Join(dir, ReadDir[dir][k])
              IN  Found(st, dir)[k] = Shown(st, name, name) \o Found(st, dir)[k - 1]
<1> DEFINE N == Len(ReadDir[dir])
           name(k) == Join(dir, ReadDir[dir][k])
           new == [k \in 1 .. N |-> Shown(st, name(k), name(k))]
           g == [x \in Nat \X Seq(Items) |->
                   IF x[1] \in 0 .. N - 1 THEN new[x[1] + 1] \o x[2] ELSE x[2]]
<1>1. N \in Nat
  BY BasesType
<1>2. ASSUME NEW k \in 1 .. N PROVE new[k] \in Seq(Items)
  <2>1. name(k) \in Entries /\ name(k) \in Seq(Symbols)
    BY BasesType, JoinType
  <2> HIDE DEF name
  <2>2. Shown(st, name(k), name(k)) \in Seq(Items)
    BY <2>1, ShownType
  <2> QED
    BY <2>2
<1>3. \A k \in 1 .. N : new[k] = Shown(st, name(k), name(k))
  OBVIOUS
<1> HIDE DEF N, new, name
<1>4. g \in [Nat \X Seq(Items) -> Seq(Items)]
  <2>1. \A i \in 0 .. N - 1 : i + 1 \in 1 .. N
    BY <1>1
  <2>2. \A a \in Seq(Items), i \in 0 .. N - 1 : new[i + 1] \o a \in Seq(Items)
    BY <1>2, <2>1, ConcatProperties
  <2> QED
    BY <2>2
<1>5. ASSUME NEW n \in 0 .. N - 1, NEW a \in Seq(Items)
      PROVE  g[<<n, a>>] = new[n + 1] \o a
  <2>1. n \in Nat
    BY <1>1
  <2> QED
    BY <2>1
<1> HIDE DEF g
<1>6. Steps(Seq(Items), <<>>, g)
  BY <1>4, EmptySeq DEF Steps
<1>7. Iterated(Seq(Items), <<>>, g, 0 .. N)
  BY <1>1, <1>6, SegmentRecursion
<1>8. PICK f \in [0 .. N -> Seq(Items)] :
        f[0] = <<>> /\ \A n \in Nat : n + 1 \in 0 .. N => f[n + 1] = g[<<n, f[n]>>]
  BY <1>7 DEF Iterated
<1>9. ASSUME NEW k \in 1 .. N PROVE f[k] = new[k] \o f[k - 1]
  <2>1. k - 1 \in 0 .. N - 1 /\ k - 1 \in Nat /\ (k - 1) + 1 = k /\ k \in 0 .. N /\ k - 1 \in 0 .. N
    BY <1>1
  <2>2. f[k - 1] \in Seq(Items)
    BY <1>8, <2>1
  <2>3. f[k] = g[<<k - 1, f[k - 1]>>]
    BY <1>8, <2>1
  <2>4. g[<<k - 1, f[k - 1]>>] = new[(k - 1) + 1] \o f[k - 1]
    BY <1>5, <2>1, <2>2
  <2> QED
    BY <2>1, <2>3, <2>4
<1> DEFINE Body(h) == [k \in 0 .. N |-> IF k = 0 THEN <<>>
                                        ELSE Shown(st, name(k), name(k)) \o h[k - 1]]
           Eq(h) == h = Body(h)
           after == CHOOSE h : Eq(h)
<1>10. Eq(f)
  <2>1. ASSUME NEW k \in 0 .. N PROVE f[k] = Body(f)[k]
    <3>1. CASE k = 0
      BY <1>8, <3>1
    <3>2. CASE k # 0
      <4>1. k \in 1 .. N
        BY <1>1, <3>2
      <4> QED
        BY <1>3, <1>9, <3>2, <4>1
    <3> QED
      BY <3>1, <3>2
  <2> QED
    BY <1>8, <2>1
<1>11. Found(st, dir) = after
  BY DEF Found, N, name
<1>12. Listing(st, dir) = after[N]
  BY DEF Listing, N, name
<1>13. Eq(after)
  <2> HIDE DEF Eq
  <2> QED
    BY <1>10
<1> HIDE DEF after
<1>14. 0 \in 0 .. N /\ after[0] = <<>>
  BY <1>1, <1>13
<1>15. ASSUME NEW k \in 1 .. N
       PROVE  k \in 0 .. N /\ after[k] = Shown(st, name(k), name(k)) \o after[k - 1]
  <2>1. k \in 0 .. N /\ k # 0
    BY <1>1
  <2> QED
    BY <1>13, <2>1
<1> DEFINE T == {k \in Nat : k \in 0 .. N => after[k] \in Seq(Items)}
<1>16. Nat \subseteq T
  <2>1. 0 \in T
    BY <1>14, EmptySeq
  <2>2. ASSUME NEW k \in Nat, k \in T PROVE k + 1 \in T
    <3> SUFFICES ASSUME k + 1 \in 0 .. N PROVE after[k + 1] \in Seq(Items)
      OBVIOUS
    <3>1. k \in 0 .. N /\ k + 1 \in 1 .. N /\ (k + 1) - 1 = k
      BY <1>1
    <3>2. after[k] \in Seq(Items) /\ new[k + 1] \in Seq(Items)
      BY <1>2, <2>2, <3>1
    <3>3. after[k + 1] = new[k + 1] \o after[k]
      BY <1>3, <1>15, <3>1
    <3> QED
      BY <3>2, <3>3, ConcatProperties
  <2> HIDE DEF T
  <2> QED
    BY <2>1, <2>2, NatSetInduction
<1>17. \A k \in 0 .. N : after[k] \in Seq(Items)
  BY <1>1, <1>16
<1> QED
  BY <1>11, <1>12, <1>14, <1>15, <1>17 DEF N, name

(* FlattenSeq() of three.                                                  *)
LEMMA FlattenThree ==
  ASSUME NEW S, NEW s \in Seq(Seq(S)), Len(s) = 3
  PROVE  FlattenSeq(s) = (s[1] \o s[2]) \o s[3]
<1> DEFINE a == s[1]
           b == s[2]
           d == s[3]
           t == <<a, b, d>>
<1>1. a \in Seq(S) /\ b \in Seq(S) /\ d \in Seq(S)
  <2>1. 1 \in 1 .. Len(s) /\ 2 \in 1 .. Len(s) /\ 3 \in 1 .. Len(s)
    OBVIOUS
  <2>2. \A i \in 1 .. Len(s) : s[i] \in Seq(S)
    BY ElementOfSeq
  <2> QED
    BY <2>1, <2>2
<1> HIDE DEF a, b, d
<1>2. <<a>> \in Seq(Seq(S)) /\ <<a, b>> \in Seq(Seq(S))
  BY <1>1
<1>3. Append(<<a>>, b) = <<a, b>> /\ Append(<<a, b>>, d) = t
  BY <1>1, AppendOne, AppendTwo
<1>4. FlattenSeq(<<a, b>>) = FlattenSeq(<<a>>) \o b
  BY <1>1, <1>2, <1>3, FlattenAppend
<1>5. FlattenSeq(t) = FlattenSeq(<<a, b>>) \o d
  BY <1>1, <1>2, <1>3, FlattenAppend
<1>6. FlattenSeq(<<a>>) = a
  BY <1>1, FlattenOne
<1>7. s = t
  <2>1. t \in Seq(Seq(S)) /\ Len(t) = 3 /\ t[1] = a /\ t[2] = b /\ t[3] = d
    BY <1>1
  <2>2. \A i \in 1 .. 3 : i = 1 \/ i = 2 \/ i = 3
    OBVIOUS
  <2>3. \A i \in 1 .. Len(t) : t[i] = s[i]
    BY <2>1, <2>2 DEF a, b, d
  <2> HIDE DEF t
  <2> QED
    BY <2>1, <2>3, SeqEqual
<1>8. FlattenSeq(s) = (a \o b) \o d
  BY <1>4, <1>5, <1>6, <1>7
<1> QED
  BY <1>8 DEF a, b, d

(* The messages to be sent.                                                *)
Messages == [msg : Seq(Units) \ {<<>>}, retried : BOOLEAN]
Texts(todo) == [k \in DOMAIN todo |-> todo[k].msg]

LEMMA UnitsType ==
  /\ OkMsg \in Seq(Units) \ {<<>>} /\ ErrMsg \in Seq(Units) \ {<<>>}
  /\ EndMsg \in Seq(Units) \ {<<>>} /\ AckMsg \in Seq(Units) \ {<<>>}
  /\ CRLF \in Units
<1>1. \A w \in {"CGYM", "OK", "ERR", "CRLF"} : Word(w) \in Unit
  BY DEF Word, Unit
<1>2. /\ Word("OK") \in Units /\ Word("ERR") \in Units /\ Word("CGYM") \in Units
      /\ CRLF \in Units
  BY <1>1 DEF CRLF, Units
<1> QED
  BY <1>2 DEF OkMsg, ErrMsg, EndMsg, AckMsg

LEMMA EntryLine ==
  ASSUME NEW v \in Versions, NEW now \in Versions \cup {NoVersion}
  PROVE  /\ EntryOf(v, now) \in Units
         /\ <<EntryOf(v, now), CRLF>> \in Seq(Units) \ {<<>>}
<1>1. ASSUME NEW w \in Versions PROVE Entry(w) \in Units
  BY DEF Entry, Unit, Units
<1>2. [kind |-> "mixed", of |-> now, at |-> SizeOf[v]] \in Units
  BY SockAssumption DEF Units
<1>3. EntryOf(v, now) \in Units
  BY <1>1, <1>2 DEF EntryOf
<1> HIDE DEF Units
<1> QED
  BY <1>3, UnitsType

LEMMA SliceType ==
  ASSUME NEW v \in Versions, NEW from \in Nat, NEW to \in Nat, from < to
  PROVE  Slice(v, from, to) \in Seq(Units) \ {<<>>}
<1> DEFINE byte(k) == [kind |-> "byte", of |-> v, at |-> from + k - 1]
           s == Slice(v, from, to)
           n == to - from
<1>1. ASSUME NEW k \in 1 .. n PROVE byte(k) \in Units
  <2>1. from + k - 1 \in Nat
    OBVIOUS
  <2> QED
    BY <2>1 DEF Unit, Units
<1>2. s = [k \in 1 .. n |-> byte(k)]
  BY DEF Slice
<1>3. n \in Nat /\ n # 0
  OBVIOUS
<1> HIDE DEF s, byte, n
<1>4. s \in [1 .. n -> Units]
  BY <1>1, <1>2
<1>5. s \in Seq(Units) /\ Len(s) = n
  BY <1>3, <1>4
<1> QED
  BY <1>3, <1>5 DEF s

LEMMA ListLineType ==
  ASSUME NEW item \in Shows
  PROVE  ListLine(item) \in Seq(Units) \ {<<>>}
<1>1. item \in Units
  BY DEF Units
<1> QED
  BY <1>1, UnitsType DEF ListLine

-----------------------------------------------------------------------------
Owes(todo) == FlattenSeq(Texts(todo))

LEMMA TextsType ==
  ASSUME NEW todo \in Seq(Messages)
  PROVE  /\ Texts(todo) \in Seq(Seq(Units)) /\ Len(Texts(todo)) = Len(todo)
         /\ \A k \in 1 .. Len(todo) : Texts(todo)[k] = todo[k].msg
<1>1. Len(todo) \in Nat /\ DOMAIN todo = 1 .. Len(todo)
  BY LenProperties
<1>2. ASSUME NEW k \in 1 .. Len(todo) PROVE todo[k].msg \in Seq(Units)
  <2>1. todo[k] \in Messages
    BY ElementOfSeq
  <2> QED
    BY <2>1 DEF Messages
<1> QED
  BY <1>1, <1>2 DEF Texts

LEMMA TextsConcat ==
  ASSUME NEW a \in Seq(Messages), NEW b \in Seq(Messages)
  PROVE  Texts(a \o b) = Texts(a) \o Texts(b)
<1> DEFINE t == a \o b
           x == Texts(a)
           y == Texts(b)
           u == x \o y
           n == Len(a)
           m == Len(b)
<1>1. /\ t \in Seq(Messages) /\ Len(t) = n + m /\ n \in Nat /\ m \in Nat
      /\ \A i \in 1 .. n + m : t[i] = IF i <= n THEN a[i] ELSE b[i - n]
  BY ConcatProperties, LenProperties
<1>2. /\ x \in Seq(Seq(Units)) /\ Len(x) = n
      /\ \A k \in 1 .. n : x[k] = a[k].msg
      /\ y \in Seq(Seq(Units)) /\ Len(y) = m
      /\ \A k \in 1 .. m : y[k] = b[k].msg
  BY TextsType
<1> HIDE DEF t, n, m, x, y
<1>3. /\ u \in Seq(Seq(Units)) /\ Len(u) = n + m
      /\ \A i \in 1 .. n + m : u[i] = IF i <= n THEN x[i] ELSE y[i - n]
  <2>1. /\ u \in Seq(Seq(Units)) /\ Len(u) = Len(x) + Len(y)
        /\ \A i \in 1 .. Len(x) + Len(y) : u[i] = IF i <= Len(x) THEN x[i] ELSE y[i - Len(x)]
    BY <1>2, ConcatProperties
  <2> HIDE DEF u
  <2> QED
    BY <1>2, <2>1
<1> HIDE DEF u
<1>4. /\ Texts(t) \in Seq(Seq(Units)) /\ Len(Texts(t)) = n + m
      /\ \A k \in 1 .. n + m : Texts(t)[k] = t[k].msg
  BY <1>1, TextsType
<1>5. ASSUME NEW i \in 1 .. n + m PROVE Texts(t)[i] = u[i]
  <2>1. CASE i <= n
    <3>1. i \in 1 .. n
      BY <1>1, <2>1
    <3> QED
      BY <1>1, <1>2, <1>3, <1>4, <2>1, <3>1
  <2>2. CASE ~(i <= n)
    <3> DEFINE j == i - n
    <3>1. j \in 1 .. m
      BY <1>1, <2>2
    <3>2. t[i] = b[j] /\ u[i] = y[j]
      BY <1>1, <1>3, <2>2
    <3> HIDE DEF j
    <3> QED
      BY <1>2, <1>4, <3>1, <3>2
  <2> QED
    BY <2>1, <2>2
<1>6. Texts(t) = u
  BY <1>3, <1>4, <1>5, SeqEqual
<1> QED
  BY <1>6 DEF t, u, x, y

LEMMA TextsOne ==
  ASSUME NEW m \in Messages
  PROVE  Texts(<<m>>) = <<m.msg>> /\ <<m>> \in Seq(Messages)
<1> DEFINE s == <<m>>
           t == Texts(s)
           u == <<m.msg>>
<1>1. s \in Seq(Messages) /\ Len(s) = 1 /\ s[1] = m
  OBVIOUS
<1> HIDE DEF s
<1>2. 1 \in 1 .. Len(s)
  BY <1>1
<1>3. t \in Seq(Seq(Units)) /\ Len(t) = 1 /\ t[1] = m.msg
  BY <1>1, <1>2, TextsType
<1>4. u \in Seq(Seq(Units)) /\ Len(u) = 1 /\ u[1] = m.msg
  BY DEF Messages
<1> HIDE DEF t, u
<1>5. t = u
  BY <1>3, <1>4, SeqEqual
<1> QED
  BY <1>1, <1>5 DEF s, t, u

LEMMA OwesEmpty == Owes(<<>>) = <<>>
<1>1. Texts(<<>>) = <<>>
  BY DEF Texts
<1> QED
  BY <1>1, FlattenEmpty DEF Owes

LEMMA OwesType ==
  ASSUME NEW todo \in Seq(Messages)
  PROVE  Owes(todo) \in Seq(Units)
  BY TextsType, FlattenType DEF Owes

LEMMA OwesNext ==
  ASSUME NEW todo \in Seq(Messages), todo # <<>>
  PROVE  Owes(todo) = Head(todo).msg \o Owes(Tail(todo))
<1> DEFINE t == Texts(todo)
           r == Tail(todo)
           n == Len(todo)
<1>1. /\ t \in Seq(Seq(Units)) /\ Len(t) = n
      /\ \A k \in 1 .. n : t[k] = todo[k].msg
  BY TextsType
<1>2. /\ r \in Seq(Messages) /\ Len(r) = n - 1
      /\ \A i \in 1 .. n - 1 : r[i] = todo[i + 1]
      /\ n \in Nat \ {0} /\ Head(todo) = todo[1]
  BY HeadTailProperties, EmptySeq
<1> HIDE DEF t, r, n
<1>3. t # <<>>
  BY <1>1, <1>2
<1>4. /\ Tail(t) \in Seq(Seq(Units)) /\ Len(Tail(t)) = n - 1 /\ Head(t) = t[1]
      /\ \A i \in 1 .. n - 1 : Tail(t)[i] = t[i + 1]
  BY <1>1, <1>3, HeadTailProperties
<1>5. /\ Texts(r) \in Seq(Seq(Units)) /\ Len(Texts(r)) = n - 1
      /\ \A k \in 1 .. n - 1 : Texts(r)[k] = r[k].msg
  BY <1>2, TextsType
<1>6. ASSUME NEW i \in 1 .. n - 1 PROVE Tail(t)[i] = Texts(r)[i]
  <2>1. i + 1 \in 1 .. n
    BY <1>2
  <2> QED
    BY <1>1, <1>2, <1>4, <1>5, <2>1
<1>7. Tail(t) = Texts(r)
  BY <1>4, <1>5, <1>6, SeqEqual
<1>8. Head(t) = Head(todo).msg
  BY <1>1, <1>2, <1>4
<1>9. FlattenSeq(t) = Head(t) \o FlattenSeq(Tail(t))
  BY <1>1, <1>3, FlattenTail
<1> QED
  BY <1>7, <1>8, <1>9 DEF Owes, t, r

LEMMA OwesOne ==
  ASSUME NEW m \in Messages
  PROVE  Owes(<<m>>) = m.msg
<1>1. m.msg \in Seq(Units)
  BY DEF Messages
<1> QED
  BY <1>1, TextsOne, FlattenOne DEF Owes

LEMMA MessageType ==
  ASSUME NEW m \in Seq(Units) \ {<<>>}
  PROVE  /\ Message(m) \in Messages /\ Message(m).msg = m /\ Message(m).retried = TRUE
         /\ Plain(m) \in Messages /\ Plain(m).msg = m
  BY DEF Message, Plain, Messages

(* Three messages, and the last of them is retried.                        *)
LEMMA OwesThree ==
  ASSUME NEW a \in Messages, NEW b \in Messages, NEW d \in Messages, d.retried
  PROVE  /\ <<a, b, d>> \in Seq(Messages) /\ <<a, b, d>> # <<>>
         /\ <<a, b, d>>[Len(<<a, b, d>>)].retried
         /\ Owes(<<a, b, d>>) = (a.msg \o b.msg) \o d.msg
<1> DEFINE s == <<a, b, d>>
           t == Texts(s)
           x == a.msg
           y == b.msg
           z == d.msg
           u == <<x, y, z>>
<1>1. s \in Seq(Messages) /\ Len(s) = 3 /\ s[1] = a /\ s[2] = b /\ s[3] = d
  OBVIOUS
<1>2. x \in Seq(Units) /\ y \in Seq(Units) /\ z \in Seq(Units)
  BY DEF Messages
<1> HIDE DEF x, y, z
<1>3. u \in Seq(Seq(Units)) /\ Len(u) = 3 /\ u[1] = x /\ u[2] = y /\ u[3] = z
  BY <1>2
<1> HIDE DEF s, u
<1>4. FlattenSeq(u) = (x \o y) \o z
  BY <1>3, FlattenThree
<1>5. /\ t \in Seq(Seq(Units)) /\ Len(t) = 3
      /\ t[1] = x /\ t[2] = y /\ t[3] = z
  <2>1. 1 \in 1 .. Len(s) /\ 2 \in 1 .. Len(s) /\ 3 \in 1 .. Len(s)
    BY <1>1
  <2> QED
    BY <1>1, <2>1, TextsType DEF x, y, z
<1> HIDE DEF t
<1>6. t = u
  <2>1. \A i \in 1 .. 3 : i = 1 \/ i = 2 \/ i = 3
    OBVIOUS
  <2>2. \A i \in 1 .. Len(t) : t[i] = u[i]
    BY <1>3, <1>5, <2>1
  <2>3. t \in Seq(Seq(Units)) /\ u \in Seq(Seq(Units)) /\ Len(t) = Len(u)
    BY <1>3, <1>5
  <2> QED
    BY <2>2, <2>3, SeqEqual
<1>7. Owes(s) = (x \o y) \o z
  BY <1>4, <1>6 DEF Owes, t
<1>8. s # <<>> /\ s[Len(s)].retried
  BY <1>1
<1> QED
  BY <1>1, <1>7, <1>8 DEF s, x, y, z

LEMMA OwesList ==
  ASSUME NEW items \in Seq(Shows), NEW todo,
         todo = <<Message(OkMsg)>>
                  \o [k \in DOMAIN items |-> Message(ListLine(items[k]))]
                  \o <<Message(EndMsg)>>
  PROVE  /\ todo \in Seq(Messages) /\ todo # <<>> /\ todo[Len(todo)].retried
         /\ Owes(todo) = ListReply(items)
<1> DEFINE n == Len(items)
           ok == Message(OkMsg)
           end == Message(EndMsg)
           ls == [k \in DOMAIN items |-> ListLine(items[k])]
           ms == [k \in DOMAIN items |-> Message(ListLine(items[k]))]
           first == <<ok>> \o ms
<1>1. n \in Nat /\ DOMAIN items = 1 .. n
  BY LenProperties
<1>2. ASSUME NEW k \in 1 .. n
      PROVE  /\ ListLine(items[k]) \in Seq(Units) \ {<<>>}
             /\ Message(ListLine(items[k])) \in Messages
             /\ Message(ListLine(items[k])).msg = ListLine(items[k])
  BY ElementOfSeq, ListLineType, MessageType
<1>3. /\ ok \in Messages /\ ok.msg = OkMsg
      /\ end \in Messages /\ end.msg = EndMsg /\ end.retried
  BY UnitsType, MessageType
<1> HIDE DEF ok, end, n
<1>4. /\ ls \in Seq(Seq(Units)) /\ Len(ls) = n
      /\ ms \in Seq(Messages) /\ Len(ms) = n
  BY <1>1, <1>2
<1>5. Texts(ms) = ls
  <2>1. ASSUME NEW k \in 1 .. n PROVE ls[k] = Texts(ms)[k]
    <3>1. ls[k] = ListLine(items[k]) /\ ms[k] = Message(ListLine(items[k]))
      BY <1>1
    <3>2. Texts(ms)[k] = ms[k].msg
      <4> HIDE DEF ms
      <4> QED
        BY <1>4, TextsType
    <3> QED
      BY <1>2, <3>1, <3>2
  <2> HIDE DEF ms, ls
  <2>2. Texts(ms) \in Seq(Seq(Units)) /\ Len(Texts(ms)) = n
    BY <1>4, TextsType
  <2> QED
    BY <1>4, <2>1, <2>2, SeqEqual
<1>6. ListReply(items) = (OkMsg \o FlattenSeq(ls)) \o EndMsg
  BY DEF ListReply
<1> HIDE DEF ms, ls
<1>7. <<ok>> \in Seq(Messages) /\ <<end>> \in Seq(Messages)
  BY <1>3
<1>8. first \in Seq(Messages) /\ Texts(first) = <<OkMsg>> \o ls
  BY <1>3, <1>4, <1>5, <1>7, ConcatProperties, TextsConcat, TextsOne
<1>9. todo = first \o <<end>>
  BY DEF ok, ms, end
<1> HIDE DEF first
<1>10. Texts(todo) = Texts(first) \o <<EndMsg>>
  BY <1>3, <1>7, <1>8, <1>9, TextsConcat, TextsOne
<1>11. Texts(first) \in Seq(Seq(Units)) /\ EndMsg \in Seq(Units) /\ OkMsg \in Seq(Units)
  BY <1>8, TextsType, UnitsType
<1>12. Texts(todo) = Append(Texts(first), EndMsg)
  BY <1>10, <1>11, AppendIsConcat
<1>13. FlattenSeq(Texts(todo)) = FlattenSeq(Texts(first)) \o EndMsg
  BY <1>11, <1>12, FlattenAppend
<1>14. FlattenSeq(Texts(first)) = OkMsg \o FlattenSeq(ls)
  BY <1>4, <1>8, <1>11, FlattenCons
<1>15. /\ todo \in Seq(Messages) /\ Len(todo) = Len(first) + 1 /\ Len(first) \in Nat
       /\ todo[Len(first) + 1] = end
  <2>1. todo = Append(first, end)
    BY <1>3, <1>8, <1>9, AppendIsConcat
  <2>2. Append(first, end) \in Seq(Messages) /\ Len(Append(first, end)) = Len(first) + 1
        /\ Append(first, end)[Len(first) + 1] = end
    BY <1>3, <1>8, AppendProperties
  <2>3. Len(first) \in Nat
    BY <1>8, LenProperties
  <2> QED
    BY <2>1, <2>2, <2>3
<1>16. todo # <<>>
  BY <1>15
<1> QED
  BY <1>3, <1>6, <1>13, <1>14, <1>15, <1>16 DEF Owes

(* A reply that starts with OK is not ERR.                                 *)
LEMMA OkIsNotErr ==
  ASSUME NEW a \in Seq(Units), NEW b \in Seq(Units)
  PROVE  (OkMsg \o a) \o b # ErrMsg
<1> DEFINE s == OkMsg \o a
           t == s \o b
<1>1. OkMsg \in Seq(Units) /\ Len(OkMsg) = 2 /\ OkMsg[1] = Word("OK")
  BY UnitsType DEF OkMsg
<1>2. s \in Seq(Units) /\ Len(s) = 2 + Len(a) /\ Len(a) \in Nat /\ s[1] = OkMsg[1]
  <2>1. /\ s \in Seq(Units) /\ Len(s) = Len(OkMsg) + Len(a)
        /\ \A i \in 1 .. Len(OkMsg) + Len(a) :
              s[i] = IF i <= Len(OkMsg) THEN OkMsg[i] ELSE a[i - Len(OkMsg)]
    BY <1>1, ConcatProperties
  <2>2. Len(a) \in Nat
    BY LenProperties
  <2>3. 1 \in 1 .. Len(OkMsg) + Len(a) /\ 1 <= Len(OkMsg)
    BY <1>1, <2>2
  <2> HIDE DEF s
  <2> QED
    BY <1>1, <2>1, <2>2, <2>3
<1> HIDE DEF s
<1>3. t[1] = s[1]
  <2>1. \A i \in 1 .. Len(s) + Len(b) : t[i] = IF i <= Len(s) THEN s[i] ELSE b[i - Len(s)]
    BY <1>2, ConcatProperties
  <2>2. Len(b) \in Nat
    BY LenProperties
  <2>3. 1 \in 1 .. Len(s) + Len(b) /\ 1 <= Len(s)
    BY <1>2, <2>2
  <2> HIDE DEF t
  <2> QED
    BY <2>1, <2>3
<1>4. ErrMsg[1] = Word("ERR") /\ Word("ERR") # Word("OK")
  BY DEF ErrMsg, Word
<1> HIDE DEF t
<1>5. t # ErrMsg
  BY <1>1, <1>2, <1>3, <1>4
<1> QED
  BY <1>5 DEF t, s

(* CgymService has the definitions of CgymFiles under its own names.       *)
LEMMA SameFlatten ==
  ASSUME NEW s PROVE Service!FlattenSeq(s) = FlattenSeq(s)
  BY DEF FlattenSeq, Service!FlattenSeq

LEMMA SameListing ==
  ASSUME NEW st, NEW dir PROVE Service!Listing(st, dir) = Listing(st, dir)
  BY DEF Service!Listing, Listing, Service!Join, Join, Service!Shown, Shown,
         Service!DirItem, DirItem, Service!FileItem, FileItem

LEMMA SameMessages ==
  /\ Service!AckMsg = AckMsg /\ Service!OkMsg = OkMsg
  /\ Service!ErrMsg = ErrMsg /\ Service!EndMsg = EndMsg /\ Service!CRLF = CRLF
  BY DEF Service!AckMsg, AckMsg, Service!OkMsg, OkMsg, Service!ErrMsg, ErrMsg,
         Service!EndMsg, EndMsg, Service!CRLF, CRLF, Service!Word, Word

LEMMA SameHeld ==
  ASSUME NEW st, NEW name
  PROVE  /\ Service!Held(st, name) = Held(st, name)
         /\ Service!Opened(st, name) = Opened(st, name)
         /\ Service!Denoted(name) = Denoted(name)
  BY DEF Service!Held, Held, Service!Opened, Opened, Service!FileNames, FileNames, Service!Entries, Entries,
         Service!Join, Join, Service!ToSet, ToSet, Service!Denoted, Denoted

LEMMA SameData ==
  ASSUME NEW v, NEW from, NEW to
  PROVE  /\ Service!HasRange(v, from, to) <=> HasRange(v, from, to)
         /\ Service!GetReply(v, from, to) = GetReply(v, from, to)
         /\ Service!SizeReply(v) = SizeReply(v)
<1>1. Service!Slice(v, from, to) = Slice(v, from, to) /\ Service!Entry(v) = Entry(v)
  BY DEF Service!Slice, Slice, Service!Entry, Entry
<1> QED
  BY <1>1, SameMessages DEF Service!HasRange, HasRange, Service!GetReply, GetReply,
                            Service!SizeReply, SizeReply

LEMMA SameListReply ==
  ASSUME NEW items PROVE Service!ListReply(items) = ListReply(items)
<1>1. [k \in DOMAIN items |-> Service!ListLine(items[k])]
        = [k \in DOMAIN items |-> ListLine(items[k])]
  BY SameMessages DEF Service!ListLine, ListLine
<1> QED
  BY <1>1, SameMessages, SameFlatten DEF Service!ListReply, ListReply

LEMMA SameReply ==
  ASSUME NEW r, NEW st
  PROVE  Service!Reply(r, st) = Reply(r, st)
<1> DEFINE v == Held(st, r.name)
           w == Opened(st, r.name)
           d == Denoted(r.name)
           l == Listing(st, d)
<1>1. Service!Held(st, r.name) = v /\ Service!Opened(st, r.name) = w /\ Service!Denoted(r.name) = d
  BY SameHeld
<1>2. /\ Service!HasRange(w, r.from, r.to) <=> HasRange(w, r.from, r.to)
      /\ Service!GetReply(w, r.from, r.to) = GetReply(w, r.from, r.to)
      /\ Service!SizeReply(v) = SizeReply(v)
  BY SameData
<1>3. Service!Listing(st, d) = l /\ Service!ListReply(l) = ListReply(l)
  BY SameListing, SameListReply
<1>4. Service!ErrMsg = ErrMsg
  BY SameMessages
<1>5. Reply(r, st) =
        CASE r.op = "size" -> IF v # NoVersion THEN SizeReply(v) ELSE ErrMsg
          [] r.op = "get"  -> IF HasRange(w, r.from, r.to)
                              THEN GetReply(w, r.from, r.to) ELSE ErrMsg
          [] r.op = "list" -> IF d \in Dirs THEN ListReply(l) ELSE ErrMsg
  BY DEF Reply
<1> HIDE DEF v, w, d, l
<1>6. Service!Reply(r, st) =
        CASE r.op = "size" -> IF v # NoVersion THEN SizeReply(v) ELSE ErrMsg
          [] r.op = "get"  -> IF HasRange(w, r.from, r.to)
                              THEN GetReply(w, r.from, r.to) ELSE ErrMsg
          [] r.op = "list" -> IF d \in Dirs THEN ListReply(l) ELSE ErrMsg
  BY <1>1, <1>2, <1>3, <1>4 DEF Service!Reply
<1> QED
  BY <1>5, <1>6
=============================================================================
