-------------------------- MODULE SelectionProofs ---------------------------
(***************************************************************************)
(* Induction without an operator parameter, and what it gives: least       *)
(* elements, recursive functions that exist, and the laws of Only.         *)
(*                                                                         *)
(* A statement P(n) is proved for every natural number by way of the set   *)
(* {n \in Nat : P(n)}: were a number outside it, the least such number     *)
(* would follow one inside it.                                             *)
(***************************************************************************)
EXTENDS Selection, FiniteSetsExt, Functions, SequenceTheorems,
        WellFoundedInduction, TLAPS

\* A set of naturals with 0 and with the successor of each of its elements
\* is all of them.
LEMMA SetInduction ==
    ASSUME NEW S, 0 \in S, \A n \in Nat : n \in S => n + 1 \in S
    PROVE  \A n \in Nat : n \in S
<1> DEFINE T == Nat \ S
<1>1. SUFFICES ASSUME T # {} PROVE FALSE
  OBVIOUS
<1>2. PICK x \in T : \A y \in T : ~(<<y, x>> \in OpToRel(<, Nat))
  <2>1. IsWellFoundedOn(OpToRel(<, Nat), Nat)
    BY NatLessThanWellFounded
  <2>2. T \subseteq Nat
    OBVIOUS
  <2> HIDE DEF T
  <2> QED BY <1>1, <2>1, <2>2, WFMin
<1>3. \A y \in T : ~(y < x)
  BY <1>2 DEF OpToRel
<1>4. x \in Nat /\ x # 0
  OBVIOUS
<1>5. x - 1 \in Nat /\ x - 1 < x /\ x - 1 \in S
  BY <1>3, <1>4
<1> QED BY <1>4, <1>5

\* The same up to a bound.
LEMMA BoundedInduction ==
    ASSUME NEW S, NEW N \in Nat, 0 \in S,
           \A n \in 0 .. N : n \in S /\ n < N => n + 1 \in S
    PROVE  \A n \in 0 .. N : n \in S
<1> DEFINE T == {n \in Nat : n <= N => n \in S}
<1>1. 0 \in T
  OBVIOUS
<1>2. \A n \in Nat : n \in T => n + 1 \in T
  OBVIOUS
<1> HIDE DEF T
<1>3. \A n \in Nat : n \in T
  BY <1>1, <1>2, SetInduction
<1> QED BY <1>3 DEF T

\* A set of naturals has a least element, which Min returns.
LEMMA MinIsLeast ==
    ASSUME NEW S \in SUBSET Nat, S # {}
    PROVE  Min(S) \in S /\ \A x \in S : Min(S) <= x
<1>1. \E x \in S : \A y \in S : x <= y
  <2>1. SUFFICES ASSUME \A x \in S : \E y \in S : y < x
                 PROVE  FALSE
    OBVIOUS
  <2> DEFINE B == {n \in Nat : \A m \in 0 .. n : m \notin S}
  <2>2. 0 \in B
    BY <2>1
  <2>3. \A n \in Nat : n \in B => n + 1 \in B
    BY <2>1
  <2> HIDE DEF B
  <2>4. \A n \in Nat : n \in B
    BY <2>2, <2>3, SetInduction
  <2>5. \A n \in Nat : n \notin S
    BY <2>4 DEF B
  <2> QED BY <2>5
<1> QED BY <1>1 DEF Min

LEMMA MinIs ==
    ASSUME NEW S \in SUBSET Nat, NEW m \in S, \A x \in S : m <= x
    PROVE  Min(S) = m
<1>1. Min(S) \in S /\ \A x \in S : Min(S) <= x
  BY MinIsLeast
<1>2. Min(S) \in Nat /\ m \in Nat /\ Min(S) <= m /\ m <= Min(S)
  BY <1>1
<1> QED BY <1>2

\* Each value of f, up to f[N], comes from the one before it.
Recursive(N, A, base, step, f) ==
    /\ f \in [0 .. N -> A]
    /\ f[0] = base
    /\ \A n \in 1 .. N : f[n] = step[n][f[n - 1]]

\* Such a function exists.
LEMMA LeftRecursion ==
    ASSUME NEW N \in Nat, NEW A, NEW base \in A, NEW step \in [1 .. N -> [A -> A]]
    PROVE  \E f : Recursive(N, A, base, step, f)
<1> DEFINE S == {m \in 0 .. N : \E f : Recursive(m, A, base, step, f)}
<1>1. 0 \in S
  <2>1. Recursive(0, A, base, step, [n \in 0 .. 0 |-> base])
    BY DEF Recursive
  <2> QED BY <2>1
<1>2. ASSUME NEW m \in 0 .. N, m \in S, m < N
      PROVE  m + 1 \in S
  <2>1. PICK f : Recursive(m, A, base, step, f)
    BY <1>2
  <2> DEFINE g == [n \in 0 .. m + 1 |-> IF n = m + 1 THEN step[m + 1][f[m]] ELSE f[n]]
  <2>2. step[m + 1][f[m]] \in A
    BY <1>2, <2>1 DEF Recursive
  <2>3. g \in [0 .. m + 1 -> A] /\ g[0] = base
    BY <2>1, <2>2 DEF Recursive
  <2>4. ASSUME NEW n \in 1 .. m + 1
        PROVE  g[n] = step[n][g[n - 1]]
    <3>1. CASE n = m + 1
      BY <3>1
    <3>2. CASE n # m + 1
      BY <3>2, <2>1 DEF Recursive
    <3> QED BY <3>1, <3>2
  <2> HIDE DEF g
  <2>5. Recursive(m + 1, A, base, step, g)
    BY <2>3, <2>4 DEF Recursive
  <2> QED BY <2>5, <1>2
<1> HIDE DEF S
<1>3. N \in S
  BY <1>1, <1>2, N \in 0 .. N, BoundedInduction
<1> QED BY <1>3 DEF S

-----------------------------------------------------------------------------
(* Only *)

\* The values only[0], ..., only[Len(s)] behind Only(s, wanted).
OnlySteps(S, s, wanted, f) ==
    /\ f \in [0 .. Len(s) -> Seq(S)]
    /\ f[0] = <<>>
    /\ \A n \in 1 .. Len(s) :
          f[n] = IF s[n] \in wanted THEN Append(f[n - 1], s[n]) ELSE f[n - 1]
    /\ Only(s, wanted) = f[Len(s)]

LEMMA OnlyUnfold ==
    ASSUME NEW S, NEW s \in Seq(S), NEW wanted
    PROVE  \E f : OnlySteps(S, s, wanted, f)
<1> DEFINE keep(a, n) == IF s[n] \in wanted THEN Append(a, s[n]) ELSE a
           value(f) == [n \in 0 .. Len(s) |-> IF n = 0 THEN <<>> ELSE keep(f[n - 1], n)]
           only == CHOOSE f : f = value(f)
<1>1. Len(s) \in Nat /\ \A n \in 1 .. Len(s) : s[n] \in S
  BY LenProperties
<1>2. \A a \in Seq(S), n \in 1 .. Len(s) : keep(a, n) \in Seq(S)
  BY <1>1, AppendProperties
<1>3. PICK f \in [0 .. Len(s) -> Seq(S)] :
          f[0] = <<>> /\ \A n \in 1 .. Len(s) : f[n] = keep(f[n - 1], n)
  <2>1. PICK step : step = [n \in 1 .. Len(s) |-> [a \in Seq(S) |-> keep(a, n)]]
    OBVIOUS
  <2> HIDE DEF keep
  <2>2. \A n \in 1 .. Len(s) : step[n] = [a \in Seq(S) |-> keep(a, n)]
    BY <2>1
  <2>3. step \in [1 .. Len(s) -> [Seq(S) -> Seq(S)]]
    BY <1>2, <2>1
  <2>4. <<>> \in Seq(S)
    BY EmptySeq
  <2>5. PICK f : Recursive(Len(s), Seq(S), <<>>, step, f)
    BY <1>1, <2>3, <2>4, LeftRecursion
  <2>6. f \in [0 .. Len(s) -> Seq(S)] /\ f[0] = <<>>
    BY <2>5 DEF Recursive
  <2>7. ASSUME NEW n \in 1 .. Len(s)
        PROVE  f[n] = keep(f[n - 1], n)
    <3>1. f[n - 1] \in Seq(S) /\ f[n] = step[n][f[n - 1]]
      BY <1>1, <2>5 DEF Recursive
    <3> QED BY <2>2, <3>1
  <2> QED BY <2>6, <2>7
<1>4. f = value(f)
  <2> HIDE DEF keep
  <2> QED BY <1>1, <1>3
<1>5. only = value(only)
  <2> HIDE DEF value
  <2> QED BY <1>4
<1>6. Only(s, wanted) = only[Len(s)]
  BY DEF Only
<1> HIDE DEF only
<1>7. only[0] = <<>> /\ \A n \in 1 .. Len(s) : only[n] = keep(only[n - 1], n)
  <2> HIDE DEF keep
  <2> QED BY <1>1, <1>5
<1>8. \A n \in 0 .. Len(s) : only[n] = f[n]
  <2> DEFINE T == {n \in 0 .. Len(s) : only[n] = f[n]}
  <2>1. 0 \in T
    BY <1>1, <1>3, <1>7
  <2>2. ASSUME NEW n \in 0 .. Len(s), n \in T, n < Len(s)
        PROVE  n + 1 \in T
    <3>1. n + 1 \in 1 .. Len(s) /\ (n + 1) - 1 = n
      BY <1>1, <2>2
    <3> HIDE DEF keep
    <3>2. only[n + 1] = keep(only[n], n + 1) /\ f[n + 1] = keep(f[n], n + 1)
      BY <1>3, <1>7, <3>1
    <3> QED BY <2>2, <3>1, <3>2
  <2> HIDE DEF T
  <2>3. \A n \in 0 .. Len(s) : n \in T
    BY <1>1, <2>1, <2>2, BoundedInduction
  <2> QED BY <2>3 DEF T
<1>9. OnlySteps(S, s, wanted, f)
  BY <1>1, <1>3, <1>6, <1>8 DEF OnlySteps
<1> QED BY <1>9

LEMMA OnlyType ==
    ASSUME NEW S, NEW s \in Seq(S), NEW wanted
    PROVE  Only(s, wanted) \in Seq(S)
<1>1. PICK f : OnlySteps(S, s, wanted, f)
  BY OnlyUnfold
<1>2. Len(s) \in 0 .. Len(s)
  BY LenProperties
<1> QED BY <1>1, <1>2 DEF OnlySteps

LEMMA OnlyEmpty ==
    ASSUME NEW wanted
    PROVE  Only(<<>>, wanted) = <<>>
<1>1. <<>> \in Seq({}) /\ Len(<<>>) = 0
  BY EmptySeq
<1>2. PICK f : OnlySteps({}, <<>>, wanted, f)
  BY <1>1, OnlyUnfold
<1> QED BY <1>1, <1>2 DEF OnlySteps

LEMMA OnlyOne ==
    ASSUME NEW x, NEW wanted
    PROVE  Only(<<x>>, wanted) = IF x \in wanted THEN <<x>> ELSE <<>>
<1>1. <<x>> \in Seq({x}) /\ Len(<<x>>) = 1 /\ <<x>>[1] = x
  OBVIOUS
<1>2. PICK f : OnlySteps({x}, <<x>>, wanted, f)
  BY <1>1, OnlyUnfold
<1>3. f[1] = IF x \in wanted THEN Append(f[0], x) ELSE f[0]
  BY <1>1, <1>2 DEF OnlySteps
<1>4. Append(<<>>, x) = <<x>>
  OBVIOUS
<1> QED BY <1>1, <1>2, <1>3, <1>4 DEF OnlySteps

\* The selection of two sequences, one after the other, is the selection of
\* the first and then that of the second.
LEMMA OnlyConcat ==
    ASSUME NEW S, NEW s \in Seq(S), NEW t \in Seq(S), NEW wanted
    PROVE  Only(s \o t, wanted) = Only(s, wanted) \o Only(t, wanted)
<1>1. PICK u : u = s \o t
  OBVIOUS
<1>2. /\ u \in Seq(S) /\ Len(u) = Len(s) + Len(t)
      /\ \A i \in 1 .. Len(s) : u[i] = s[i]
      /\ \A i \in 1 .. Len(t) : u[Len(s) + i] = t[i]
  BY <1>1, ConcatProperties, LenProperties
<1>3. PICK f : OnlySteps(S, s, wanted, f)
  BY OnlyUnfold
<1>4. PICK g : OnlySteps(S, t, wanted, g)
  BY OnlyUnfold
<1>5. PICK h : OnlySteps(S, u, wanted, h)
  BY <1>2, OnlyUnfold
<1>6. Len(s) \in Nat /\ Len(t) \in Nat
  BY LenProperties
<1>7. \A n \in 0 .. Len(s) : h[n] = f[n]
  <2> DEFINE T == {n \in 0 .. Len(s) : h[n] = f[n]}
  <2>1. 0 \in T
    BY <1>3, <1>5, <1>6 DEF OnlySteps
  <2>2. ASSUME NEW n \in 0 .. Len(s), n \in T, n < Len(s)
        PROVE  n + 1 \in T
    <3>1. n + 1 \in 1 .. Len(s) /\ n + 1 \in 1 .. Len(u) /\ (n + 1) - 1 = n
      BY <1>2, <1>6, <2>2
    <3>2. f[n + 1] = IF s[n + 1] \in wanted THEN Append(f[n], s[n + 1]) ELSE f[n]
      BY <1>3, <3>1 DEF OnlySteps
    <3>3. h[n + 1] = IF u[n + 1] \in wanted THEN Append(h[n], u[n + 1]) ELSE h[n]
      BY <1>5, <3>1 DEF OnlySteps
    <3> QED BY <1>2, <1>6, <2>2, <3>1, <3>2, <3>3
  <2> HIDE DEF T
  <2>3. \A n \in 0 .. Len(s) : n \in T
    BY <1>6, <2>1, <2>2, BoundedInduction
  <2> QED BY <2>3 DEF T
<1>8. PICK base : base = f[Len(s)] /\ base \in Seq(S) /\ base = h[Len(s) + 0]
  BY <1>3, <1>6, <1>7 DEF OnlySteps
<1>10. \A n \in 0 .. Len(t) : h[Len(s) + n] = base \o g[n]
  <2> DEFINE T == {n \in 0 .. Len(t) : h[Len(s) + n] = base \o g[n]}
  <2>1. 0 \in T
    <3>1. g[0] = <<>> /\ base \o <<>> = base
      BY <1>4, <1>8, ConcatEmptySeq DEF OnlySteps
    <3>2. 0 \in 0 .. Len(t)
      BY <1>6
    <3> QED BY <1>8, <3>1, <3>2
  <2>2. ASSUME NEW n \in 0 .. Len(t), n \in T, n < Len(t)
        PROVE  n + 1 \in T
    <3>1. /\ n + 1 \in 1 .. Len(t) /\ (n + 1) - 1 = n
          /\ Len(s) + (n + 1) \in 1 .. Len(u) /\ (Len(s) + (n + 1)) - 1 = Len(s) + n
      BY <1>2, <1>6, <2>2
    <3>2. g[n + 1] = IF t[n + 1] \in wanted THEN Append(g[n], t[n + 1]) ELSE g[n]
      BY <1>4, <3>1 DEF OnlySteps
    <3>3. h[Len(s) + (n + 1)] = IF t[n + 1] \in wanted
                                THEN Append(h[Len(s) + n], t[n + 1]) ELSE h[Len(s) + n]
      <4>1. h[Len(s) + (n + 1)] =
                IF u[Len(s) + (n + 1)] \in wanted
                THEN Append(h[(Len(s) + (n + 1)) - 1], u[Len(s) + (n + 1)])
                ELSE h[(Len(s) + (n + 1)) - 1]
        BY <1>5, <3>1 DEF OnlySteps
      <4>2. u[Len(s) + (n + 1)] = t[n + 1]
        BY <1>2, <3>1
      <4> QED BY <3>1, <4>1, <4>2
    <3>4. g[n] \in Seq(S) /\ t[n + 1] \in S
      BY <1>4, <2>2, <3>1, LenProperties DEF OnlySteps
    <3>5. Append(base \o g[n], t[n + 1]) = base \o Append(g[n], t[n + 1])
      <4>1. PICK a, x : a = g[n] /\ x = t[n + 1]
        OBVIOUS
      <4>2. base \in Seq(S) /\ a \in Seq(S) /\ x \in S
        BY <1>8, <3>4, <4>1
      <4>3. base \o a \in Seq(S) /\ <<x>> \in Seq(S)
        BY <4>2, ConcatProperties
      <4>4. Append(base \o a, x) = (base \o a) \o <<x>> /\ Append(a, x) = a \o <<x>>
        BY <4>2, <4>3, AppendIsConcat
      <4>5. (base \o a) \o <<x>> = base \o (a \o <<x>>)
        BY <4>2, <4>3, ConcatAssociative
      <4> QED BY <4>1, <4>4, <4>5
    <3>6. h[Len(s) + n] = base \o g[n]
      BY <2>2
    <3>7. h[Len(s) + (n + 1)] = base \o g[n + 1]
      BY <3>2, <3>3, <3>5, <3>6
    <3> QED BY <3>1, <3>7
  <2> HIDE DEF T
  <2>3. \A n \in 0 .. Len(t) : n \in T
    BY <1>6, <2>1, <2>2, BoundedInduction
  <2> QED BY <2>3 DEF T
<1>9. h[Len(u)] = base \o g[Len(t)]
  BY <1>2, <1>6, <1>10
<1> QED BY <1>1, <1>3, <1>4, <1>5, <1>8, <1>9 DEF OnlySteps

\* What is selected are the elements that are wanted, each of them.
LEMMA OnlyRange ==
    ASSUME NEW S, NEW s \in Seq(S), NEW wanted
    PROVE  Range(Only(s, wanted)) = Range(s) \intersect wanted
<1>1. PICK f : OnlySteps(S, s, wanted, f)
  BY OnlyUnfold
<1>2. Len(s) \in Nat /\ DOMAIN s = 1 .. Len(s) /\ \A n \in 1 .. Len(s) : s[n] \in S
  BY LenProperties
<1> DEFINE Seen(n) == {s[i] : i \in 1 .. n} \intersect wanted
           T == {n \in 0 .. Len(s) : Range(f[n]) = Seen(n)}
<1>3. 0 \in T
  <2>1. f[0] = <<>> /\ Range(<<>>) = {}
    BY <1>1 DEF OnlySteps, Range
  <2>2. Seen(0) = {}
    OBVIOUS
  <2> QED BY <1>2, <2>1, <2>2
<1>4. ASSUME NEW n \in 0 .. Len(s), n \in T, n < Len(s)
      PROVE  n + 1 \in T
  <2>1. n + 1 \in 1 .. Len(s) /\ (n + 1) - 1 = n
    BY <1>2, <1>4
  <2>2. f[n + 1] = IF s[n + 1] \in wanted THEN Append(f[n], s[n + 1]) ELSE f[n]
    BY <1>1, <2>1 DEF OnlySteps
  <2>3. Seen(n + 1) = Seen(n) \union ({s[n + 1]} \intersect wanted)
    BY <1>2, <1>4
  <2>4. f[n] \in Seq(S) /\ s[n + 1] \in S
    BY <1>1, <1>2, <2>1 DEF OnlySteps
  <2>5. Range(Append(f[n], s[n + 1])) = Range(f[n]) \union {s[n + 1]}
    <3>1. PICK a, x : a = f[n] /\ x = s[n + 1]
      OBVIOUS
    <3>2. /\ a \in Seq(S) /\ x \in S /\ Len(a) \in Nat /\ DOMAIN a = 1 .. Len(a)
          /\ Append(a, x) \in Seq(S) /\ Len(Append(a, x)) = Len(a) + 1
          /\ DOMAIN Append(a, x) = 1 .. Len(a) + 1
          /\ \A i \in 1 .. Len(a) : Append(a, x)[i] = a[i]
          /\ Append(a, x)[Len(a) + 1] = x
      BY <2>4, <3>1, AppendProperties, LenProperties
    <3>3. Range(Append(a, x)) = Range(a) \union {x}
      BY <3>2 DEF Range
    <3> QED BY <3>1, <3>3
  <2>6. Range(f[n]) = Seen(n)
    BY <1>4
  <2>7. Range(f[n + 1]) = Seen(n + 1)
    <3>1. CASE s[n + 1] \in wanted
      BY <2>2, <2>3, <2>5, <2>6, <3>1
    <3>2. CASE s[n + 1] \notin wanted
      BY <2>2, <2>3, <2>6, <3>2
    <3> QED BY <3>1, <3>2
  <2> HIDE DEF Seen
  <2> QED BY <1>2, <2>1, <2>7
<1> HIDE DEF T
<1>5. \A n \in 0 .. Len(s) : n \in T
  BY <1>2, <1>3, <1>4, BoundedInduction
<1>6. Range(f[Len(s)]) = Seen(Len(s))
  <2>1. Len(s) \in T
    BY <1>2, <1>5
  <2> HIDE DEF Seen
  <2> QED BY <2>1 DEF T
<1>7. Seen(Len(s)) = Range(s) \intersect wanted
  BY <1>2 DEF Range
<1>8. Only(s, wanted) = f[Len(s)]
  BY <1>1 DEF OnlySteps
<1> QED BY <1>6, <1>7, <1>8

\* All of a sequence is selected when every element is wanted.
LEMMA OnlyAll ==
    ASSUME NEW S, NEW s \in Seq(S), NEW wanted, Range(s) \subseteq wanted
    PROVE  Only(s, wanted) = s
<1>1. PICK f : OnlySteps(S, s, wanted, f)
  BY OnlyUnfold
<1>2. Len(s) \in Nat /\ DOMAIN s = 1 .. Len(s) /\ \A n \in 1 .. Len(s) : s[n] \in S \intersect wanted
  BY LenProperties DEF Range
<1> DEFINE T == {n \in 0 .. Len(s) : Len(f[n]) = n /\ \A i \in 1 .. n : f[n][i] = s[i]}
<1>3. 0 \in T
  BY <1>1, <1>2, EmptySeq DEF OnlySteps
<1>4. ASSUME NEW n \in 0 .. Len(s), n \in T, n < Len(s)
      PROVE  n + 1 \in T
  <2>1. n + 1 \in 1 .. Len(s) /\ (n + 1) - 1 = n
    BY <1>2, <1>4
  <2>2. PICK a, x, b : a = f[n] /\ x = s[n + 1] /\ b = f[n + 1]
    OBVIOUS
  <2>3. b = Append(a, x) /\ a \in Seq(S) /\ x \in S
    BY <1>1, <1>2, <2>1, <2>2 DEF OnlySteps
  <2>4. Len(a) = n /\ \A i \in 1 .. n : a[i] = s[i]
    BY <1>4, <2>2
  <2>5. Len(b) = n + 1 /\ (\A i \in 1 .. n : b[i] = a[i]) /\ b[n + 1] = x
    BY <2>3, <2>4, AppendProperties
  <2>6. \A i \in 1 .. n + 1 : b[i] = s[i]
    BY <1>4, <2>2, <2>4, <2>5
  <2> QED BY <2>1, <2>2, <2>5, <2>6
<1> HIDE DEF T
<1>5. Len(s) \in T
  <2>1. \A n \in 0 .. Len(s) : n \in T
    BY <1>2, <1>3, <1>4, BoundedInduction
  <2> QED BY <1>2, <2>1
<1>6. f[Len(s)] \in Seq(S) /\ Len(f[Len(s)]) = Len(s) /\ \A i \in 1 .. Len(s) : f[Len(s)][i] = s[i]
  BY <1>1, <1>2, <1>5 DEF T, OnlySteps
<1>7. f[Len(s)] = s
  BY <1>6, SeqEqual
<1> QED BY <1>1, <1>7 DEF OnlySteps
Increasing(s) == \A i, j \in 1 .. Len(s) : i < j => s[i] < s[j]

\* What is selected from an increasing sequence increases.
LEMMA OnlyIncreasing ==
    ASSUME NEW s \in Seq(Nat), NEW wanted, Increasing(s)
    PROVE  Increasing(Only(s, wanted))
<1>1. PICK f : OnlySteps(Nat, s, wanted, f)
  BY OnlyUnfold
<1>2. Len(s) \in Nat /\ \A n \in 1 .. Len(s) : s[n] \in Nat
  BY LenProperties
<1> DEFINE Taken(a, n) == \A i \in 1 .. Len(a) : \E k \in 1 .. n : a[i] = s[k]
           T == {n \in 0 .. Len(s) : Increasing(f[n]) /\ Taken(f[n], n)}
<1>3. 0 \in T
  <2>1. f[0] = <<>> /\ Len(<<>>) = 0
    BY <1>1, EmptySeq DEF OnlySteps
  <2>2. Increasing(<<>>) /\ Taken(<<>>, 0)
    BY <2>1 DEF Increasing
  <2> QED BY <1>2, <2>1, <2>2
<1>4. ASSUME NEW n \in 0 .. Len(s), n \in T, n < Len(s)
      PROVE  n + 1 \in T
  <2>1. n + 1 \in 1 .. Len(s) /\ (n + 1) - 1 = n /\ n \in Nat
    BY <1>2, <1>4
  <2>2. PICK a, x, b : a = f[n] /\ x = s[n + 1] /\ b = f[n + 1]
    OBVIOUS
  <2>3. /\ b = IF x \in wanted THEN Append(a, x) ELSE a
        /\ a \in Seq(Nat) /\ x \in Nat
    BY <1>1, <1>2, <2>1, <2>2 DEF OnlySteps
  <2>4. Increasing(a) /\ Taken(a, n)
    BY <1>4, <2>2
  <2>5. Increasing(b) /\ Taken(b, n + 1)
    <3>1. CASE x \notin wanted
      BY <2>1, <2>3, <2>4, <3>1
    <3>2. CASE x \in wanted
      <4>1. /\ Len(a) \in Nat /\ Len(b) = Len(a) + 1
            /\ \A i \in 1 .. Len(a) : b[i] = a[i]
            /\ b[Len(a) + 1] = x
        BY <2>3, <3>2, AppendProperties, LenProperties
      <4>2. \A i \in 1 .. Len(a) : a[i] < x /\ a[i] \in Nat
        <5>1. SUFFICES ASSUME NEW i \in 1 .. Len(a)
                       PROVE  a[i] < x /\ a[i] \in Nat
          OBVIOUS
        <5>2. PICK k \in 1 .. n : a[i] = s[k]
          BY <2>4
        <5>3. k \in 1 .. Len(s) /\ k < n + 1
          BY <1>2, <2>1
        <5> QED BY <1>2, <2>1, <2>2, <5>2, <5>3 DEF Increasing
      <4>3. Increasing(b)
        <5>1. SUFFICES ASSUME NEW i \in 1 .. Len(b), NEW j \in 1 .. Len(b), i < j
                       PROVE  b[i] < b[j]
          BY DEF Increasing
        <5>2. i \in 1 .. Len(a)
          BY <4>1, <5>1
        <5>3. CASE j = Len(a) + 1
          BY <4>1, <4>2, <5>2, <5>3
        <5>4. CASE j # Len(a) + 1
          <6>1. j \in 1 .. Len(a)
            BY <4>1, <5>4
          <6> QED BY <2>4, <4>1, <5>1, <5>2, <6>1 DEF Increasing
        <5> QED BY <5>3, <5>4
      <4>4. Taken(b, n + 1)
        <5>1. SUFFICES ASSUME NEW i \in 1 .. Len(b)
                       PROVE  \E k \in 1 .. n + 1 : b[i] = s[k]
          OBVIOUS
        <5>2. CASE i = Len(a) + 1
          BY <2>1, <2>2, <4>1, <5>2
        <5>3. CASE i # Len(a) + 1
          <6>1. i \in 1 .. Len(a)
            BY <4>1, <5>3
          <6>2. PICK k \in 1 .. n : a[i] = s[k]
            BY <2>4, <6>1
          <6>3. k \in 1 .. n + 1
            BY <2>1
          <6> QED BY <4>1, <6>1, <6>2, <6>3
        <5> QED BY <5>2, <5>3
      <4> QED BY <4>3, <4>4
    <3> QED BY <3>1, <3>2
  <2> HIDE DEF Taken
  <2> QED BY <2>1, <2>2, <2>5
<1> HIDE DEF T
<1>5. Len(s) \in T
  <2>1. \A n \in 0 .. Len(s) : n \in T
    BY <1>2, <1>3, <1>4, BoundedInduction
  <2> QED BY <1>2, <2>1
<1>6. Only(s, wanted) = f[Len(s)]
  BY <1>1 DEF OnlySteps
<1>7. Increasing(f[Len(s)])
  <2> HIDE DEF Taken
  <2> QED BY <1>5 DEF T
<1> QED BY <1>6, <1>7
=============================================================================
