----------------------------- MODULE Induction -----------------------------
(* Induction for data, without operators as parameters: a set of numbers with  *)
(* zero and every successor is all of them, and a function is defined by      *)
(* recursion over an interval.                                                *)
EXTENDS Tables, WellFoundedInduction, TLAPS

Less == OpToRel(<, Nat)

(* The order of the numbers as a set.                                         *)
LEMMA LessIs == Less = {p \in Nat \X Nat : p[1] < p[2]}
  BY Zenon DEF Less, OpToRel

(* Every set of numbers with a member has a least one.                        *)
LEMMA LeastOf ==
  ASSUME NEW S, S \subseteq Nat, S # {}
  PROVE  \E x \in S : \A y \in S : x <= y
<1>1. IsWellFoundedOn(Less, Nat)
  BY NatLessThanWellFounded, Zenon DEF Less
<1>2. PICK x \in S : \A y \in S : <<y, x>> \notin Less
  BY <1>1, WFMin
<1>3. \A y \in S : ~(y < x)
  BY <1>2, LessIs
<1> QED
  BY <1>3

(* Induction: the numbers in S, up to n, are all numbers up to n.             *)
LEMMA InductionUpTo ==
  ASSUME NEW n \in Nat, NEW S, 0 \in S, \A i \in 0..(n - 1) : i \in S => i + 1 \in S
  PROVE  0..n \subseteq S
<1> DEFINE Rest == {i \in 0..n : i \notin S}
<1>1. CASE Rest = {}
  BY <1>1
<1>2. CASE Rest # {}
  <2>0. Rest \subseteq Nat
    OBVIOUS
  <2>1. PICK x \in Rest : \A y \in Rest : x <= y
    <3> HIDE DEF Rest
    <3> QED
      BY <1>2, <2>0, LeastOf
  <2>2. x # 0 /\ x - 1 \in 0..(n - 1) /\ x - 1 \in S
    BY <2>1
  <2> QED
    BY <2>1, <2>2
<1> QED
  BY <1>1, <1>2

(* A function on 0..n whose every value is made of the one before it.         *)
StepsBy(f, n, base, step) ==
  /\ f[0] = base
  /\ \A i \in 1..n : f[i] = step[<<i, f[i - 1]>>]

(* There is one.                                                              *)
LEMMA RecursionUpTo ==
  ASSUME NEW n \in Nat, NEW T, NEW base \in T, NEW step \in [(1..n) \X T -> T]
  PROVE  \E f \in [0..n -> T] : StepsBy(f, n, base, step)
<1> DEFINE Is(f, k) == f[0] = base /\ \A i \in 1..k : f[i] = step[<<i, f[i - 1]>>]
           S == {k \in Nat : \E f \in [0..k -> T] : Is(f, k)}
<1>1. 0 \in S
  <2>1. Is([i \in 0..0 |-> base], 0)
    OBVIOUS
  <2> QED
    BY <2>1
<1>2. ASSUME NEW k \in 0..(n - 1), k \in S
      PROVE  k + 1 \in S
  <2>1. PICK f \in [0..k -> T] : Is(f, k)
    BY <1>2
  <2> DEFINE g == [i \in 0..(k + 1) |-> IF i = k + 1 THEN step[<<k + 1, f[k]>>] ELSE f[i]]
  <2>2. k \in Nat /\ f[k] \in T /\ step[<<k + 1, f[k]>>] \in T
    OBVIOUS
  <2>3. g \in [0..(k + 1) -> T]
    BY <2>2
  <2>4. g[0] = base
    BY <2>1, <2>2
  <2>5. ASSUME NEW i \in 1..(k + 1)
        PROVE  g[i] = step[<<i, g[i - 1]>>]
    <3>1. CASE i = k + 1
      <4>1. i - 1 = k /\ k \in 0..(k + 1) /\ k # k + 1
        BY <2>2, <3>1
      <4>2. g[i] = step[<<k + 1, f[k]>>] /\ g[i - 1] = f[k]
        BY <3>1, <4>1
      <4> QED
        BY <3>1, <4>2
    <3>2. CASE i # k + 1
      <4>1. i \in 1..k /\ i - 1 \in 0..k /\ i \in 0..(k + 1) /\ i - 1 \in 0..(k + 1) /\ i - 1 # k + 1
        BY <2>2, <3>2
      <4> QED
        BY <2>1, <3>2, <4>1
    <3> QED
      BY <3>1, <3>2
  <2>6. Is(g, k + 1)
    BY <2>4, <2>5
  <2> HIDE DEF g, Is
  <2> QED
    BY <2>2, <2>3, <2>6
<1>3. n \in S
  <2> HIDE DEF S
  <2> QED
    BY <1>1, <1>2, InductionUpTo
<1> QED
  BY <1>3 DEF StepsBy

(* The function that is defined so.                                           *)
Iterated(n, base, step) ==
  LET f[i \in 0..n] == IF i = 0 THEN base ELSE step[<<i, f[i - 1]>>] IN f

LEMMA IteratedIs ==
  ASSUME NEW n \in Nat, NEW T, NEW base \in T, NEW step \in [(1..n) \X T -> T]
  PROVE  Iterated(n, base, step) \in [0..n -> T] /\ StepsBy(Iterated(n, base, step), n, base, step)
<1> DEFINE Is(f) == f = [i \in 0..n |-> IF i = 0 THEN base ELSE step[<<i, f[i - 1]>>]]
<1>1. PICK g \in [0..n -> T] : StepsBy(g, n, base, step)
  BY RecursionUpTo
<1>2. Is(g)
  <2>1. ASSUME NEW i \in 0..n
        PROVE  g[i] = IF i = 0 THEN base ELSE step[<<i, g[i - 1]>>]
    <3>1. i # 0 => i \in 1..n
      OBVIOUS
    <3> QED
      BY <1>1, <3>1 DEF StepsBy
  <2> QED
    BY <2>1
<1> DEFINE f == Iterated(n, base, step)
<1>3. Is(f)
  BY <1>2 DEF Iterated
<1> HIDE DEF f
<1>4. f[0] = base
  BY <1>3
<1>5. ASSUME NEW i \in 1..n PROVE f[i] = step[<<i, f[i - 1]>>]
  <2>1. i \in 0..n /\ i # 0
    OBVIOUS
  <2> QED
    BY <1>3, <2>1
<1> DEFINE Good == {i \in 0..n : f[i] \in T}
<1>6. 0 \in Good
  BY <1>4
<1>7. ASSUME NEW i \in 0..(n - 1), i \in Good PROVE i + 1 \in Good
  <2>1. i + 1 \in 1..n /\ (i + 1) - 1 = i
    OBVIOUS
  <2>2. f[i + 1] = step[<<i + 1, f[i]>>]
    BY <1>5, <2>1
  <2> QED
    BY <1>7, <2>1, <2>2
<1>8. 0..n \subseteq Good
  <2> HIDE DEF Good
  <2> QED
    BY <1>6, <1>7, InductionUpTo
<1>9. f \in [0..n -> T]
  <2>1. f = [i \in 0..n |-> f[i]]
    BY <1>3
  <2> QED
    BY <1>8, <2>1
<1> QED
  BY <1>4, <1>5, <1>9 DEF f, StepsBy

---------------------------------------------------------------------------
(* What is selected of a sequence, by recursion over it.                      *)
Selects(s, S, f) ==
  /\ f[0] = <<>>
  /\ \A i \in 1..Len(s) : f[i] = IF s[i] \in S THEN Append(f[i - 1], s[i]) ELSE f[i - 1]

LEMMA SelectedIs ==
  ASSUME NEW T, NEW s \in Seq(T), NEW S
  PROVE  \E f \in [0..Len(s) -> Seq(T)] : Selects(s, S, f) /\ Selected(s, S) = f[Len(s)]
<1> DEFINE Is(f) ==
      f = [i \in 0..Len(s) |-> IF i = 0 THEN <<>>
                               ELSE IF s[i] \in S THEN Append(f[i - 1], s[i]) ELSE f[i - 1]]
<1> DEFINE step ==
      [p \in (1..Len(s)) \X Seq(T) |-> IF s[p[1]] \in S THEN Append(p[2], s[p[1]]) ELSE p[2]]
<1>0. Len(s) \in Nat /\ <<>> \in Seq(T) /\ \A i \in 1..Len(s) : s[i] \in T
  OBVIOUS
<1>1. /\ step \in [(1..Len(s)) \X Seq(T) -> Seq(T)]
      /\ \A i \in 1..Len(s) : \A q \in Seq(T) :
           step[<<i, q>>] = IF s[i] \in S THEN Append(q, s[i]) ELSE q
  BY <1>0
<1> HIDE DEF step
<1>2. PICK g \in [0..Len(s) -> Seq(T)] :
        StepsBy(g, Len(s), <<>>, step)
  <2> DEFINE n == Len(s)
             U == Seq(T)
             base == <<>>
  <2>1. n \in Nat /\ base \in U /\ step \in [(1..n) \X U -> U]
    BY <1>0, <1>1
  <2> HIDE DEF n, U, base
  <2>2. \E g \in [0..n -> U] : StepsBy(g, n, base, step)
    BY <2>1, RecursionUpTo
  <2> QED
    BY <2>2 DEF n, U, base
<1>3. Is(g)
  <2>1. ASSUME NEW i \in 0..Len(s), i # 0
        PROVE  step[<<i, g[i - 1]>>] = IF s[i] \in S THEN Append(g[i - 1], s[i]) ELSE g[i - 1]
    <3>1. i \in 1..Len(s) /\ i - 1 \in 0..Len(s)
      BY <1>0, <2>1
    <3> QED
      BY <1>1, <3>1
  <2>2. g[0] = <<>> /\ \A i \in 1..Len(s) : g[i] = step[<<i, g[i - 1]>>]
    BY <1>2 DEF StepsBy
  <2>3. ASSUME NEW i \in 0..Len(s)
        PROVE  g[i] = IF i = 0 THEN <<>> ELSE IF s[i] \in S THEN Append(g[i - 1], s[i]) ELSE g[i - 1]
    <3>1. CASE i = 0
      BY <2>2, <3>1
    <3>2. CASE i # 0
      <4>1. i \in 1..Len(s)
        BY <1>0, <3>2
      <4> QED
        BY <2>1, <2>2, <3>2, <4>1
    <3> QED
      BY <3>1, <3>2
  <2> QED
    BY <2>3
<1>4. PICK f : Is(f) /\ Selected(s, S) = f[Len(s)]
  BY <1>3 DEF Selected
<1>5. Selects(s, S, f)
  <2>1. f[0] = <<>>
    BY <1>0, <1>4
  <2>2. ASSUME NEW i \in 1..Len(s)
        PROVE  f[i] = IF s[i] \in S THEN Append(f[i - 1], s[i]) ELSE f[i - 1]
    <3>1. i \in 0..Len(s) /\ i # 0
      BY <1>0
    <3> QED
      BY <1>4, <3>1
  <2> QED
    BY <2>1, <2>2 DEF Selects
<1>6. f \in [0..Len(s) -> Seq(T)]
  <2> DEFINE Good == {i \in 0..Len(s) : f[i] \in Seq(T)}
  <2>1. 0 \in Good
    <3>1. f[0] \in Seq(T)
      BY <1>0, <1>5 DEF Selects
    <3> QED
      BY <1>0, <3>1
  <2>2. ASSUME NEW i \in 0..(Len(s) - 1), i \in Good
        PROVE  i + 1 \in Good
    <3>1. i + 1 \in 1..Len(s) /\ (i + 1) - 1 = i /\ s[i + 1] \in T
      BY <1>0
    <3>2. f[i + 1] = IF s[i + 1] \in S THEN Append(f[i], s[i + 1]) ELSE f[i]
      BY <1>5, <3>1 DEF Selects
    <3>3. f[i + 1] \in Seq(T)
      BY <2>2, <3>1, <3>2
    <3> QED
      BY <1>0, <3>1, <3>3
  <2>3. 0..Len(s) \subseteq Good
    <3> HIDE DEF Good
    <3> QED
      BY <1>0, <2>1, <2>2, InductionUpTo
  <2>4. f = [i \in 0..Len(s) |-> f[i]]
    BY <1>4
  <2> QED
    BY <2>3, <2>4
<1> QED
  BY <1>4, <1>5, <1>6

(* Nothing is selected from nothing.                                          *)
LEMMA SelectedNone == ASSUME NEW S PROVE Selected(<<>>, S) = <<>>
<1> DEFINE none == <<>>
           T == {S}
<1>1. none \in Seq(T) /\ Len(none) = 0
  OBVIOUS
<1> HIDE DEF none, T
<1>2. PICK f \in [0..Len(none) -> Seq(T)] : Selects(none, S, f) /\ Selected(none, S) = f[Len(none)]
  BY <1>1, SelectedIs
<1>3. Selected(none, S) = <<>>
  BY <1>1, <1>2 DEF Selects
<1> QED
  BY <1>3 DEF none

(* A sequence of which things are selected has no others.                     *)
LEMMA SelectedElements ==
  ASSUME NEW T, NEW s \in Seq(T), NEW S
  PROVE  /\ Selected(s, S) \in Seq(T)
         /\ \A x : (\E i \in 1..Len(Selected(s, S)) : Selected(s, S)[i] = x)
                     <=> x \in S /\ \E i \in 1..Len(s) : s[i] = x
<1>1. PICK f \in [0..Len(s) -> Seq(T)] : Selects(s, S, f) /\ Selected(s, S) = f[Len(s)]
  BY SelectedIs
<1>2. Len(s) \in Nat /\ \A i \in 1..Len(s) : s[i] \in T
  OBVIOUS
<1> DEFINE In(q, k) ==
      \A x : (\E i \in 1..Len(q) : q[i] = x) <=> x \in S /\ \E i \in 1..k : s[i] = x
<1> DEFINE Good == {k \in 0..Len(s) : In(f[k], k)}
<1>3. 0 \in Good
  <2>1. f[0] = <<>> /\ Len(<<>>) = 0 /\ 0 \in 0..Len(s)
    BY <1>1, <1>2 DEF Selects
  <2>2. In(<<>>, 0)
    BY <2>1
  <2> QED
    BY <2>1, <2>2
<1>4. ASSUME NEW k \in 0..(Len(s) - 1), k \in Good
      PROVE  k + 1 \in Good
  <2> DEFINE q == f[k]
             y == s[k + 1]
  <2>1. k + 1 \in 1..Len(s) /\ (k + 1) - 1 = k /\ q \in Seq(T) /\ y \in T /\ k \in Nat
    BY <1>2
  <2>2. f[k + 1] = IF y \in S THEN Append(q, y) ELSE q
    BY <1>1, <2>1 DEF Selects
  <2>3. In(q, k)
    BY <1>4
  <2>4. \A x : (\E i \in 1..(k + 1) : s[i] = x) <=> x = y \/ \E i \in 1..k : s[i] = x
    BY <2>1
  <2>5. \A x : (\E i \in 1..Len(Append(q, y)) : Append(q, y)[i] = x)
                 <=> x = y \/ \E i \in 1..Len(q) : q[i] = x
    <3>1. /\ Len(Append(q, y)) = Len(q) + 1 /\ Len(q) \in Nat
          /\ Append(q, y)[Len(q) + 1] = y
          /\ \A i \in 1..Len(q) : Append(q, y)[i] = q[i]
      BY <2>1
    <3> HIDE DEF q, y
    <3> QED
      BY <3>1
  <2> HIDE DEF q, y
  <2>6. In(f[k + 1], k + 1)
    <3>1. CASE y \in S
      <4>1. ASSUME NEW x
            PROVE  (\E i \in 1..Len(Append(q, y)) : Append(q, y)[i] = x)
                     <=> x \in S /\ \E i \in 1..(k + 1) : s[i] = x
        <5>1. (\E i \in 1..Len(q) : q[i] = x) <=> x \in S /\ \E i \in 1..k : s[i] = x
          BY <2>3
        <5>2. (\E i \in 1..(k + 1) : s[i] = x) <=> x = y \/ \E i \in 1..k : s[i] = x
          BY <2>4
        <5>3. (\E i \in 1..Len(Append(q, y)) : Append(q, y)[i] = x) <=> x = y \/ \E i \in 1..Len(q) : q[i] = x
          BY <2>5
        <5> QED
          BY <3>1, <5>1, <5>2, <5>3
      <4> QED
        BY <2>2, <3>1, <4>1
    <3>2. CASE y \notin S
      <4>1. ASSUME NEW x
            PROVE  (\E i \in 1..Len(q) : q[i] = x) <=> x \in S /\ \E i \in 1..(k + 1) : s[i] = x
        <5>1. (\E i \in 1..Len(q) : q[i] = x) <=> x \in S /\ \E i \in 1..k : s[i] = x
          BY <2>3
        <5>2. (\E i \in 1..(k + 1) : s[i] = x) <=> x = y \/ \E i \in 1..k : s[i] = x
          BY <2>4
        <5> QED
          BY <3>2, <5>1, <5>2
      <4> QED
        BY <2>2, <3>2, <4>1
    <3> QED
      BY <3>1, <3>2
  <2> QED
    BY <2>1, <2>6
<1>5. 0..Len(s) \subseteq Good
  <2> HIDE DEF Good
  <2> QED
    BY <1>2, <1>3, <1>4, InductionUpTo
<1>6. In(f[Len(s)], Len(s)) /\ f[Len(s)] \in Seq(T)
  <2>1. Len(s) \in 0..Len(s)
    BY <1>2
  <2> QED
    BY <1>5, <2>1
<1> HIDE DEF Good
<1> QED
  BY <1>1, <1>6

(* One step of the selection.                                                 *)
LEMMA SelectedAppend ==
  ASSUME NEW T, NEW s \in Seq(T), NEW y \in T, NEW S
  PROVE  Selected(Append(s, y), S) = IF y \in S THEN Append(Selected(s, S), y) ELSE Selected(s, S)
<1> DEFINE r == Append(s, y)
<1>1. r \in Seq(T) /\ Len(r) = Len(s) + 1 /\ Len(s) \in Nat /\ r[Len(s) + 1] = y
      /\ \A i \in 1..Len(s) : r[i] = s[i]
  OBVIOUS
<1> HIDE DEF r
<1>2. PICK f \in [0..Len(s) -> Seq(T)] : Selects(s, S, f) /\ Selected(s, S) = f[Len(s)]
  BY SelectedIs
<1>3. PICK g \in [0..Len(r) -> Seq(T)] : Selects(r, S, g) /\ Selected(r, S) = g[Len(r)]
  BY <1>1, SelectedIs
<1> DEFINE Good == {k \in 0..Len(s) : f[k] = g[k]}
<1>4. 0 \in Good
  BY <1>1, <1>2, <1>3 DEF Selects
<1>5. ASSUME NEW k \in 0..(Len(s) - 1), k \in Good
      PROVE  k + 1 \in Good
  <2>1. k + 1 \in 1..Len(s) /\ k + 1 \in 1..Len(r) /\ (k + 1) - 1 = k /\ r[k + 1] = s[k + 1]
    BY <1>1
  <2>2. f[k + 1] = IF s[k + 1] \in S THEN Append(f[k], s[k + 1]) ELSE f[k]
    BY <1>2, <2>1 DEF Selects
  <2>3. g[k + 1] = IF s[k + 1] \in S THEN Append(g[k], s[k + 1]) ELSE g[k]
    BY <1>3, <2>1 DEF Selects
  <2> QED
    BY <1>5, <2>1, <2>2, <2>3
<1>6. 0..Len(s) \subseteq Good
  <2> HIDE DEF Good
  <2> QED
    BY <1>1, <1>4, <1>5, InductionUpTo
<1>7. f[Len(s)] = g[Len(s)]
  BY <1>1, <1>6
<1>8. g[Len(r)] = IF y \in S THEN Append(g[Len(s)], y) ELSE g[Len(s)]
  <2>1. Len(r) \in 1..Len(r) /\ Len(r) - 1 = Len(s) /\ r[Len(r)] = y
    BY <1>1
  <2>2. g[Len(r)] = IF r[Len(r)] \in S THEN Append(g[Len(r) - 1], r[Len(r)]) ELSE g[Len(r) - 1]
    BY <1>3, <2>1 DEF Selects
  <2> QED
    BY <2>1, <2>2
<1> QED
  BY <1>2, <1>3, <1>7, <1>8 DEF r

(* What is selected depends on the elements only.                             *)
LEMMA SelectedSame ==
  ASSUME NEW T, NEW s \in Seq(T), NEW S, NEW R, \A i \in 1..Len(s) : s[i] \in S <=> s[i] \in R
  PROVE  Selected(s, S) = Selected(s, R)
<1>1. Len(s) \in Nat
  OBVIOUS
<1>2. PICK f \in [0..Len(s) -> Seq(T)] : Selects(s, S, f) /\ Selected(s, S) = f[Len(s)]
  BY SelectedIs
<1>3. PICK g \in [0..Len(s) -> Seq(T)] : Selects(s, R, g) /\ Selected(s, R) = g[Len(s)]
  BY SelectedIs
<1> DEFINE Good == {k \in 0..Len(s) : f[k] = g[k]}
<1>4. 0 \in Good
  BY <1>1, <1>2, <1>3 DEF Selects
<1>5. ASSUME NEW k \in 0..(Len(s) - 1), k \in Good
      PROVE  k + 1 \in Good
  <2>1. k + 1 \in 1..Len(s) /\ (k + 1) - 1 = k
    BY <1>1
  <2>2. f[k + 1] = IF s[k + 1] \in S THEN Append(f[k], s[k + 1]) ELSE f[k]
    BY <1>2, <2>1 DEF Selects
  <2>3. g[k + 1] = IF s[k + 1] \in R THEN Append(g[k], s[k + 1]) ELSE g[k]
    BY <1>3, <2>1 DEF Selects
  <2> QED
    BY <1>5, <2>1, <2>2, <2>3
<1>6. 0..Len(s) \subseteq Good
  <2> HIDE DEF Good
  <2> QED
    BY <1>1, <1>4, <1>5, InductionUpTo
<1>7. f[Len(s)] = g[Len(s)]
  BY <1>1, <1>6
<1> QED
  BY <1>2, <1>3, <1>7
---------------------------------------------------------------------------
(* Numbers given to some of 1..n have a bound.                                *)
LEMMA BoundedUpTo ==
  ASSUME NEW n \in Nat, NEW D, D \subseteq 1..n, NEW f, \A i \in D : f[i] \in Nat
  PROVE  \E m \in Nat : \A i \in D : f[i] <= m
<1> DEFINE S == {k \in 0..n : \E m \in Nat : \A i \in D : i <= k => f[i] <= m}
<1>1. 0 \in S
  OBVIOUS
<1>2. ASSUME NEW k \in 0..(n - 1), k \in S PROVE k + 1 \in S
  <2>1. PICK m \in Nat : \A i \in D : i <= k => f[i] <= m
    BY <1>2
  <2>2. CASE k + 1 \in D
    <3> DEFINE l == IF f[k + 1] <= m THEN m ELSE f[k + 1]
    <3>1. l \in Nat /\ m <= l /\ f[k + 1] <= l /\ f[k + 1] \in Nat
      BY <2>2
    <3> HIDE DEF l
    <3>2. ASSUME NEW i \in D, i <= k + 1 PROVE f[i] <= l
      <4>1. i = k + 1 \/ i <= k
        BY <3>2
      <4>2. f[i] \in Nat
        OBVIOUS
      <4> QED
        BY <2>1, <3>1, <4>1, <4>2
    <3> QED
      BY <3>1, <3>2
  <2>3. CASE k + 1 \notin D
    <3>1. \A i \in D : i <= k + 1 => i <= k
      BY <2>3
    <3> QED
      BY <2>1, <3>1
  <2> QED
    BY <2>2, <2>3
<1> HIDE DEF S
<1>3. n \in S
  BY <1>1, <1>2, InductionUpTo
<1> QED
  BY <1>3 DEF S

(* A bounded set of numbers has a greatest.                                   *)
LEMMA GreatestOf ==
  ASSUME NEW S, S \subseteq Nat, S # {}, NEW m \in Nat, \A x \in S : x <= m
  PROVE  \E x \in S : \A y \in S : x >= y
<1> DEFINE R == {m - x : x \in S}
<1>1. R \subseteq Nat /\ R # {}
  <2>1. \A x \in S : x \in Nat /\ m - x \in Nat
    OBVIOUS
  <2> QED
    BY <2>1
<1>2. PICK r \in R : \A y \in R : r <= y
  <2> HIDE DEF R
  <2> QED
    BY <1>1, LeastOf
<1>3. PICK x \in S : r = m - x
  OBVIOUS
<1>4. ASSUME NEW y \in S PROVE x >= y
  <2>1. m - y \in R
    OBVIOUS
  <2>2. m - x <= m - y
    BY <1>2, <1>3, <2>1
  <2>3. x \in Nat /\ y \in Nat
    OBVIOUS
  <2> QED
    BY <2>2, <2>3
<1> QED
  BY <1>4

(* The places of a sequence that are selected.                             *)
Places(s, S) == {i \in 1..Len(s) : s[i] \in S}

(* Where the selected things are in what is selected: each at a place of   *)
(* its own.                                                                *)
LEMMA SelectedPlaces ==
  ASSUME NEW T, NEW s \in Seq(T), NEW S
  PROVE  \E p \in [Places(s, S) -> 1..Len(Selected(s, S))] :
            /\ \A i \in Places(s, S) : Selected(s, S)[p[i]] = s[i]
            /\ \A i, j \in Places(s, S) : i # j => p[i] # p[j]
<1>1. PICK f \in [0..Len(s) -> Seq(T)] : Selects(s, S, f) /\ Selected(s, S) = f[Len(s)]
  BY SelectedIs
<1>2. Len(s) \in Nat /\ \A i \in 1..Len(s) : s[i] \in T
  OBVIOUS
<1> DEFINE L(i) == Len(f[i])
           At(k) == /\ \A i \in 1..k : /\ L(i) <= L(k)
                                       /\ s[i] \in S => 1 <= L(i) /\ f[k][L(i)] = s[i]
                    /\ \A i, j \in 1..k : i < j /\ s[j] \in S => L(i) < L(j)
           Good == {k \in 0..Len(s) : At(k)}
<1>3. \A i \in 0..Len(s) : L(i) \in Nat
  BY <1>1
<1>4. 0 \in Good
  BY <1>2
<1>5. ASSUME NEW k \in 0..(Len(s) - 1), k \in Good
      PROVE  k + 1 \in Good
  <2> DEFINE q == f[k]
             y == s[k + 1]
  <2>1. k + 1 \in 1..Len(s) /\ (k + 1) - 1 = k /\ q \in Seq(T) /\ y \in T /\ k \in Nat /\ k \in 0..Len(s) /\ k + 1 \in 0..Len(s)
    BY <1>1, <1>2
  <2>2. f[k + 1] = IF y \in S THEN Append(q, y) ELSE q
    BY <1>1, <2>1 DEF Selects
  <2>3. /\ L(k) = Len(q) /\ Len(q) \in Nat
        /\ y \in S => L(k + 1) = L(k) + 1 /\ f[k + 1][L(k + 1)] = y
        /\ y \notin S => L(k + 1) = L(k)
        /\ \A n \in 1..L(k) : f[k + 1][n] = q[n]
    <3>1. /\ Len(Append(q, y)) = Len(q) + 1 /\ Append(q, y)[Len(q) + 1] = y
          /\ \A n \in 1..Len(q) : Append(q, y)[n] = q[n]
          /\ Len(q) \in Nat
      BY <2>1
    <3> QED
      BY <2>2, <3>1
  <2>4. At(k)
    BY <1>5
  <2>5. L(k) \in Nat /\ L(k + 1) \in Nat /\ L(k) <= L(k + 1) /\ (y \in S => L(k) < L(k + 1) /\ 1 <= L(k + 1))
    BY <2>3
  <2>6. ASSUME NEW i \in 1..(k + 1)
        PROVE  L(i) <= L(k + 1) /\ (s[i] \in S => 1 <= L(i) /\ f[k + 1][L(i)] = s[i])
    <3>1. CASE i = k + 1
      BY <2>3, <2>5, <3>1
    <3>2. CASE i # k + 1
      <4>1. i \in 1..k /\ i \in 0..Len(s) /\ L(i) \in Nat
        BY <1>2, <1>3, <2>1, <3>2
      <4>2. L(i) <= L(k) /\ (s[i] \in S => 1 <= L(i) /\ q[L(i)] = s[i])
        BY <2>4, <4>1
      <4>3. s[i] \in S => f[k + 1][L(i)] = q[L(i)]
        BY <2>3, <4>1, <4>2
      <4> HIDE DEF L, q
      <4> QED
        BY <2>5, <4>1, <4>2, <4>3
    <3> QED
      BY <3>1, <3>2
  <2>7. ASSUME NEW i \in 1..(k + 1), NEW j \in 1..(k + 1), i < j, s[j] \in S
        PROVE  L(i) < L(j)
    <3>1. CASE j = k + 1
      <4>1. i \in 1..k /\ i \in 0..Len(s) /\ L(i) \in Nat
        BY <1>2, <1>3, <2>1, <2>7, <3>1
      <4>2. L(i) <= L(k) /\ L(k) < L(k + 1)
        BY <2>4, <2>5, <2>7, <3>1, <4>1
      <4> HIDE DEF L
      <4> QED
        BY <2>5, <3>1, <4>1, <4>2
    <3>2. CASE j # k + 1
      <4>1. i \in 1..k /\ j \in 1..k
        BY <2>1, <2>7, <3>2
      <4> QED
        BY <2>4, <2>7, <4>1
    <3> QED
      BY <3>1, <3>2
  <2> QED
    BY <2>1, <2>6, <2>7
<1>6. At(Len(s))
  <2>1. 0..Len(s) \subseteq Good
    <3> HIDE DEF Good
    <3> QED
      BY <1>2, <1>4, <1>5, InductionUpTo
  <2> QED
    BY <1>2, <2>1
<1> DEFINE n == Len(s)
           X == {i \in 1..n : s[i] \in S}
           p == [i \in X |-> L(i)]
<1>7. ASSUME NEW i \in X
      PROVE  L(i) \in 1..L(n) /\ f[n][L(i)] = s[i]
  <2>1. L(i) \in Nat /\ L(n) \in Nat
    BY <1>2, <1>3
  <2>2. L(i) <= L(n) /\ 1 <= L(i) /\ f[n][L(i)] = s[i]
    BY <1>6
  <2> HIDE DEF L
  <2> QED
    BY <2>1, <2>2
<1>8. ASSUME NEW i \in X, NEW j \in X, i # j
      PROVE  L(i) # L(j)
  <2>1. L(i) \in Nat /\ L(j) \in Nat /\ i \in Nat /\ j \in Nat
    BY <1>2, <1>3
  <2>2. (i < j => L(i) < L(j)) /\ (j < i => L(j) < L(i))
    BY <1>6
  <2> HIDE DEF L, X
  <2> QED
    BY <1>8, <2>1, <2>2
<1> QED
  <2>1. p \in [X -> 1..L(n)]
    BY <1>7
  <2>2. \A i \in X : f[n][p[i]] = s[i]
    BY <1>7
  <2>3. \A i, j \in X : i # j => p[i] # p[j]
    BY <1>8
  <2>4. Places(s, S) = X
    BY DEF Places
  <2> HIDE DEF p, X
  <2> QED
    BY <1>1, <2>1, <2>2, <2>3, <2>4
=============================================================================
