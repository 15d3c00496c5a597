----------------------------- MODULE Lists_proofs -----------------------------
(***************************************************************************)
(* Facts about the operators of Lists and about lists without repetitions, *)
(* for lists over any set and of any length.  What a recursive function    *)
(* computes is proved by induction on the number of elements it has read:  *)
(* Induction follows from the least number principle of the library, on a  *)
(* set of numbers, and RecursionExists gives a recursion its function.     *)
(***************************************************************************)
EXTENDS Lists, SequencesExt, WellFoundedInduction, FiniteSetTheorems, TLAPS

\* A set of natural numbers that is not empty has a least member.
LEMMA MinimumExists ==
  ASSUME NEW T, T \subseteq Nat, T # {}
  PROVE \E m \in T : \A y \in T : m <= y
<1>1. IsWellFoundedOn(OpToRel(<,Nat),Nat)  BY NatLessThanWellFounded
<1>2. PICK x \in T : \A y \in T : ~(<<y,x>> \in OpToRel(<,Nat))  BY <1>1, WFMin
<1>3. ASSUME NEW y \in T PROVE x <= y
  <2>1. x \in Nat /\ y \in Nat OBVIOUS
  <2>2. CASE y < x
    <3>1. <<y,x>> \in OpToRel(<,Nat)  BY <2>1, <2>2 DEF OpToRel
    <3> QED BY <3>1, <1>2
  <2> QED BY <2>1, <2>2
<1> QED BY <1>3

\* Induction from 0 to N, on the set of numbers a fact holds of.
LEMMA Induction ==
  ASSUME NEW N \in Nat, NEW T, 0 \in T, \A n \in 1..N : n - 1 \in T => n \in T
  PROVE  0..N \subseteq T
<1> DEFINE Bad == {n \in 0..N : n \notin T}
<1> SUFFICES ASSUME Bad # {} PROVE FALSE OBVIOUS
<1>1. PICK m \in Bad : \A y \in Bad : m <= y
  <2> Bad \subseteq Nat OBVIOUS
  <2> HIDE DEF Bad
  <2> QED BY MinimumExists
<1>2. m # 0 /\ m \in 1..N /\ m - 1 \in 0..N OBVIOUS
<1>3. m - 1 \notin Bad BY <1>1, <1>2
<1> QED BY <1>2, <1>3

\* step takes the n-th value of a recursion over 1..N from the one before it.
IsStep(step, N, D) == step \in [1..N -> [D -> D]]

\* f is the recursion that starts with base and takes those steps.
Unfolds(f, N, base, step) ==
    f[0] = base /\ \A n \in 1..N : f[n] = step[n][f[n - 1]]

\* Such a recursion defines a function: the values up to n extend to n + 1.
LEMMA RecursionExists ==
  ASSUME NEW N \in Nat, NEW D, NEW base \in D, NEW step, IsStep(step, N, D)
  PROVE  \E f \in [0..N -> D] : Unfolds(f, N, base, step)
<1> USE DEF IsStep, Unfolds
<1> DEFINE P(k, f) == /\ f \in [0..k -> D] /\ f[0] = base
                      /\ \A n \in 1..k : f[n] = step[n][f[n - 1]]
           T == {k \in 0..N : \E f : P(k, f)}
<1>1. 0 \in T
  <2>1. P(0, [n \in 0..0 |-> base]) OBVIOUS
  <2> HIDE DEF P
  <2> QED BY <2>1
<1>2. ASSUME NEW k \in 1..N, k - 1 \in T PROVE k \in T
  <2>1. PICK f : P(k - 1, f) BY <1>2
  <2> DEFINE g == [n \in 0..k |-> IF n = k THEN step[k][f[k - 1]] ELSE f[n]]
  <2>2. k - 1 \in 0..(k-1) /\ f[k - 1] \in D BY <2>1
  <2>3. step[k][f[k - 1]] \in D BY <2>2
  <2>4. g \in [0..k -> D]
     <3> ASSUME NEW n \in 0..k PROVE (IF n = k THEN step[k][f[k - 1]] ELSE f[n]) \in D
       <4>1. CASE n = k BY <2>3, <4>1
       <4>2. CASE n # k 
         <5> n \in 0..(k-1) BY <4>2
         <5> QED BY <2>1, <4>2
       <4> QED BY <4>1, <4>2
     <3> QED OBVIOUS
  <2>5. g[0] = base BY <2>1
  <2>6. ASSUME NEW n \in 1..k PROVE g[n] = step[n][g[n - 1]]
    <3>1. n \in 0..k /\ n - 1 \in 0..k /\ n - 1 # k OBVIOUS
    <3>2. CASE n = k BY <3>1, <3>2
    <3>3. CASE n # k
      <4> n \in 1..(k - 1) BY <3>3
      <4> QED BY <2>1, <3>1, <3>3
    <3> QED BY <3>2, <3>3
  <2>7. P(k, g) BY <2>4, <2>5, <2>6
  <2>8. k \in 0..N OBVIOUS
  <2> HIDE DEF P, g
  <2> QED BY <2>7, <2>8
<1>3. N \in T
  <2> HIDE DEF T
  <2>1. 0..N \subseteq T BY <1>1, <1>2, Induction
  <2> QED BY <2>1
<1> QED BY <1>3

\* The running sum starts at 0 and adds the figure of every row that counts.
LEMMA SummedUpToStep ==
  ASSUME NEW figure \in Seq(Int), NEW rows
  PROVE /\ SummedUpTo(figure, rows) \in [0..Len(figure) -> Int]
        /\ SummedUpTo(figure, rows)[0] = 0
        /\ \A n \in 1..Len(figure) : SummedUpTo(figure, rows)[n]
             = SummedUpTo(figure, rows)[n-1] + (IF n \in rows THEN figure[n] ELSE 0)
<1> DEFINE N == Len(figure)
           step == [n \in 1..N |-> [v \in Int |->
                       v + (IF n \in rows THEN figure[n] ELSE 0)]]
           Eq(f) == f = [n \in 0..N |->
                           IF n = 0 THEN 0
                           ELSE f[n - 1] + (IF n \in rows THEN figure[n] ELSE 0)]
<1>1. N \in Nat OBVIOUS
<1>2. IsStep(step, N, Int)
  BY DEF IsStep
<1>3. PICK f \in [0..N -> Int] : Unfolds(f, N, 0, step)
  <2> HIDE DEF step, N
  <2>1. 0 \in Int OBVIOUS
  <2> QED BY <1>1, <1>2, <2>1, RecursionExists
<1>4. Eq(f)
  <2> SUFFICES ASSUME NEW n \in 0..N, n # 0
               PROVE  f[n] = f[n - 1] + (IF n \in rows THEN figure[n] ELSE 0)
    BY <1>3 DEF Unfolds
  <2>1. n \in 1..N /\ n - 1 \in 0..N OBVIOUS
  <2>2. f[n - 1] \in Int BY <1>3, <2>1
  <2>3. step[n][f[n - 1]] = f[n - 1] + (IF n \in rows THEN figure[n] ELSE 0)
    BY <2>1, <2>2
  <2> HIDE DEF step, N
  <2> QED BY <1>3, <2>1, <2>3 DEF Unfolds
<1>5. SummedUpTo(figure, rows) = CHOOSE h : Eq(h)
  BY DEF SummedUpTo
<1> DEFINE g == SummedUpTo(figure, rows)
<1>6. Eq(g)
  <2> HIDE DEF Eq
  <2> QED BY <1>4, <1>5
<1>7. \A n \in 0..N : g[n] = IF n = 0 THEN 0
                             ELSE g[n - 1] + (IF n \in rows THEN figure[n] ELSE 0)
  <2> HIDE DEF g, N
  <2> QED BY <1>6
<1>8. \A n \in 0..N : f[n] = IF n = 0 THEN 0
                             ELSE f[n - 1] + (IF n \in rows THEN figure[n] ELSE 0)
  <2> HIDE DEF N
  <2> QED BY <1>4
<1> HIDE DEF g, N, step, Eq
<1>9. 0..N \subseteq {n \in 0..N : f[n] = g[n]}
  <2> DEFINE T == {n \in 0..N : f[n] = g[n]}
  <2>1. 0 \in T  BY <1>1, <1>7, <1>8
  <2>2. \A n \in 1..N : n - 1 \in T => n \in T  BY <1>1, <1>7, <1>8
  <2>3. 0..N \subseteq T
    <3> HIDE DEF T
    <3> QED BY <1>1, <2>1, <2>2, Induction
  <2> QED BY <2>3
<1>10. g = f
  <2>1. g = [n \in 0..N |-> g[n]]  BY <1>6 DEF Eq
  <2> QED BY <1>3, <1>9, <2>1
<1> QED BY <1>3, <1>8, <1>10 DEF g, N

\* The comprehension starts empty and appends every element it keeps.
LEMMA KeptUpToStep ==
  ASSUME NEW D, NEW s \in Seq(D), NEW S
  PROVE  /\ KeptUpTo(s, S) \in [0..Len(s) -> Seq(D)]
         /\ KeptUpTo(s, S)[0] = <<>>
         /\ \A n \in 1..Len(s) :
               KeptUpTo(s, S)[n] = IF s[n] \in S THEN Append(KeptUpTo(s, S)[n - 1], s[n])
                                   ELSE KeptUpTo(s, S)[n - 1]
<1> DEFINE N == Len(s)
           step == [n \in 1..N |-> [t \in Seq(D) |->
                       IF s[n] \in S THEN Append(t, s[n]) ELSE t]]
           Eq(f) == f = [n \in 0..N |->
                            IF n = 0 THEN <<>>
                            ELSE IF s[n] \in S THEN Append(f[n - 1], s[n]) ELSE f[n - 1]]
<1>1. N \in Nat  OBVIOUS
<1>2. IsStep(step, N, Seq(D))
  <2>1. ASSUME NEW n \in 1..N, NEW t \in Seq(D)
        PROVE  (IF s[n] \in S THEN Append(t, s[n]) ELSE t) \in Seq(D)
    <3>1. s[n] \in D  OBVIOUS
    <3>2. Append(t, s[n]) \in Seq(D)  BY <3>1
    <3> QED BY <3>2
  <2> QED BY <2>1 DEF IsStep
<1>3. PICK f \in [0..N -> Seq(D)] : Unfolds(f, N, <<>>, step)
  <2> HIDE DEF step, N
  <2>1. <<>> \in Seq(D)  OBVIOUS
  <2> QED BY <1>1, <1>2, <2>1, RecursionExists
<1>4. ASSUME NEW n \in 1..N
      PROVE  f[n] = IF s[n] \in S THEN Append(f[n - 1], s[n]) ELSE f[n - 1]
  <2>1. n - 1 \in 0..N  OBVIOUS
  <2>2. f[n - 1] \in Seq(D)  BY <1>3, <2>1
  <2>3. step[n][f[n - 1]] = IF s[n] \in S THEN Append(f[n - 1], s[n]) ELSE f[n - 1]
    BY <2>2
  <2> HIDE DEF step, N
  <2> QED BY <1>3, <2>3 DEF Unfolds
<1>5. f[0] = <<>>  BY <1>3 DEF Unfolds
<1>6. KeptUpTo(s, S) = CHOOSE h : Eq(h)
  BY DEF KeptUpTo
<1>7. Eq(f)
  <2> SUFFICES ASSUME NEW n \in 0..N, n # 0
               PROVE  f[n] = IF s[n] \in S THEN Append(f[n - 1], s[n]) ELSE f[n - 1]
    BY <1>3, <1>5
  <2>1. n \in 1..N  OBVIOUS
  <2> QED BY <1>4, <2>1
<1> DEFINE g == KeptUpTo(s, S)
<1>8. Eq(g)
  <2> HIDE DEF Eq
  <2> QED BY <1>6, <1>7
<1>9. \A n \in 0..N : g[n] = IF n = 0 THEN <<>>
                             ELSE IF s[n] \in S THEN Append(g[n - 1], s[n]) ELSE g[n - 1]
  <2> HIDE DEF g, N
  <2> QED BY <1>8
<1> HIDE DEF g, N, step, Eq
<1>10. 0..N \subseteq {n \in 0..N : f[n] = g[n]}
  <2> DEFINE T == {n \in 0..N : f[n] = g[n]}
  <2>1. 0 \in T  BY <1>1, <1>5, <1>9
  <2>2. ASSUME NEW n \in 1..N, n - 1 \in T  PROVE n \in T
    <3>1. n \in 0..N /\ n # 0  BY <1>1
    <3>2. f[n - 1] = g[n - 1]  BY <2>2
    <3>3. f[n] = g[n]  BY <1>4, <1>9, <3>1, <3>2
    <3> QED BY <3>1, <3>3
  <2>3. 0..N \subseteq T
    <3> HIDE DEF T
    <3> QED BY <1>1, <2>1, <2>2, Induction
  <2> QED BY <2>3
<1>11. g = f
  <2>1. g = [n \in 0..N |-> g[n]]  BY <1>8 DEF Eq
  <2> QED BY <1>3, <1>10, <2>1
<1> QED BY <1>3, <1>4, <1>5, <1>11 DEF g, N

\* A function on 1..n is a sequence of length n.
LEMMA FunctionIsList ==
  ASSUME NEW D, NEW n \in Nat, NEW f \in [1..n -> D]
  PROVE  f \in Seq(D) /\ Len(f) = n
  OBVIOUS

\* The elements of a concatenation are those of its parts, in order.
LEMMA Concatenation ==
  ASSUME NEW D, NEW a \in Seq(D), NEW b \in Seq(D)
  PROVE  /\ a \o b \in Seq(D) /\ Len(a \o b) = Len(a) + Len(b)
         /\ DOMAIN (a \o b) = 1..(Len(a) + Len(b))
         /\ \A k \in 1..(Len(a) + Len(b)) :
               (a \o b)[k] = IF k <= Len(a) THEN a[k] ELSE b[k - Len(a)]
<1>1. Len(a) \in Nat /\ Len(b) \in Nat  OBVIOUS
<1>2. a \o b \in Seq(D) /\ Len(a \o b) = Len(a) + Len(b)  OBVIOUS
<1>3. DOMAIN (a \o b) = 1..(Len(a) + Len(b))  BY <1>2
<1>4. ASSUME NEW k \in 1..(Len(a) + Len(b))
      PROVE  (a \o b)[k] = IF k <= Len(a) THEN a[k] ELSE b[k - Len(a)]
  BY <1>1
<1> QED BY <1>2, <1>3, <1>4

\* Appending adds one element, at the end.
LEMMA AppendedElements ==
  ASSUME NEW D, NEW b \in Seq(D), NEW e \in D, NEW c, c = Append(b, e)
  PROVE  /\ \A k \in DOMAIN c : (k \in DOMAIN b /\ c[k] = b[k])
                               \/ (k = Len(b) + 1 /\ c[k] = e)
         /\ \A k \in DOMAIN b : k \in DOMAIN c /\ c[k] = b[k] /\ k <= Len(b)
         /\ Len(b) + 1 \in DOMAIN c /\ c[Len(b) + 1] = e
         /\ DOMAIN b \subseteq Int /\ Len(b) \in Nat
  OBVIOUS

\* What is kept of the first n elements: members of S, all of them, in their order.
LEMMA KeptUpToElements ==
  ASSUME NEW D, NEW s \in Seq(D), NEW S
  PROVE  \A n \in 0..Len(s) :
            /\ \A k \in DOMAIN KeptUpTo(s, S)[n] :
                  KeptUpTo(s, S)[n][k] \in S
            /\ \A k \in DOMAIN KeptUpTo(s, S)[n] :
                  \E i \in 1..n : s[i] = KeptUpTo(s, S)[n][k]
            /\ \A i \in 1..n : s[i] \in S =>
                  \E k \in DOMAIN KeptUpTo(s, S)[n] : KeptUpTo(s, S)[n][k] = s[i]
            /\ \A k, l \in DOMAIN KeptUpTo(s, S)[n] : k < l =>
                  \E i, j \in 1..n : /\ i < j
                                     /\ s[i] = KeptUpTo(s, S)[n][k]
                                     /\ s[j] = KeptUpTo(s, S)[n][l]
<1> DEFINE N == Len(s)
           K == KeptUpTo(s, S)
           From(n) == /\ \A k \in DOMAIN K[n] : K[n][k] \in S
                      /\ \A k \in DOMAIN K[n] : \E i \in 1..n : s[i] = K[n][k]
                      /\ \A i \in 1..n : s[i] \in S => \E k \in DOMAIN K[n] : K[n][k] = s[i]
                      /\ \A k, l \in DOMAIN K[n] : k < l =>
                            \E i, j \in 1..n : i < j /\ s[i] = K[n][k] /\ s[j] = K[n][l]
           T == {n \in 0..N : From(n)}
<1>1. N \in Nat /\ \A n \in 1..N : s[n] \in D  OBVIOUS
<1>2. /\ K[0] = <<>>
      /\ \A n \in 0..N : K[n] \in Seq(D)
      /\ \A n \in 1..N : K[n] = IF s[n] \in S THEN Append(K[n - 1], s[n]) ELSE K[n - 1]
  BY KeptUpToStep
<1> HIDE DEF K, N
<1>3. 0 \in T
  <2>1. DOMAIN K[0] = {}  BY <1>2
  <2>2. 1..0 = {}  OBVIOUS
  <2>3. From(0)  BY <2>1, <2>2
  <2>4. 0 \in 0..N  BY <1>1
  <2> HIDE DEF From
  <2> QED BY <2>3, <2>4
<1>4. ASSUME NEW n \in 1..N, n - 1 \in T  PROVE n \in T
  <2> DEFINE m == n - 1
             b == K[m]
             c == K[n]
  <2>1. m \in 0..N /\ n \in 0..N /\ 1..m \subseteq 1..n /\ n \in 1..n /\ n = m + 1
    BY <1>1
  <2>2. From(m)  BY <1>4
  <2>3. b \in Seq(D) /\ c \in Seq(D)  BY <1>2, <2>1
  <2>4. \A i \in 1..n : i \in 1..m \/ i = n  BY <1>1, <2>1
  <2>5. CASE s[n] \notin S
    <3>1. c = b  BY <1>2, <2>5
    <3> HIDE DEF m, b, c
    <3>2. From(n)
      <4>1. /\ \A k \in DOMAIN b : b[k] \in S
            /\ \A k \in DOMAIN b : \E i \in 1..m : s[i] = b[k]
            /\ \A i \in 1..m : s[i] \in S => \E k \in DOMAIN b : b[k] = s[i]
            /\ \A k, l \in DOMAIN b : k < l =>
                  \E i, j \in 1..m : i < j /\ s[i] = b[k] /\ s[j] = b[l]
        BY <2>2 DEF b
      <4>2. /\ \A k \in DOMAIN c : c[k] \in S
            /\ \A k \in DOMAIN c : \E i \in 1..n : s[i] = c[k]
            /\ \A i \in 1..n : s[i] \in S => \E k \in DOMAIN c : c[k] = s[i]
            /\ \A k, l \in DOMAIN c : k < l =>
                  \E i, j \in 1..n : i < j /\ s[i] = c[k] /\ s[j] = c[l]
        BY <2>1, <2>4, <2>5, <3>1, <4>1
      <4> QED BY <4>2 DEF c
    <3> HIDE DEF From
    <3> QED BY <2>1, <3>2
  <2>6. CASE s[n] \in S
    <3>1. c = Append(b, s[n])  BY <1>2, <2>6
    <3>2. /\ \A k \in DOMAIN c : (k \in DOMAIN b /\ c[k] = b[k])
                                 \/ (k = Len(b) + 1 /\ c[k] = s[n])
          /\ \A k \in DOMAIN b : k \in DOMAIN c /\ c[k] = b[k] /\ k <= Len(b)
          /\ Len(b) + 1 \in DOMAIN c /\ c[Len(b) + 1] = s[n]
          /\ DOMAIN b \subseteq Int /\ Len(b) \in Nat
      <4>1. s[n] \in D  BY <1>1
      <4> HIDE DEF b, c
      <4> QED BY <2>3, <3>1, <4>1, AppendedElements
    <3>3. /\ \A k \in DOMAIN b : b[k] \in S
          /\ \A k \in DOMAIN b : \E i \in 1..m : s[i] = b[k]
          /\ \A i \in 1..m : s[i] \in S => \E k \in DOMAIN b : b[k] = s[i]
          /\ \A k, l \in DOMAIN b : k < l =>
                \E i, j \in 1..m : i < j /\ s[i] = b[k] /\ s[j] = b[l]
      BY <2>2
    <3>4. \A i \in 1..m : i < n  BY <2>1
    <3> HIDE DEF m, b, c
    <3>5. \A k \in DOMAIN c : c[k] \in S  BY <2>6, <3>2, <3>3
    <3>6. \A k \in DOMAIN c : \E i \in 1..n : s[i] = c[k]
      BY <2>1, <3>2, <3>3
    <3>7. \A i \in 1..n : s[i] \in S => \E k \in DOMAIN c : c[k] = s[i]
      BY <2>4, <3>2, <3>3
    <3>8. ASSUME NEW k \in DOMAIN c, NEW l \in DOMAIN c, k < l
          PROVE  \E i, j \in 1..n : i < j /\ s[i] = c[k] /\ s[j] = c[l]
      <4>1. k \in DOMAIN b /\ c[k] = b[k]  BY <3>2, <3>8
      <4>2. CASE l \in DOMAIN b /\ c[l] = b[l]
        BY <2>1, <3>3, <3>8, <4>1, <4>2
      <4>3. CASE l = Len(b) + 1 /\ c[l] = s[n]
        BY <2>1, <3>3, <3>4, <4>1, <4>3
      <4> QED BY <3>2, <4>2, <4>3
    <3>9. From(n)
      <4>1. /\ \A k \in DOMAIN c : c[k] \in S
            /\ \A k \in DOMAIN c : \E i \in 1..n : s[i] = c[k]
            /\ \A i \in 1..n : s[i] \in S => \E k \in DOMAIN c : c[k] = s[i]
            /\ \A k, l \in DOMAIN c : k < l =>
                  \E i, j \in 1..n : i < j /\ s[i] = c[k] /\ s[j] = c[l]
        BY <3>5, <3>6, <3>7, <3>8
      <4> QED BY <4>1 DEF c
    <3> HIDE DEF From
    <3> QED BY <2>1, <3>9
  <2> QED BY <2>5, <2>6
<1>5. 0..N \subseteq T
  <2> HIDE DEF T
  <2> QED BY <1>1, <1>3, <1>4, Induction
<1>6. \A n \in 0..N : From(n)
  <2> HIDE DEF From
  <2> QED BY <1>5
<1> QED BY <1>6 DEF K, N

\* The comprehension returns the elements that are in S and no others.
LEMMA KeptElements ==
  ASSUME NEW D, NEW s \in Seq(D), NEW S
  PROVE  Kept(s, S) \in Seq(D) /\ ToSet(Kept(s, S)) = ToSet(s) \cap S
<1> DEFINE n == Len(s)
           t == KeptUpTo(s, S)[n]
<1>1. n \in 0..Len(s) /\ DOMAIN s = 1..n  OBVIOUS
<1>2. t \in Seq(D)
  <2> HIDE DEF n
  <2> QED BY <1>1, KeptUpToStep
<1>3. /\ \A k \in DOMAIN t : t[k] \in S
      /\ \A k \in DOMAIN t : \E i \in 1..n : s[i] = t[k]
      /\ \A i \in 1..n : s[i] \in S => \E k \in DOMAIN t : t[k] = s[i]
  <2> HIDE DEF n
  <2> QED BY <1>1, KeptUpToElements
<1> HIDE DEF n, t
<1>4. ToSet(t) = ToSet(s) \cap S  BY <1>1, <1>3 DEF ToSet
<1> QED BY <1>2, <1>4 DEF Kept, n, t

\* It returns them in the order they had.
LEMMA KeptOrder ==
  ASSUME NEW D, NEW s \in Seq(D), NEW S,
         NEW k \in DOMAIN Kept(s, S), NEW l \in DOMAIN Kept(s, S), k < l
  PROVE  \E i, j \in DOMAIN s : i < j /\ s[i] = Kept(s, S)[k] /\ s[j] = Kept(s, S)[l]
<1> DEFINE n == Len(s)
           t == KeptUpTo(s, S)[n]
<1>1. n \in 0..Len(s) /\ DOMAIN s = 1..n  OBVIOUS
<1>2. \A a, b \in DOMAIN t : a < b =>
         \E i, j \in 1..n : i < j /\ s[i] = t[a] /\ s[j] = t[b]
  <2> HIDE DEF n
  <2> QED BY <1>1, KeptUpToElements
<1>3. Kept(s, S) = t  BY DEF Kept
<1> HIDE DEF n, t
<1> QED BY <1>1, <1>2, <1>3

\* It repeats an element only if the list did.
LEMMA KeptInjective ==
  ASSUME NEW D, NEW s \in Seq(D), NEW S, IsInjective(s)
  PROVE  IsInjective(Kept(s, S))
<1> DEFINE t == Kept(s, S)
<1>1. t \in Seq(D)  BY KeptElements
<1>2. ASSUME NEW k \in DOMAIN t, NEW l \in DOMAIN t, k < l  PROVE t[k] # t[l]
  <2>1. PICK i \in DOMAIN s, j \in DOMAIN s : i < j /\ s[i] = t[k] /\ s[j] = t[l]
    BY <1>2, KeptOrder
  <2>2. i # j  BY <2>1
  <2> HIDE DEF t
  <2> QED BY <2>1, <2>2 DEF IsInjective
<1> HIDE DEF t
<1>3. \A k, l \in DOMAIN t : k = l \/ k < l \/ l < k  BY <1>1
<1>4. IsInjective(t)  BY <1>2, <1>3 DEF IsInjective
<1> QED BY <1>4 DEF t

\* Sums of equal figures over the same rows are equal.
LEMMA SummedUpToAgrees ==
  ASSUME NEW figure \in Seq(Int), NEW rows, NEW other \in Seq(Int), NEW others,
         NEW n \in Nat, n <= Len(figure), n <= Len(other),
         \A i \in 1..n : i \in rows <=> i \in others,
         \A i \in 1..n : i \in rows => figure[i] = other[i]
  PROVE  SummedUpTo(figure, rows)[n] = SummedUpTo(other, others)[n]
<1> DEFINE F == SummedUpTo(figure, rows)
           G == SummedUpTo(other, others)
           T == {k \in 0..n : F[k] = G[k]}
<1>1. /\ F[0] = 0
      /\ \A k \in 1..Len(figure) :
            F[k] = F[k - 1] + (IF k \in rows THEN figure[k] ELSE 0)
  BY SummedUpToStep
<1>2. /\ G[0] = 0
      /\ \A k \in 1..Len(other) :
            G[k] = G[k - 1] + (IF k \in others THEN other[k] ELSE 0)
  BY SummedUpToStep
<1> HIDE DEF F, G
<1>3. 0 \in T  BY <1>1, <1>2
<1>4. ASSUME NEW k \in 1..n, k - 1 \in T  PROVE k \in T
  <2>1. k \in 1..Len(figure) /\ k \in 1..Len(other)  OBVIOUS
  <2>2. F[k] = G[k]  BY <1>1, <1>2, <1>4, <2>1
  <2> QED BY <2>2
<1>5. 0..n \subseteq T
  <2> HIDE DEF T
  <2> QED BY <1>3, <1>4, Induction
<1>6. n \in T  BY <1>5
<1> QED BY <1>6 DEF F, G

\* A sum of natural numbers is one, and grows with the rows it counts.
LEMMA SummedUpToBounds ==
  ASSUME NEW figure \in Seq(Int), NEW rows, NEW more, rows \subseteq more,
         \A i \in DOMAIN figure : i \in more => figure[i] >= 0
  PROVE  \A n \in 0..Len(figure) :
            /\ SummedUpTo(figure, rows)[n] \in Nat
            /\ SummedUpTo(figure, rows)[n] <= SummedUpTo(figure, more)[n]
<1> DEFINE F == SummedUpTo(figure, rows)
           G == SummedUpTo(figure, more)
           N == Len(figure)
           T == {k \in 0..N : F[k] \in Nat /\ G[k] \in Nat /\ F[k] <= G[k]}
<1>1. /\ F[0] = 0
      /\ \A k \in 1..N : F[k] = F[k - 1] + (IF k \in rows THEN figure[k] ELSE 0)
  BY SummedUpToStep
<1>2. /\ G[0] = 0
      /\ \A k \in 1..N : G[k] = G[k - 1] + (IF k \in more THEN figure[k] ELSE 0)
  BY SummedUpToStep
<1>3. N \in Nat /\ \A k \in 1..N : figure[k] \in Int /\ (k \in more => figure[k] >= 0)
  OBVIOUS
<1> HIDE DEF F, G, N
<1>4. 0 \in T  BY <1>1, <1>2, <1>3
<1>5. ASSUME NEW k \in 1..N, k - 1 \in T  PROVE k \in T
  <2>1. F[k - 1] \in Nat /\ G[k - 1] \in Nat /\ F[k - 1] <= G[k - 1]  BY <1>5
  <2>2. CASE k \in rows
    <3>1. F[k] = F[k - 1] + figure[k] /\ G[k] = G[k - 1] + figure[k]  BY <1>1, <1>2, <2>2
    <3>2. figure[k] \in Nat  BY <1>3, <2>2
    <3> QED BY <1>3, <2>1, <3>1, <3>2
  <2>3. CASE k \notin rows
    <3>1. F[k] = F[k - 1] + 0  BY <1>1, <2>3
    <3>2. G[k] = G[k - 1] + (IF k \in more THEN figure[k] ELSE 0)  BY <1>2
    <3>3. (IF k \in more THEN figure[k] ELSE 0) \in Nat  BY <1>3
    <3> QED BY <1>3, <2>1, <3>1, <3>2, <3>3
  <2> QED BY <2>2, <2>3
<1>6. 0..N \subseteq T
  <2> HIDE DEF T
  <2> QED BY <1>3, <1>4, <1>5, Induction
<1>7. \A n \in 0..N : F[n] \in Nat /\ F[n] <= G[n]  BY <1>6
<1> QED BY <1>7 DEF F, G, N

\* g is f with one more figure; the rows up to the n-th that S and R count agree.
OneMore(f, g) == Len(g) = Len(f) + 1 /\ \A i \in 1..Len(f) : g[i] = f[i]
SameUpTo(n, R, S) == \A i \in 1..n : i \in S <=> i \in R

\* One more row adds its figure if it counts, and nothing otherwise.
LEMMA SummedAppend ==
  ASSUME NEW f \in Seq(Int), NEW g \in Seq(Int), OneMore(f, g),
         NEW R, NEW S, SameUpTo(Len(f), R, S)
  PROVE  Summed(g, S) = Summed(f, R) + (IF Len(g) \in S THEN g[Len(g)] ELSE 0)
<1> DEFINE n == Len(f)
           k == Len(g)
<1>1. k \in 1..k /\ k \in Nat /\ n \in Nat /\ k - 1 = n /\ n <= k  BY DEF OneMore
<1>2. /\ \A i \in 1..n : i \in S <=> i \in R
      /\ \A i \in 1..n : i \in S => g[i] = f[i]
  BY DEF OneMore, SameUpTo
<1> HIDE DEF n, k
<1>3. n <= Len(f) /\ n <= Len(g)  BY <1>1 DEF n, k
<1>4. SummedUpTo(g, S)[n] = SummedUpTo(f, R)[n]  BY <1>1, <1>2, <1>3, SummedUpToAgrees
<1>5. SummedUpTo(g, S)[k] = SummedUpTo(g, S)[k - 1] + (IF k \in S THEN g[k] ELSE 0)
  <2>1. \A m \in 1..Len(g) :
           SummedUpTo(g, S)[m] = SummedUpTo(g, S)[m - 1] + (IF m \in S THEN g[m] ELSE 0)
    BY SummedUpToStep
  <2>2. k \in 1..Len(g)  BY <1>1 DEF k
  <2> QED BY <2>1, <2>2
<1> QED BY <1>1, <1>4, <1>5 DEF Summed, n, k

(* Lists without repetition: where an element is, and how long they are.   *)

\* A list without repetitions has as many elements as its length.
LEMMA InjectiveCount ==
  ASSUME NEW D, NEW s \in Seq(D), IsInjective(s)
  PROVE  IsFiniteSet(ToSet(s)) /\ Cardinality(ToSet(s)) = Len(s)
<1> DEFINE n == Len(s)
<1>1. n \in Nat /\ DOMAIN s = 1..n  OBVIOUS
<1>2. s \in [1..n -> ToSet(s)]
  <2>1. s = [i \in 1..n |-> s[i]]  BY <1>1
  <2> QED BY <1>1, <2>1 DEF ToSet
<1>3. s \in Bijection(1..n, ToSet(s))
  BY <1>1, <1>2 DEF Bijection, Injection, Surjection, IsInjective, ToSet
<1>4. ExistsBijection(1..n, ToSet(s))  BY <1>3 DEF ExistsBijection
<1>5. IsFiniteSet(1..n) /\ Cardinality(1..n) = n  BY <1>1, FS_Interval
<1>6. IsFiniteSet(ToSet(s)) /\ Cardinality(ToSet(s)) = Cardinality(1..n)
  BY <1>4, <1>5, FS_Bijection
<1> QED BY <1>5, <1>6

\* Concatenating lists that share nothing and repeat nothing repeats nothing.
LEMMA ConcatenationKeeps ==
  ASSUME NEW D, NEW a \in Seq(D), NEW b \in Seq(D), IsInjective(a), IsInjective(b),
         ToSet(a) \cap ToSet(b) = {}
  PROVE  IsInjective(a \o b) /\ ToSet(a \o b) = ToSet(a) \cup ToSet(b)
<1> DEFINE m == Len(a)
           n == Len(b)
           c == a \o b
<1>1. /\ m \in Nat /\ n \in Nat /\ DOMAIN a = 1..m /\ DOMAIN b = 1..n
      /\ DOMAIN c = 1..(m + n)
      /\ \A k \in 1..(m + n) : c[k] = IF k <= m THEN a[k] ELSE b[k - m]
  BY Concatenation
<1> HIDE DEF m, n, c
<1>2. ASSUME NEW k \in 1..(m + n)
      PROVE  \/ k \in 1..m /\ c[k] = a[k] /\ c[k] \in ToSet(a)
             \/ k > m /\ k - m \in 1..n /\ c[k] = b[k - m] /\ c[k] \in ToSet(b)
  <2>1. CASE k <= m
    <3>1. k \in 1..m  BY <1>1, <2>1
    <3> QED BY <1>1, <2>1, <3>1 DEF ToSet
  <2>2. CASE ~(k <= m)
    <3>1. k - m \in 1..n /\ k > m  BY <1>1, <2>2
    <3> QED BY <1>1, <2>2, <3>1 DEF ToSet
  <2> QED BY <2>1, <2>2
<1>3. IsInjective(c)
  <2> SUFFICES ASSUME NEW k \in 1..(m + n), NEW l \in 1..(m + n), c[k] = c[l]
               PROVE  k = l
    BY <1>1 DEF IsInjective
  <2>1. k \in Int /\ l \in Int /\ m \in Int  BY <1>1
  <2>2. CASE k \in 1..m /\ l \in 1..m
    <3>1. c[k] = a[k] /\ c[l] = a[l]  BY <1>1, <1>2, <2>2
    <3> QED BY <1>1, <2>2, <3>1 DEF IsInjective
  <2>3. CASE k > m /\ l > m
    <3>1. k - m \in 1..n /\ l - m \in 1..n /\ c[k] = b[k - m] /\ c[l] = b[l - m]
      BY <1>1, <1>2, <2>3
    <3>2. k - m = l - m  BY <1>1, <3>1 DEF IsInjective
    <3> QED BY <2>1, <3>2
  <2> QED BY <1>2, <2>2, <2>3
<1>4. ToSet(c) = ToSet(a) \cup ToSet(b)
  <2>1. ToSet(c) \subseteq ToSet(a) \cup ToSet(b)  BY <1>1, <1>2 DEF ToSet
  <2>2. ASSUME NEW i \in 1..m  PROVE a[i] \in ToSet(c)
    <3>1. i \in 1..(m + n) /\ i <= m  BY <1>1
    <3> QED BY <1>1, <3>1 DEF ToSet
  <2>3. ASSUME NEW i \in 1..n  PROVE b[i] \in ToSet(c)
    <3>1. m + i \in 1..(m + n) /\ ~(m + i <= m) /\ (m + i) - m = i  BY <1>1
    <3>2. c[m + i] = b[i]  BY <1>1, <3>1
    <3> QED BY <1>1, <3>1, <3>2 DEF ToSet
  <2>4. ToSet(a) \subseteq ToSet(c)
    <3>1. ToSet(a) = {a[i] : i \in 1..m}  BY <1>1 DEF ToSet
    <3> QED BY <2>2, <3>1
  <2>5. ToSet(b) \subseteq ToSet(c)
    <3>1. ToSet(b) = {b[i] : i \in 1..n}  BY <1>1 DEF ToSet
    <3> QED BY <2>3, <3>1
  <2> QED BY <2>1, <2>4, <2>5
<1> QED BY <1>3, <1>4 DEF c

\* A list of the same elements and length as one without repetitions has none.
LEMMA SameLengthInjective ==
  ASSUME NEW D, NEW s \in Seq(D), NEW t \in Seq(D), IsInjective(s),
         Len(t) = Len(s), ToSet(t) = ToSet(s)
  PROVE  IsInjective(t)
<1> DEFINE n == Len(s)
           T == ToSet(t)
<1>1. Cardinality(T) = n  BY InjectiveCount
<1>2. n \in Nat /\ DOMAIN t = 1..n  OBVIOUS
<1>3. IsFiniteSet(1..n) /\ Cardinality(1..n) = n
  <2>1. n \in Nat  BY <1>2
  <2> HIDE DEF n
  <2>2. 1 \in Int /\ n \in Int  BY <2>1
  <2>3. IsFiniteSet(1..n) /\ Cardinality(1..n) = IF 1 > n THEN 0 ELSE n - 1 + 1
    BY <2>2, FS_Interval
  <2> QED BY <2>1, <2>3
<1>4. t \in [1..n -> T]
  <2>1. t = [i \in 1..n |-> t[i]]  BY <1>2
  <2>2. \A i \in 1..n : t[i] \in T  BY <1>2 DEF ToSet
  <2> HIDE DEF n, T
  <2> QED BY <2>1, <2>2
<1>5. t \in Surjection(1..n, T)
  <2>1. \A x \in T : \E i \in 1..n : t[i] = x  BY <1>2 DEF ToSet
  <2> HIDE DEF n, T
  <2> QED BY <1>4, <2>1 DEF Surjection
<1> HIDE DEF n, T
<1>6. t \in Injection(1..n, T)
  BY <1>1, <1>3, <1>5, FS_SurjSameCardinalityImpliesInj
<1> QED BY <1>6 DEF Injection

\* The k-th element of a list rotated by i is the (i + k)-th, counted around.
LEMMA RotationElements ==
  ASSUME NEW D, NEW s \in Seq(D), NEW i \in 0..(Len(s) - 1)
  PROVE  LET n == Len(s)
             t == SubSeq(s, i + 1, n) \o SubSeq(s, 1, i)
         IN  /\ t \in Seq(D) /\ Len(t) = n /\ n \in Nat \ {0}
             /\ \A k \in 1..n : t[k] = IF k <= n - i THEN s[i + k] ELSE s[k - (n - i)]
<1> DEFINE n == Len(s)
           a == SubSeq(s, i + 1, n)
           b == SubSeq(s, 1, i)
<1>1. n \in Nat \ {0} /\ i \in 0..(n - 1)  OBVIOUS
<1>2. /\ a \in Seq(D) /\ Len(a) = n - i /\ \A k \in 1..(n - i) : a[k] = s[i + k]
      /\ b \in Seq(D) /\ Len(b) = i /\ \A k \in 1..i : b[k] = s[k]
  <2>1. a \in Seq(D) /\ Len(a) = n - i  BY <1>1
  <2>2. b \in Seq(D) /\ Len(b) = i  BY <1>1
  <2>3. ASSUME NEW k \in 1..(n - i)  PROVE a[k] = s[i + k]
    <3>1. a[k] = s[i + 1 + k - 1]  BY <1>1
    <3>2. i + 1 + k - 1 = i + k  BY <1>1
    <3> QED BY <3>1, <3>2
  <2>4. ASSUME NEW k \in 1..i  PROVE b[k] = s[k]
    <3>1. b[k] = s[1 + k - 1]  BY <1>1
    <3>2. 1 + k - 1 = k  OBVIOUS
    <3> QED BY <3>1, <3>2
  <2> QED BY <2>1, <2>2, <2>3, <2>4
<1> HIDE DEF a, b, n
<1>3. a \o b \in Seq(D) /\ Len(a \o b) = n
  <2>1. Len(a \o b) = Len(a) + Len(b) /\ a \o b \in Seq(D)  BY <1>2, Concatenation
  <2>2. (n - i) + i = n  BY <1>1
  <2> QED BY <1>2, <2>1, <2>2
<1>4. ASSUME NEW k \in 1..n
      PROVE  (a \o b)[k] = IF k <= n - i THEN s[i + k] ELSE s[k - (n - i)]
  <2>0. k \in 1..(Len(a) + Len(b))
    <3>1. (n - i) + i = n  BY <1>1
    <3> QED BY <1>2, <3>1
  <2>1. (a \o b)[k] = IF k <= Len(a) THEN a[k] ELSE b[k - Len(a)]
    BY <1>2, <2>0, Concatenation
  <2>2. CASE k <= n - i
    <3>1. k \in 1..(n - i)  BY <1>1, <2>2
    <3> QED BY <1>2, <2>1, <2>2, <3>1
  <2>3. CASE ~(k <= n - i)
    <3>1. k - (n - i) \in 1..i  BY <1>1, <2>3
    <3> QED BY <1>2, <2>1, <2>3, <3>1
  <2> QED BY <2>2, <2>3
<1> QED BY <1>1, <1>3, <1>4 DEF n, a, b

\* A rotation keeps the elements, and keeps them apart.
LEMMA RotationKeeps ==
  ASSUME NEW D, NEW s \in Seq(D), NEW i \in 0..(Len(s) - 1), IsInjective(s)
  PROVE  LET t == SubSeq(s, i + 1, Len(s)) \o SubSeq(s, 1, i)
         IN  t \in Seq(D) /\ Len(t) = Len(s) /\ IsInjective(t) /\ ToSet(t) = ToSet(s)
<1> DEFINE n == Len(s)
           t == SubSeq(s, i + 1, n) \o SubSeq(s, 1, i)
           from(k) == IF k <= n - i THEN i + k ELSE k - (n - i)
<1>1. /\ t \in Seq(D) /\ Len(t) = n /\ n \in Nat \ {0} /\ i \in 0..(n - 1)
      /\ \A k \in 1..n : t[k] = IF k <= n - i THEN s[i + k] ELSE s[k - (n - i)]
  BY RotationElements
<1>0. DOMAIN s = 1..n  OBVIOUS
<1> HIDE DEF n, t
<1>2. DOMAIN s = 1..n /\ DOMAIN t = 1..n
  <2>1. DOMAIN t = 1..Len(t)  BY <1>1
  <2> QED BY <1>0, <1>1, <2>1
<1>3. \A k \in 1..n : from(k) \in 1..n /\ t[k] = s[from(k)]  BY <1>1
<1>4. \A k, l \in 1..n : from(k) = from(l) => k = l  BY <1>1
<1>5. \A m \in 1..n : \E k \in 1..n : from(k) = m
  <2> SUFFICES ASSUME NEW m \in 1..n  PROVE \E k \in 1..n : from(k) = m
    OBVIOUS
  <2>1. CASE m > i
    <3>1. m - i \in 1..n /\ from(m - i) = m  BY <1>1, <2>1
    <3> QED BY <3>1
  <2>2. CASE ~(m > i)
    <3>1. m + (n - i) \in 1..n /\ from(m + (n - i)) = m  BY <1>1, <2>2
    <3> QED BY <3>1
  <2> QED BY <2>1, <2>2
<1> HIDE DEF from
<1>6. IsInjective(t)  BY <1>2, <1>3, <1>4 DEF IsInjective
<1>7. ToSet(t) = ToSet(s)
  <2>1. ToSet(t) = {t[k] : k \in 1..n} /\ ToSet(s) = {s[k] : k \in 1..n}
    BY <1>2 DEF ToSet
  <2>2. \A k \in 1..n : t[k] \in {s[m] : m \in 1..n}  BY <1>3
  <2>3. \A m \in 1..n : s[m] \in {t[k] : k \in 1..n}  BY <1>3, <1>5
  <2> QED BY <2>1, <2>2, <2>3
<1> QED BY <1>1, <1>6, <1>7 DEF n, t

\* In a list without repetitions an element is found where it is.
LEMMA InjectivePlace ==
  ASSUME NEW s, IsInjective(s), NEW i \in DOMAIN s
  PROVE  (CHOOSE j \in DOMAIN s : s[j] = s[i]) = i
  BY DEF IsInjective
=============================================================================
