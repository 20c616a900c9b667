----------------------------- MODULE Induction ------------------------------
(***************************************************************************)
(* Induction and recursion over the natural numbers, in the form of sets:  *)
(* the theorems of NaturalsInduction take operators, which the provers     *)
(* cannot instantiate. The proofs about recursive functions cite these.    *)
(***************************************************************************)
EXTENDS Integers, NaturalsInduction, WellFoundedInduction, TLAPS

\* A set of natural numbers has a least member.
LEMMA LeastMember ==
    ASSUME NEW T, T \subseteq Nat, T # {}
    PROVE  \E x \in T : \A y \in T : x <= y
<1> DEFINE R == OpToRel(<, Nat)
<1>1. IsWellFoundedOn(R, Nat)
  BY NatLessThanWellFounded
<1>2. \A x, y \in Nat : x < y => <<x, y>> \in R
  BY DEF OpToRel
<1> HIDE DEF R
<1>3. PICK x \in T : \A y \in T : <<y, x>> \notin R
  BY <1>1, WFMin, Zenon
<1>4. \A y \in T : ~(y < x)
  BY <1>2, <1>3, Zenon
<1> QED BY <1>4

\* What holds of 0, and of n + 1 when it does of n, holds of all.
LEMMA Induct ==
    ASSUME NEW T, 0 \in T, \A n \in Nat : n \in T => n + 1 \in T
    PROVE  Nat \subseteq T
<1> SUFFICES ASSUME Nat \ T # {} PROVE FALSE
  OBVIOUS
<1>1. PICK x \in Nat \ T : \A y \in Nat \ T : x <= y
  BY LeastMember
<1>2. x # 0 /\ x - 1 \in Nat
  BY <1>1
<1>3. x - 1 \in T
  BY <1>1, <1>2
<1> QED BY <1>2, <1>3

\* A set of natural numbers that are at most N has a greatest member.
LEMMA GreatestMember ==
    ASSUME NEW N \in Nat, NEW T, T \subseteq 0..N, T # {}
    PROVE  \E x \in T : \A y \in T : y <= x
<1> DEFINE U == {N - x : x \in T}
<1>1. U \subseteq Nat /\ U # {}
  <2>1. \A x \in T : N - x \in Nat /\ N - x \in U
    OBVIOUS
  <2>2. PICK x : x \in T
    OBVIOUS
  <2> QED BY <2>1, <2>2
<1>2. PICK u \in U : \A v \in U : u <= v
  BY <1>1, LeastMember
<1>3. PICK x \in T : u = N - x
  BY <1>2
<1>4. \A y \in T : N - y \in U
  OBVIOUS
<1>5. \A y \in T : N - x <= N - y
  BY <1>2, <1>3, <1>4
<1> QED BY <1>5

-----------------------------------------------------------------------------
\* The first n values of a recursion that starts at a and goes on by G.
Unrolled(S, a, G, n, g) ==
    g \in [0..n -> S] /\ g[0] = a /\ \A m \in 1..n : g[m] = G[m][g[m - 1]]

LEMMA UnrolledAgree ==
    ASSUME NEW S, NEW a, NEW G, NEW n \in Nat, NEW k \in Nat, n <= k,
           NEW g, Unrolled(S, a, G, n, g), NEW h, Unrolled(S, a, G, k, h)
    PROVE  \A m \in 0..n : g[m] = h[m]
<1> DEFINE T == {m \in Nat : m <= n => g[m] = h[m]}
<1>1. 0 \in T
  BY DEF Unrolled
<1>2. ASSUME NEW m \in Nat, m \in T PROVE m + 1 \in T
  <2> SUFFICES ASSUME m + 1 <= n PROVE g[m + 1] = h[m + 1]
    OBVIOUS
  <2>1. m + 1 \in 1..n /\ m + 1 \in 1..k /\ (m + 1) - 1 = m /\ m <= n
    OBVIOUS
  <2>2. g[m] = h[m]
    BY <1>2, <2>1
  <2>3. g[m + 1] = G[m + 1][g[m]] /\ h[m + 1] = G[m + 1][h[m]]
    BY <2>1 DEF Unrolled
  <2> QED BY <2>2, <2>3
<1> HIDE DEF T
<1>3. Nat \subseteq T
  BY <1>1, <1>2, Induct
<1> QED BY <1>3 DEF T

LEMMA UnrolledExists ==
    ASSUME NEW S, NEW a \in S, NEW G \in [Nat -> [S -> S]]
    PROVE  \A n \in Nat : \E g : Unrolled(S, a, G, n, g)
<1> DEFINE T == {n \in Nat : \E g : Unrolled(S, a, G, n, g)}
<1>1. 0 \in T
  <2>1. Unrolled(S, a, G, 0, [m \in 0..0 |-> a])
    BY DEF Unrolled
  <2> QED BY <2>1
<1>2. ASSUME NEW n \in Nat, n \in T PROVE n + 1 \in T
  <2>1. PICK g : Unrolled(S, a, G, n, g)
    BY <1>2
  <2> DEFINE h == [m \in 0..(n + 1) |-> IF m = n + 1 THEN G[n + 1][g[n]] ELSE g[m]]
  <2>2. g[n] \in S /\ n + 1 \in Nat
    BY <2>1 DEF Unrolled
  <2>3. G[n + 1][g[n]] \in S
    BY <2>2
  <2>4. h \in [0..(n + 1) -> S] /\ h[0] = a
    BY <2>1, <2>3 DEF Unrolled
  <2>5. \A m \in 1..(n + 1) : h[m] = G[m][h[m - 1]]
    <3> SUFFICES ASSUME NEW m \in 1..(n + 1) PROVE h[m] = G[m][h[m - 1]]
      OBVIOUS
    <3>1. m - 1 \in 0..n /\ h[m - 1] = g[m - 1]
      OBVIOUS
    <3>2. CASE m = n + 1
      BY <3>1, <3>2
    <3>3. CASE m \in 1..n
      BY <3>1, <3>3, <2>1 DEF Unrolled
    <3> QED BY <3>2, <3>3
  <2> HIDE DEF h
  <2>6. Unrolled(S, a, G, n + 1, h)
    BY <2>4, <2>5 DEF Unrolled
  <2> QED BY <2>6
<1> HIDE DEF T
<1>3. Nat \subseteq T
  BY <1>1, <1>2, Induct
<1> QED BY <1>3 DEF T

\* The function that starts from a and goes on by G.
Recursion(f, a, G) == f = [n \in Nat |-> IF n = 0 THEN a ELSE G[n][f[n - 1]]]

\* There is one.
LEMMA RecursionExists ==
    ASSUME NEW S, NEW a \in S, NEW G \in [Nat -> [S -> S]]
    PROVE  \E f \in [Nat -> S] : Recursion(f, a, G)
<1> DEFINE first(n) == CHOOSE g : Unrolled(S, a, G, n, g)
           f == [n \in Nat |-> first(n)[n]]
<1>1. \A n \in Nat : Unrolled(S, a, G, n, first(n))
  BY UnrolledExists, Zenon
<1> HIDE DEF first
<1>2. \A n \in Nat : first(n)[n] \in S
  BY <1>1 DEF Unrolled
<1>3. f \in [Nat -> S]
  BY <1>2
<1>4. f[0] = a
  BY <1>1 DEF Unrolled
<1>5. ASSUME NEW n \in Nat, n # 0 PROVE f[n] = G[n][f[n - 1]]
  <2>1. n - 1 \in Nat /\ n - 1 <= n /\ n \in 1..n /\ n - 1 \in 0..(n - 1)
    BY <1>5
  <2>2. Unrolled(S, a, G, n - 1, first(n - 1)) /\ Unrolled(S, a, G, n, first(n))
    BY <1>1, <2>1
  <2>3. first(n - 1)[n - 1] = first(n)[n - 1]
    BY <2>1, <2>2, UnrolledAgree
  <2>4. first(n)[n] = G[n][first(n)[n - 1]]
    BY <2>1, <2>2 DEF Unrolled
  <2> QED BY <2>1, <2>3, <2>4
<1> HIDE DEF f
<1>6. DOMAIN f = Nat /\ \A n \in Nat : f[n] = IF n = 0 THEN a ELSE G[n][f[n - 1]]
  BY <1>3, <1>4, <1>5
<1>7. f = [n \in Nat |-> IF n = 0 THEN a ELSE G[n][f[n - 1]]]
  BY <1>3, <1>6
<1> QED BY <1>3, <1>7 DEF Recursion

-----------------------------------------------------------------------------
(* Steps in a row: step n is G[n], and those after i up to j start from a. *)
Onward(S, G, i) == [n \in Nat |-> [o \in S |-> IF n <= i THEN o ELSE G[n][o]]]

Stretch(S, G, i, j, a) == (CHOOSE f \in [Nat -> S] : Recursion(f, a, Onward(S, G, i)))[j]

GoesOn(S, G, i, a) ==
    /\ \A j \in Nat : Stretch(S, G, i, j, a) \in S
    /\ \A j \in Nat : j <= i => Stretch(S, G, i, j, a) = a
    /\ \A j \in Nat : j >= i =>
          Stretch(S, G, i, j + 1, a) = G[j + 1][Stretch(S, G, i, j, a)]

LEMMA StretchIs ==
    ASSUME NEW S, NEW G \in [Nat -> [S -> S]], NEW i \in Nat, NEW a \in S
    PROVE  GoesOn(S, G, i, a)
<1> DEFINE H == Onward(S, G, i)
           f == CHOOSE g \in [Nat -> S] : Recursion(g, a, H)
<1>1. H \in [Nat -> [S -> S]]
  BY DEF Onward
<1>2. \A n \in Nat, o \in S : H[n][o] = IF n <= i THEN o ELSE G[n][o]
  BY DEF Onward
<1>3. \A j : Stretch(S, G, i, j, a) = f[j]
  BY DEF Stretch
<1> HIDE DEF H
<1>4. f \in [Nat -> S] /\ Recursion(f, a, H)
  BY <1>1, RecursionExists
<1> HIDE DEF f
<1>5. f[0] = a /\ \A n \in Nat : n # 0 => f[n] = H[n][f[n - 1]]
  BY <1>4 DEF Recursion
<1>6. \A n \in Nat : f[n + 1] = IF n + 1 <= i THEN f[n] ELSE G[n + 1][f[n]]
  <2> SUFFICES ASSUME NEW n \in Nat PROVE f[n + 1] = IF n + 1 <= i THEN f[n] ELSE G[n + 1][f[n]]
    OBVIOUS
  <2>1. n + 1 \in Nat /\ n + 1 # 0 /\ (n + 1) - 1 = n /\ f[n] \in S
    BY <1>4
  <2> QED BY <1>2, <1>5, <2>1
<1> DEFINE T == {j \in Nat : j <= i => f[j] = a}
<1>7. 0 \in T
  BY <1>5
<1>8. ASSUME NEW n \in Nat, n \in T PROVE n + 1 \in T
  BY <1>6, <1>8
<1> HIDE DEF T
<1>9. Nat \subseteq T
  BY <1>7, <1>8, Induct
<1>10. \A j \in Nat : j <= i => f[j] = a
  BY <1>9 DEF T
<1>11. \A j \in Nat : j >= i => f[j + 1] = G[j + 1][f[j]]
  BY <1>6
<1> QED BY <1>3, <1>4, <1>10, <1>11, SMTT(30) DEF GoesOn

\* A stretch is its first part and then its second.
LEMMA StretchComposes ==
    ASSUME NEW S, NEW G \in [Nat -> [S -> S]], NEW i \in Nat, NEW m \in Nat, i <= m, NEW a \in S
    PROVE  \A j \in Nat : j >= m =>
              Stretch(S, G, m, j, Stretch(S, G, i, m, a)) = Stretch(S, G, i, j, a)
<1> DEFINE mid == Stretch(S, G, i, m, a)
           T == {j \in Nat : j >= m => Stretch(S, G, m, j, mid) = Stretch(S, G, i, j, a)}
<1>1. mid \in S
  BY StretchIs DEF GoesOn
<1>6. GoesOn(S, G, i, a) /\ GoesOn(S, G, m, mid)
  BY <1>1, StretchIs
<1> HIDE DEF mid
<1>2. Stretch(S, G, m, m, mid) = mid
  BY <1>6 DEF GoesOn
<1>7. Stretch(S, G, i, m, a) = mid
  BY DEF mid
<1>3. 0 \in T
  <2>1. m <= 0 => m = 0
    OBVIOUS
  <2> QED BY <1>2, <1>7, <2>1
<1>4. ASSUME NEW n \in Nat, n \in T PROVE n + 1 \in T
  <2>1. CASE n + 1 < m
    BY <2>1
  <2>2. CASE n + 1 = m
    BY <1>2, <1>7, <2>2
  <2>3. CASE n >= m
    <3>1. Stretch(S, G, m, n + 1, mid) = G[n + 1][Stretch(S, G, m, n, mid)]
      BY <1>6, <2>3 DEF GoesOn
    <3>2. Stretch(S, G, i, n + 1, a) = G[n + 1][Stretch(S, G, i, n, a)]
      BY <1>6, <2>3 DEF GoesOn
    <3> QED BY <1>4, <2>3, <3>1, <3>2
  <2> QED BY <2>1, <2>2, <2>3
<1> HIDE DEF T
<1>5. Nat \subseteq T
  BY <1>3, <1>4, Induct
<1> QED BY <1>5 DEF T, mid

\* It depends on its own steps only.
SameSteps(G, H, i, k) == \A n \in Nat : n > i /\ n <= k => G[n] = H[n]

LEMMA StretchDepends ==
    ASSUME NEW S, NEW G \in [Nat -> [S -> S]], NEW H \in [Nat -> [S -> S]],
           NEW i \in Nat, NEW k \in Nat, NEW a \in S,
           SameSteps(G, H, i, k)
    PROVE  \A j \in Nat : j <= k => Stretch(S, G, i, j, a) = Stretch(S, H, i, j, a)
<1> DEFINE T == {j \in Nat : j <= k => Stretch(S, G, i, j, a) = Stretch(S, H, i, j, a)}
<1>4. GoesOn(S, G, i, a) /\ GoesOn(S, H, i, a)
  BY StretchIs
<1>1. 0 \in T
  BY <1>4 DEF GoesOn
<1>2. ASSUME NEW n \in Nat, n \in T PROVE n + 1 \in T
  <2>1. CASE n + 1 <= i
    BY <1>2, <1>4, <2>1 DEF GoesOn
  <2>2. CASE n >= i /\ n + 1 <= k
    <3>1. G[n + 1] = H[n + 1]
      BY <2>2 DEF SameSteps
    <3>2. /\ Stretch(S, G, i, n + 1, a) = G[n + 1][Stretch(S, G, i, n, a)]
          /\ Stretch(S, H, i, n + 1, a) = H[n + 1][Stretch(S, H, i, n, a)]
      BY <1>4, <2>2 DEF GoesOn
    <3> QED BY <1>2, <2>2, <3>1, <3>2
  <2> QED BY <2>1, <2>2
<1> HIDE DEF T
<1>3. Nat \subseteq T
  BY <1>1, <1>2, Induct
<1> QED BY <1>3 DEF T

(* R[n] relates what step n makes the same. Where other steps keep what is *)
(* so related, and a step changes nothing that it would not make the same, *)
(* taking some last steps a second time, in their order, changes nothing.  *)
Overwrites(S, G, R) ==
    \A n \in Nat : \A o \in S :
        /\ <<o, G[n][o]>> \in R[n]
        /\ \A p \in S : <<o, p>> \in R[n] =>
              G[n][o] = G[n][p] /\ \A m \in Nat : <<G[m][o], G[m][p]>> \in R[n]

\* A step that is to be taken anyway need not have been taken.
LEMMA OnceMore ==
    ASSUME NEW S, NEW G \in [Nat -> [S -> S]], NEW R, Overwrites(S, G, R),
           NEW i \in Nat, NEW n \in Nat, n > i, NEW o \in S
    PROVE  \A j \in Nat : j >= n => Stretch(S, G, i, j, G[n][o]) = Stretch(S, G, i, j, o)
<1> DEFINE p == G[n][o]
           x(j) == Stretch(S, G, i, j, o)
           y(j) == Stretch(S, G, i, j, p)
           T == {j \in Nat : j < n => <<x(j), y(j)>> \in R[n]}
<1>1. p \in S /\ <<o, p>> \in R[n]
  BY DEF Overwrites
<1> HIDE DEF p
<1>2. /\ \A j \in Nat : x(j) \in S /\ y(j) \in S
      /\ \A j \in Nat : j <= i => x(j) = o /\ y(j) = p
      /\ \A j \in Nat : j >= i => x(j + 1) = G[j + 1][x(j)] /\ y(j + 1) = G[j + 1][y(j)]
  <2>1. GoesOn(S, G, i, o) /\ GoesOn(S, G, i, p)
    BY <1>1, StretchIs
  <2> QED BY <2>1 DEF GoesOn
<1>3. 0 \in T
  BY <1>1, <1>2
<1>4. ASSUME NEW j \in Nat, j \in T PROVE j + 1 \in T
  <2>1. CASE j + 1 <= i
    BY <1>1, <1>2, <2>1
  <2>2. CASE j >= i /\ j + 1 < n
    <3>1. <<x(j), y(j)>> \in R[n] /\ x(j) \in S /\ y(j) \in S /\ j + 1 \in Nat
      BY <1>2, <1>4, <2>2
    <3>2. <<G[j + 1][x(j)], G[j + 1][y(j)]>> \in R[n]
      BY <3>1 DEF Overwrites
    <3> QED BY <1>2, <2>2, <3>2
  <2> QED BY <2>1, <2>2
<1> HIDE DEF T
<1>5. Nat \subseteq T
  BY <1>3, <1>4, Induct
<1>6. x(n) = y(n)
  <2>1. n - 1 \in Nat /\ n - 1 >= i /\ (n - 1) + 1 = n /\ n - 1 < n
    OBVIOUS
  <2>2. <<x(n - 1), y(n - 1)>> \in R[n] /\ x(n - 1) \in S /\ y(n - 1) \in S
    BY <1>2, <1>5, <2>1 DEF T
  <2>3. G[n][x(n - 1)] = G[n][y(n - 1)]
    BY <2>2 DEF Overwrites
  <2> QED BY <1>2, <2>1, <2>3
<1>7. \A j \in Nat : j >= n =>
         /\ Stretch(S, G, n, j, x(n)) = x(j)
         /\ Stretch(S, G, n, j, y(n)) = y(j)
  BY <1>1, StretchComposes
<1> QED BY <1>6, <1>7 DEF p

LEMMA StretchAgain ==
    ASSUME NEW S, NEW G \in [Nat -> [S -> S]], NEW R, Overwrites(S, G, R),
           NEW i \in Nat, NEW j \in Nat, i <= j, NEW a \in S
    PROVE  Stretch(S, G, i, j, Stretch(S, G, 0, j, a)) = Stretch(S, G, 0, j, a)
<1> DEFINE x(n) == Stretch(S, G, 0, n, a)
           T == {n \in Nat : n >= i /\ n <= j => Stretch(S, G, i, j, x(n)) = x(j)}
<1>1. \A n \in Nat : x(n) \in S /\ x(n + 1) = G[n + 1][x(n)]
  <2>1. GoesOn(S, G, 0, a)
    BY StretchIs
  <2> QED BY <2>1 DEF GoesOn
<1>2. Stretch(S, G, i, j, x(i)) = x(j)
  BY StretchComposes
<1>3. 0 \in T
  BY <1>2
<1>4. ASSUME NEW n \in Nat, n \in T PROVE n + 1 \in T
  <2>1. CASE n + 1 < i \/ n + 1 > j
    BY <2>1
  <2>2. CASE n + 1 = i
    BY <1>2, <2>2
  <2>3. CASE n >= i /\ n + 1 <= j
    <3>1. Stretch(S, G, i, j, G[n + 1][x(n)]) = Stretch(S, G, i, j, x(n))
      BY <1>1, <2>3, OnceMore
    <3> QED BY <1>1, <1>4, <2>3, <3>1
  <2> QED BY <2>1, <2>2, <2>3
<1> HIDE DEF T
<1>5. Nat \subseteq T
  BY <1>3, <1>4, Induct
<1> QED BY <1>5 DEF T
=============================================================================
