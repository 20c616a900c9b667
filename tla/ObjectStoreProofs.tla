------------------------- MODULE ObjectStoreProofs --------------------------
(***************************************************************************)
(* Folding and pruning are invisible, and an undisturbed scan returns the  *)
(* objects: the proofs for any keys, properties, actors, workloads and     *)
(* bounds.  They rest on what replaying edits is: reading them a second    *)
(* time, from anywhere on, changes nothing.                                *)
(***************************************************************************)
EXTENDS ObjectStore, Induction, FiniteSetTheorems, TLAPS

\* What the log holds: kinds, keys and columns; a fold's version or 0.
LogRows == [kind : Kinds, key : Keys, col : Cols, folded : Nat]
Typed(edits) == DOMAIN edits \subseteq Nat /\ \A n \in DOMAIN edits : edits[n] \in LogRows

\* One edit of the log, if it is live.
Do(edits, n, objects) ==
    IF n \in Live(edits)
    THEN [objects EXCEPT ![edits[n].key] = Edited(@, edits[n], n)]
    ELSE objects

\* What becomes of the rows, edit by edit, when those after i are replayed.
Replays(f, edits, i, rows) ==
    f = [n \in Nat |-> IF n = 0 THEN rows
                       ELSE IF n <= i THEN f[n - 1] ELSE Do(edits, n, f[n - 1])]

\* The rows with the live edits after i, up to j.
Through(edits, i, j, rows) ==
    (CHOOSE f \in [Nat -> Objects] : Replays(f, edits, i, rows))[j]

-----------------------------------------------------------------------------
(* One edit. *)

LEMMA GoneIsNone ==
    ASSUME NEW c \in Cols, Gone \in [Cols -> Int] PROVE FALSE
<1>1. DOMAIN Gone = {}
  BY DEF Gone
<1> QED BY <1>1

LEMMA EditedTyped ==
    ASSUME NEW e \in LogRows, NEW n \in Nat, NEW o \in [Cols -> Int] \cup {Gone}
    PROVE  Edited(o, e, n) \in [Cols -> Int] \cup {Gone}
<1>1. CASE e.kind = "create"
  BY <1>1 DEF Edited
<1>2. CASE e.kind = "delete"
  BY <1>2 DEF Edited
<1>3. CASE e.kind = "update"
  <2>1. CASE o = Gone
    BY <1>3, <2>1 DEF Edited
  <2>2. CASE o # Gone
    <3>1. o \in [Cols -> Int] /\ n \in Int
      BY <2>2
    <3>2. [o EXCEPT ![e.col] = n] \in [Cols -> Int]
      BY <3>1
    <3>3. Edited(o, e, n) = [o EXCEPT ![e.col] = n]
      BY <1>3, <2>2 DEF Edited
    <3> QED BY <3>2, <3>3
  <2> QED BY <2>1, <2>2
<1> QED BY <1>1, <1>2, <1>3 DEF LogRows, Kinds

LEMMA DoTyped ==
    ASSUME NEW edits, Typed(edits), NEW n \in Nat, NEW o \in Objects
    PROVE  Do(edits, n, o) \in Objects
<1>1. CASE n \in Live(edits)
  <2>1. edits[n] \in LogRows /\ edits[n].key \in Keys
    BY <1>1 DEF Live, Typed, LogRows
  <2>2. Edited(o[edits[n].key], edits[n], n) \in [Cols -> Int] \cup {Gone}
    BY <2>1, EditedTyped DEF Objects
  <2> QED BY <1>1, <2>1, <2>2 DEF Do, Objects
<1>2. CASE n \notin Live(edits)
  BY <1>2 DEF Do
<1> QED BY <1>1, <1>2

\* Two objects that an edit makes the same.
Alike(e, o, p) ==
    e.kind = "update" =>
        /\ o = Gone <=> p = Gone
        /\ o # Gone => \A c \in Cols \ {e.col} : o[c] = p[c]

\* So do they stay, whatever other edits come.
LEMMA AlikeStays ==
    ASSUME NEW e \in LogRows, NEW g \in LogRows, NEW n \in Nat,
           NEW o \in [Cols -> Int] \cup {Gone}, NEW p \in [Cols -> Int] \cup {Gone},
           Alike(e, o, p)
    PROVE  Alike(e, Edited(o, g, n), Edited(p, g, n))
<1>1. CASE g.kind \in {"create", "delete"}
  <2>1. Edited(o, g, n) = Edited(p, g, n)
    BY <1>1 DEF Edited
  <2> QED BY <2>1 DEF Alike
<1>2. CASE g.kind = "update"
  <2> SUFFICES ASSUME e.kind = "update" PROVE Alike(e, Edited(o, g, n), Edited(p, g, n))
    BY DEF Alike
  <2>1. CASE o = Gone
    BY <1>2, <2>1 DEF Alike, Edited
  <2>2. CASE o # Gone
    <3>1. p # Gone /\ o \in [Cols -> Int] /\ p \in [Cols -> Int] /\ g.col \in Cols
      BY <2>2 DEF Alike, LogRows
    <3>2. Edited(o, g, n) = [o EXCEPT ![g.col] = n] /\ Edited(p, g, n) = [p EXCEPT ![g.col] = n]
      BY <1>2, <2>2, <3>1 DEF Edited
    <3>3. [o EXCEPT ![g.col] = n] # Gone /\ [p EXCEPT ![g.col] = n] # Gone
      BY <3>1, GoneIsNone
    <3> HIDE DEF Gone
    <3> QED BY <2>2, <3>1, <3>2, <3>3 DEF Alike
  <2> QED BY <2>1, <2>2
<1> QED BY <1>1, <1>2 DEF LogRows, Kinds

LEMMA AlikeMeets ==
    ASSUME NEW e \in LogRows, NEW n \in Nat,
           NEW o \in [Cols -> Int] \cup {Gone}, NEW p \in [Cols -> Int] \cup {Gone},
           Alike(e, o, p)
    PROVE  Edited(o, e, n) = Edited(p, e, n)
<1>1. CASE e.kind \in {"create", "delete"}
  BY <1>1 DEF Edited
<1>2. CASE e.kind = "update"
  BY <1>2 DEF Edited, Alike, LogRows
<1> QED BY <1>1, <1>2 DEF LogRows, Kinds

LEMMA AlikeOnce ==
    ASSUME NEW e \in LogRows, NEW n \in Nat, NEW o \in [Cols -> Int] \cup {Gone}
    PROVE  Alike(e, o, Edited(o, e, n))
<1> SUFFICES ASSUME e.kind = "update", o # Gone PROVE Alike(e, o, Edited(o, e, n))
  BY DEF Alike, Edited
<1>1. o \in [Cols -> Int] /\ e.col \in Cols
  BY DEF LogRows
<1>2. Edited(o, e, n) = [o EXCEPT ![e.col] = n]
  BY DEF Edited
<1>3. [o EXCEPT ![e.col] = n] # Gone
  BY <1>1, GoneIsNone
<1> QED BY <1>1, <1>2, <1>3 DEF Alike

-----------------------------------------------------------------------------
(* Replaying a stretch of the log. *)

LEMMA ThroughExists ==
    ASSUME NEW edits, Typed(edits), NEW i \in Nat, NEW rows \in Objects
    PROVE  \E f \in [Nat -> Objects] :
              /\ Replays(f, edits, i, rows)
              /\ \A j : Through(edits, i, j, rows) = f[j]
<1> DEFINE G == [n \in Nat |-> [o \in Objects |-> IF n <= i THEN o ELSE Do(edits, n, o)]]
<1>1. G \in [Nat -> [Objects -> Objects]]
  BY DoTyped
<1>2. PICK f \in [Nat -> Objects] : Recursion(f, rows, G)
  BY <1>1, RecursionExists
<1>3. Replays(f, edits, i, rows)
  <2>1. \A n \in Nat \ {0} : G[n][f[n - 1]] = IF n <= i THEN f[n - 1] ELSE Do(edits, n, f[n - 1])
    <3>1. \A n \in Nat \ {0} : f[n - 1] \in Objects
      OBVIOUS
    <3> QED BY <3>1
  <2> HIDE DEF G
  <2>2. f = [n \in Nat |-> IF n = 0 THEN rows ELSE G[n][f[n - 1]]]
    BY <1>2 DEF Recursion
  <2>3. \A n \in Nat : f[n] = IF n = 0 THEN rows
                              ELSE IF n <= i THEN f[n - 1] ELSE Do(edits, n, f[n - 1])
    BY <2>1, <2>2
  <2> QED BY <2>3 DEF Replays
<1> DEFINE h == CHOOSE g \in [Nat -> Objects] : Replays(g, edits, i, rows)
<1>4. h \in [Nat -> Objects] /\ Replays(h, edits, i, rows)
  BY <1>3
<1>5. \A j : Through(edits, i, j, rows) = h[j]
  BY DEF Through
<1> HIDE DEF h
<1> QED BY <1>4, <1>5

LEMMA ThroughIs ==
    ASSUME NEW edits, Typed(edits), NEW i \in Nat, NEW rows \in Objects
    PROVE  /\ \A j \in Nat : Through(edits, i, j, rows) \in Objects
           /\ \A j \in 0..i : Through(edits, i, j, rows) = rows
           /\ \A j \in Nat : j >= i =>
                 Through(edits, i, j + 1, rows) = Do(edits, j + 1, Through(edits, i, j, rows))
<1>1. PICK f \in [Nat -> Objects] :
              /\ Replays(f, edits, i, rows)
              /\ \A j : Through(edits, i, j, rows) = f[j]
  BY ThroughExists
<1>2. f[0] = rows /\ \A n \in Nat \ {0} : f[n] = IF n <= i THEN f[n - 1] ELSE Do(edits, n, f[n - 1])
  BY <1>1 DEF Replays
<1>3. \A j \in 0..i : f[j] = rows
  <2> DEFINE T == {j \in Nat : j <= i => f[j] = rows}
  <2>1. 0 \in T
    BY <1>2
  <2>2. ASSUME NEW n \in Nat, n \in T PROVE n + 1 \in T
    <3>1. n + 1 \in Nat \ {0} /\ (n + 1) - 1 = n
      OBVIOUS
    <3>2. n + 1 <= i => f[n + 1] = f[n]
      BY <1>2, <3>1
    <3> QED BY <2>2, <3>2
  <2> HIDE DEF T
  <2>3. Nat \subseteq T
    BY <2>1, <2>2, Induct
  <2> QED BY <2>3 DEF T
<1>4. \A j \in Nat : j >= i => f[j + 1] = Do(edits, j + 1, f[j])
  <2> SUFFICES ASSUME NEW j \in Nat, j >= i PROVE f[j + 1] = Do(edits, j + 1, f[j])
    OBVIOUS
  <2>1. j + 1 \in Nat \ {0} /\ (j + 1) - 1 = j /\ ~(j + 1 <= i)
    OBVIOUS
  <2> QED BY <1>2, <2>1
<1>5. \A j \in Nat : f[j] \in Objects
  OBVIOUS
<1> QED BY <1>1, <1>3, <1>4, <1>5

\* A replay over a longer stretch is one over its first part and its second.
LEMMA ThroughComposes ==
    ASSUME NEW edits, Typed(edits), NEW i \in Nat, NEW m \in Nat, i <= m, NEW rows \in Objects
    PROVE  \A j \in Nat : j >= m =>
              Through(edits, m, j, Through(edits, i, m, rows)) = Through(edits, i, j, rows)
<1> DEFINE mid == Through(edits, i, m, rows)
           T == {j \in Nat : j >= m =>
                    Through(edits, m, j, mid) = Through(edits, i, j, rows)}
<1>1. mid \in Objects
  BY ThroughIs
<1>2. Through(edits, m, m, mid) = mid
  BY <1>1, ThroughIs
<1>3. 0 \in T
  <2>1. m <= 0 => m = 0
    OBVIOUS
  <2> QED BY <1>2, <2>1
<1>4. ASSUME NEW n \in Nat, n \in T PROVE n + 1 \in T
  <2>1. CASE n + 1 < m
    BY <2>1
  <2>2. CASE n + 1 = m
    BY <1>2, <2>2
  <2>3. CASE n >= m
    <3>1. Through(edits, m, n + 1, mid) = Do(edits, n + 1, Through(edits, m, n, mid))
      BY <1>1, <2>3, ThroughIs
    <3>2. Through(edits, i, n + 1, rows) = Do(edits, n + 1, Through(edits, i, n, rows))
      BY <2>3, ThroughIs
    <3> QED BY <1>4, <2>3, <3>1, <3>2
  <2> QED BY <2>1, <2>2, <2>3
<1> HIDE DEF T
<1>5. Nat \subseteq T
  BY <1>3, <1>4, Induct
<1> QED BY <1>5 DEF T

\* It looks at the live edits of the stretch only.
LEMMA ThroughDepends ==
    ASSUME NEW e, Typed(e), NEW f, Typed(f), NEW i \in Nat, NEW k \in Nat, NEW rows \in Objects,
           \A n \in Nat : n > i /\ n <= k =>
               /\ n \in Live(e) <=> n \in Live(f)
               /\ n \in Live(e) => \A o : Do(e, n, o) = Do(f, n, o)
    PROVE  \A j \in Nat : j <= k => Through(e, i, j, rows) = Through(f, i, j, rows)
<1> DEFINE T == {j \in Nat : j <= k => Through(e, i, j, rows) = Through(f, i, j, rows)}
<1>1. 0 \in T
  BY ThroughIs
<1>2. ASSUME NEW n \in Nat, n \in T PROVE n + 1 \in T
  <2>1. CASE n + 1 <= i
    BY <2>1, ThroughIs
  <2>2. CASE n >= i /\ n + 1 <= k
    <3>0. n + 1 \in Nat /\ n + 1 > i
      BY <2>2
    <3>1. \A o : Do(e, n + 1, o) = Do(f, n + 1, o)
      <4>1. n + 1 \in Live(e) <=> n + 1 \in Live(f)
        BY <2>2, <3>0
      <4>2. CASE n + 1 \in Live(e)
        BY <2>2, <3>0, <4>2
      <4>3. CASE n + 1 \notin Live(e)
        BY <4>1, <4>3 DEF Do
      <4> QED BY <4>2, <4>3
    <3>2. Through(e, i, n + 1, rows) = Do(e, n + 1, Through(e, i, n, rows))
          /\ Through(f, i, n + 1, rows) = Do(f, n + 1, Through(f, i, n, rows))
      BY <2>2, ThroughIs
    <3> QED BY <1>2, <2>2, <3>1, <3>2
  <2> QED BY <2>1, <2>2
<1> HIDE DEF T
<1>3. Nat \subseteq T
  BY <1>1, <1>2, Induct
<1> QED BY <1>3 DEF T

\* _materialize replays all there is.
LEMMA ReplayIs ==
    ASSUME NEW edits, Typed(edits), NEW rows \in Objects
    PROVE  Replay(rows, edits) = Through(edits, 0, MaxEdits, rows)
<1> DEFINE is(upto) == upto = [n \in 0..MaxEdits |->
                                 IF n = 0 THEN rows
                                 ELSE IF n \in Live(edits)
                                 THEN [upto[n - 1] EXCEPT ![edits[n].key] = Edited(@, edits[n], n)]
                                 ELSE upto[n - 1]]
           g == [n \in 0..MaxEdits |-> Through(edits, 0, n, rows)]
           h == CHOOSE upto : is(upto)
<1>1. is(g)
  <2> SUFFICES ASSUME NEW n \in 0..MaxEdits
               PROVE  g[n] = IF n = 0 THEN rows
                             ELSE IF n \in Live(edits)
                             THEN [g[n - 1] EXCEPT ![edits[n].key] = Edited(@, edits[n], n)]
                             ELSE g[n - 1]
    OBVIOUS
  <2>1. CASE n = 0
    BY <2>1, ThroughIs
  <2>2. CASE n # 0
    <3>1. n - 1 \in Nat /\ n - 1 >= 0 /\ (n - 1) + 1 = n /\ n - 1 \in 0..MaxEdits
      BY <2>2, BoundsAssumption
    <3>2. Through(edits, 0, n, rows) = Do(edits, n, Through(edits, 0, n - 1, rows))
      BY <3>1, ThroughIs
    <3> QED BY <2>2, <3>1, <3>2 DEF Do
  <2> QED BY <2>1, <2>2
<1>2. is(h)
  BY <1>1
<1>3. Replay(rows, edits) = h[MaxEdits]
  BY DEF Replay
<1>4. h[0] = rows /\ \A n \in 1..MaxEdits : h[n] = Do(edits, n, h[n - 1])
  <2>1. DOMAIN h = 0..MaxEdits
    BY <1>2
  <2>2. \A n \in 0..MaxEdits : h[n] = IF n = 0 THEN rows
                                      ELSE IF n \in Live(edits)
                                      THEN [h[n - 1] EXCEPT ![edits[n].key] = Edited(@, edits[n], n)]
                                      ELSE h[n - 1]
    BY <1>2
  <2> HIDE DEF h
  <2>3. h[0] = rows
    <3>1. 0 \in 0..MaxEdits
      BY BoundsAssumption
    <3> QED BY <2>2, <3>1, Zenon
  <2>4. ASSUME NEW n \in 1..MaxEdits PROVE h[n] = Do(edits, n, h[n - 1])
    <3>1. n \in 0..MaxEdits /\ n # 0
      BY BoundsAssumption
    <3>2. h[n] = IF n \in Live(edits)
                 THEN [h[n - 1] EXCEPT ![edits[n].key] = Edited(@, edits[n], n)] ELSE h[n - 1]
      BY <2>2, <3>1
    <3> QED BY <3>2 DEF Do
  <2> QED BY <2>3, <2>4
<1> HIDE DEF h
<1> DEFINE T == {n \in Nat : n <= MaxEdits => h[n] = Through(edits, 0, n, rows)}
<1>5. 0 \in T
  BY <1>4, ThroughIs
<1>6. ASSUME NEW n \in Nat, n \in T PROVE n + 1 \in T
  <2> SUFFICES ASSUME n + 1 <= MaxEdits PROVE h[n + 1] = Through(edits, 0, n + 1, rows)
    OBVIOUS
  <2>1. n + 1 \in 1..MaxEdits /\ (n + 1) - 1 = n /\ n >= 0
    BY BoundsAssumption
  <2>2. h[n + 1] = Do(edits, n + 1, h[n])
    BY <1>4, <2>1
  <2>3. h[n] = Through(edits, 0, n, rows)
    BY <1>6, <2>1, BoundsAssumption
  <2> QED BY <2>1, <2>2, <2>3, ThroughIs
<1> HIDE DEF T
<1>7. Nat \subseteq T
  BY <1>5, <1>6, Induct
<1> QED BY <1>3, <1>7, BoundsAssumption DEF T

-----------------------------------------------------------------------------
(* Replaying twice. *)

\* Objects that differ at most in what the edit n overwrites.
SameUpTo(edits, n, o, p) ==
    \A k \in Keys : IF k = edits[n].key THEN Alike(edits[n], o[k], p[k]) ELSE o[k] = p[k]

LEMMA SameStays ==
    ASSUME NEW edits, Typed(edits), NEW n \in Live(edits), NEW m \in Nat,
           NEW o \in Objects, NEW p \in Objects, SameUpTo(edits, n, o, p)
    PROVE  SameUpTo(edits, n, Do(edits, m, o), Do(edits, m, p))
<1>0. edits[n] \in LogRows /\ edits[n].key \in Keys
  BY DEF Live, Typed, LogRows
<1>1. CASE m \notin Live(edits)
  BY <1>1 DEF Do
<1>2. CASE m \in Live(edits)
  <2> SUFFICES ASSUME NEW k \in Keys
               PROVE  IF k = edits[n].key THEN Alike(edits[n], Do(edits, m, o)[k], Do(edits, m, p)[k])
                      ELSE Do(edits, m, o)[k] = Do(edits, m, p)[k]
    BY DEF SameUpTo
  <2>1. edits[m] \in LogRows /\ o[k] \in [Cols -> Int] \cup {Gone} /\ p[k] \in [Cols -> Int] \cup {Gone}
    BY <1>2 DEF Live, Typed, Objects
  <2>2. /\ Do(edits, m, o)[k] = IF k = edits[m].key THEN Edited(o[k], edits[m], m) ELSE o[k]
        /\ Do(edits, m, p)[k] = IF k = edits[m].key THEN Edited(p[k], edits[m], m) ELSE p[k]
    BY <1>2 DEF Do, Objects
  <2>3. IF k = edits[n].key THEN Alike(edits[n], o[k], p[k]) ELSE o[k] = p[k]
    BY DEF SameUpTo
  <2>4. CASE k = edits[n].key
    <3>1. Alike(edits[n], Edited(o[k], edits[m], m), Edited(p[k], edits[m], m))
      BY <1>0, <2>1, <2>3, <2>4, AlikeStays
    <3> QED BY <2>2, <2>3, <2>4, <3>1
  <2>5. CASE k # edits[n].key
    BY <2>2, <2>3, <2>5
  <2> QED BY <2>4, <2>5
<1> QED BY <1>1, <1>2

LEMMA SameMeets ==
    ASSUME NEW edits, Typed(edits), NEW n \in Live(edits),
           NEW o \in Objects, NEW p \in Objects, SameUpTo(edits, n, o, p)
    PROVE  Do(edits, n, o) = Do(edits, n, p)
<1>0. edits[n] \in LogRows /\ edits[n].key \in Keys /\ n \in Nat
  BY DEF Live, Typed, LogRows
<1> DEFINE k == edits[n].key
<1>1. o[k] \in [Cols -> Int] \cup {Gone} /\ p[k] \in [Cols -> Int] \cup {Gone} /\ Alike(edits[n], o[k], p[k])
  BY <1>0 DEF SameUpTo, Objects
<1>2. Edited(o[k], edits[n], n) = Edited(p[k], edits[n], n)
  BY <1>0, <1>1, AlikeMeets
<1>3. Do(edits, n, o) = [o EXCEPT ![k] = Edited(o[k], edits[n], n)]
      /\ Do(edits, n, p) = [p EXCEPT ![k] = Edited(p[k], edits[n], n)]
  BY DEF Do
<1>4. \A l \in Keys \ {k} : o[l] = p[l]
  BY DEF SameUpTo
<1> HIDE DEF k
<1> QED BY <1>0, <1>2, <1>3, <1>4 DEF Objects

\* An edit that is replayed anyway need not have been made.
LEMMA OnceIsEnough ==
    ASSUME NEW edits, Typed(edits), NEW i \in Nat, NEW n \in Live(edits), n > i, NEW o \in Objects
    PROVE  \A j \in Nat : j >= n =>
              Through(edits, i, j, Do(edits, n, o)) = Through(edits, i, j, o)
<1>0. n \in Nat /\ edits[n] \in LogRows /\ edits[n].key \in Keys
  BY DEF Live, Typed, LogRows
<1> DEFINE p == Do(edits, n, o)
           S == {j \in Nat : (j >= i /\ j < n) =>
                    SameUpTo(edits, n, Through(edits, i, j, o), Through(edits, i, j, p))}
           T == {j \in Nat : j >= n => Through(edits, i, j, p) = Through(edits, i, j, o)}
<1>1. p \in Objects
  BY <1>0, DoTyped
<1>2. SameUpTo(edits, n, o, p)
  <2> SUFFICES ASSUME NEW k \in Keys
               PROVE  IF k = edits[n].key THEN Alike(edits[n], o[k], p[k]) ELSE o[k] = p[k]
    BY DEF SameUpTo
  <2>1. o[k] \in [Cols -> Int] \cup {Gone}
    BY DEF Objects
  <2>2. p[k] = IF k = edits[n].key THEN Edited(o[k], edits[n], n) ELSE o[k]
    BY DEF Do, Objects
  <2> QED BY <1>0, <2>1, <2>2, AlikeOnce
<1> HIDE DEF p
<1>3. 0 \in S
  BY <1>1, <1>2, ThroughIs
<1>4. ASSUME NEW j \in Nat, j \in S PROVE j + 1 \in S
  <2>1. CASE j + 1 <= i
    <3>1. Through(edits, i, j + 1, o) = o /\ Through(edits, i, j + 1, p) = p
      BY <1>1, <2>1, ThroughIs
    <3> QED BY <1>2, <3>1
  <2>2. CASE j >= i /\ j + 1 < n
    <3>1. Through(edits, i, j + 1, o) = Do(edits, j + 1, Through(edits, i, j, o))
          /\ Through(edits, i, j + 1, p) = Do(edits, j + 1, Through(edits, i, j, p))
      BY <1>1, <2>2, ThroughIs
    <3>2. Through(edits, i, j, o) \in Objects /\ Through(edits, i, j, p) \in Objects
      BY <1>1, ThroughIs
    <3>3. SameUpTo(edits, n, Through(edits, i, j, o), Through(edits, i, j, p))
      BY <1>0, <1>4, <2>2
    <3> QED BY <3>1, <3>2, <3>3, SameStays
  <2>3. CASE j + 1 >= n
    BY <1>0, <2>3
  <2> QED BY <1>0, <2>1, <2>2, <2>3
<1> HIDE DEF S
<1>5. Nat \subseteq S
  BY <1>3, <1>4, Induct
<1>6. Through(edits, i, n, p) = Through(edits, i, n, o)
  <2>1. n - 1 \in Nat /\ n - 1 >= i /\ (n - 1) + 1 = n /\ n - 1 < n
    BY <1>0
  <2>2. SameUpTo(edits, n, Through(edits, i, n - 1, o), Through(edits, i, n - 1, p))
    BY <1>5, <2>1 DEF S
  <2>3. Through(edits, i, n - 1, o) \in Objects /\ Through(edits, i, n - 1, p) \in Objects
    BY <1>1, <2>1, ThroughIs
  <2>4. Do(edits, n, Through(edits, i, n - 1, o)) = Do(edits, n, Through(edits, i, n - 1, p))
    BY <2>2, <2>3, SameMeets
  <2> QED BY <1>1, <2>1, <2>4, ThroughIs
<1> QED
  <2>1. \A j \in Nat : j >= n =>
           /\ Through(edits, n, j, Through(edits, i, n, p)) = Through(edits, i, j, p)
           /\ Through(edits, n, j, Through(edits, i, n, o)) = Through(edits, i, j, o)
    BY <1>0, <1>1, ThroughComposes
  <2> QED BY <1>6, <2>1 DEF p

\* Nor need all of them: replaying from anywhere on a second time changes nothing.
LEMMA ReplayingAgain ==
    ASSUME NEW edits, Typed(edits), NEW i \in Nat, NEW j \in Nat, i <= j, NEW rows \in Objects
    PROVE  Through(edits, i, j, Through(edits, 0, j, rows)) = Through(edits, 0, j, rows)
<1> DEFINE x(n) == Through(edits, 0, n, rows)
           T == {n \in Nat : n >= i /\ n <= j => Through(edits, i, j, x(n)) = x(j)}
<1>1. \A n \in Nat : x(n) \in Objects
  BY ThroughIs
<1>2. Through(edits, i, j, x(i)) = x(j)
  BY ThroughComposes
<1>3. 0 \in T
  BY <1>2
<1>4. ASSUME NEW n \in Nat, n \in T PROVE n + 1 \in T
  <2>1. CASE n + 1 < i \/ n + 1 > j
    BY <2>1
  <2>2. CASE n + 1 = i
    BY <1>2, <2>2
  <2>3. CASE n >= i /\ n + 1 <= j
    <3>1. x(n + 1) = Do(edits, n + 1, x(n))
      BY ThroughIs
    <3>2. CASE n + 1 \in Live(edits)
      <4>1. Through(edits, i, j, Do(edits, n + 1, x(n))) = Through(edits, i, j, x(n))
        BY <1>1, <2>3, <3>2, OnceIsEnough
      <4> QED BY <1>4, <2>3, <3>1, <4>1
    <3>3. CASE n + 1 \notin Live(edits)
      BY <1>4, <2>3, <3>1, <3>3 DEF Do
    <3> QED BY <3>2, <3>3
  <2> QED BY <2>1, <2>2, <2>3
<1> HIDE DEF T
<1>5. Nat \subseteq T
  BY <1>3, <1>4, Induct
<1> QED BY <1>5 DEF T

LEMMA ThroughNothing ==
    ASSUME NEW edits, Typed(edits), NEW i \in Nat, NEW k \in Nat, NEW rows \in Objects,
           \A n \in Live(edits) : ~(n > i /\ n <= k)
    PROVE  \A j \in Nat : j <= k => Through(edits, i, j, rows) = rows
<1> DEFINE T == {j \in Nat : j <= k => Through(edits, i, j, rows) = rows}
<1>1. 0 \in T
  BY ThroughIs
<1>2. ASSUME NEW n \in Nat, n \in T PROVE n + 1 \in T
  <2>1. CASE n + 1 <= i
    BY <2>1, ThroughIs
  <2>2. CASE n >= i /\ n + 1 <= k
    <3>1. n + 1 \notin Live(edits)
      BY <2>2
    <3>2. Through(edits, i, n + 1, rows) = Do(edits, n + 1, Through(edits, i, n, rows))
      BY <2>2, ThroughIs
    <3> QED BY <1>2, <2>2, <3>1, <3>2 DEF Do
  <2> QED BY <2>1, <2>2
<1> HIDE DEF T
<1>3. Nat \subseteq T
  BY <1>1, <1>2, Induct
<1> QED BY <1>3 DEF T

-----------------------------------------------------------------------------
(* What the steps do to the log. *)

LEMMA SameRows ==
    ASSUME NEW e, NEW f, NEW n \in Live(e), n \in Live(f),
           e[n].kind = f[n].kind, e[n].key = f[n].key, e[n].col = f[n].col
    PROVE  \A o : Do(e, n, o) = Do(f, n, o)
<1>1. \A o : Edited(o, e[n], n) = Edited(o, f[n], n)
  BY DEF Edited
<1> QED BY <1>1 DEF Do

\* f is e without the edits ids, the oldest that were live.
Without(f, e, ids) ==
    /\ \A i \in Live(e), m \in ids : i <= m => i \in ids
    /\ Live(f) = Live(e) \ ids
    /\ \A m \in Live(f) : \A o : Do(f, m, o) = Do(e, m, o)

\* Replaying f is replaying e from c on.
From(f, e, c) ==
    \A rows \in Objects, i \in Nat, j \in Nat : i <= j /\ c <= j =>
        Through(f, i, j, rows) = Through(e, IF c <= i THEN i ELSE c, j, rows)

\* Marking takes the oldest live edits: it is as if the replay began later.
LEMMA MarkedThrough ==
    ASSUME NEW e, Typed(e), NEW f, Typed(f), NEW n \in Nat, NEW ids, ids \subseteq 1..n,
           Without(f, e, ids)
    PROVE  \E c \in 0..n : From(f, e, c)
<1> USE DEF Without, From
<1> DEFINE gone == ids \cap Live(e)
<1>1. CASE gone = {}
  <2>1. \A rows \in Objects, i, j \in Nat : Through(f, i, j, rows) = Through(e, i, j, rows)
    <3> SUFFICES ASSUME NEW rows \in Objects, NEW i \in Nat, NEW j \in Nat
                 PROVE  Through(f, i, j, rows) = Through(e, i, j, rows)
      OBVIOUS
    <3>1. \A m \in Nat : m > i /\ m <= j =>
               /\ m \in Live(f) <=> m \in Live(e)
               /\ m \in Live(f) => \A o : Do(f, m, o) = Do(e, m, o)
      BY <1>1
    <3> QED BY <3>1, ThroughDepends
  <2>2. From(f, e, 0)
    BY <2>1
  <2>3. 0 \in 0..n
    OBVIOUS
  <2> HIDE DEF From
  <2> QED BY <2>2, <2>3
<1>2. CASE gone # {}
  <2>0. gone \subseteq 0..n
    <3>1. \A x \in 1..n : x \in 0..n
      OBVIOUS
    <3> QED BY <3>1
  <2>1. PICK c \in gone : \A m \in gone : m <= c
    BY <1>2, <2>0, GreatestMember
  <2>2. c \in 1..n /\ c \in ids
    BY <2>1
  <2>6. c \in 0..n
    BY <2>2
  <2> SUFFICES ASSUME NEW rows \in Objects, NEW i \in Nat, NEW j \in Nat, i <= j, c <= j
               PROVE  Through(f, i, j, rows) = Through(e, IF c <= i THEN i ELSE c, j, rows)
    BY <2>2
  <2>3. \A k \in Nat : c <= k => Through(f, k, j, rows) = Through(e, k, j, rows)
    <3> SUFFICES ASSUME NEW k \in Nat, c <= k PROVE Through(f, k, j, rows) = Through(e, k, j, rows)
      OBVIOUS
    <3>1. \A m \in Nat : m > k /\ m <= j =>
               /\ m \in Live(f) <=> m \in Live(e)
               /\ m \in Live(f) => \A o : Do(f, m, o) = Do(e, m, o)
      BY <2>1, <2>2
    <3> QED BY <3>1, ThroughDepends
  <2>4. CASE c <= i
    BY <2>3, <2>4
  <2>5. CASE ~(c <= i)
    <3>1. \A m \in Live(f) : ~(m > i /\ m <= c)
      BY <2>2
    <3>2. Through(f, i, c, rows) = rows
      BY <2>2, <3>1, ThroughNothing
    <3>3. Through(f, c, j, Through(f, i, c, rows)) = Through(f, i, j, rows)
      BY <2>2, <2>5, ThroughComposes
    <3> QED BY <2>2, <2>3, <2>5, <3>2, <3>3
  <2> QED BY <2>4, <2>5
<1> QED BY <1>1, <1>2

-----------------------------------------------------------------------------
(* The invariant. *)

EditRows == [kind : Kinds, key : Keys, col : Cols]

LogInv ==
    /\ workload \in WorkloadRecords
    /\ made \in 0..MaxEdits
    /\ Typed(log) /\ DOMAIN log \subseteq 1..made
    /\ made > 0 => made \in DOMAIN log

VersionsInv ==
    /\ Latest \in Nat \ {0} /\ DOMAIN versions = 1..Latest
    /\ \A v \in 1..Latest : versions[v].rows \in Objects

\* What a thread has read, by what it is about to do; e is the log, n the
\* edits made, l the latest version and b its rows.  The edits that a fold
\* takes are the oldest that are live. A scan that saw the live edits up to m,
\* and of which none has been marked since, saw those of now.
FrameOk(f, e, n, l, b) ==
    /\ f.pc \in {"check", "commit", "append"} =>
          \E x \in EditRows : f = [pc |-> f.pc, edit |-> x]
    /\ f.pc = "catch up" => f.edit \in EditRows
    /\ f.pc \in {"fold base", "fold edits", "publish", "mark"} =>
          /\ f.version \in 1..l /\ f.ids \subseteq 1..n
          /\ \A i \in Live(e), m \in f.ids : i <= m => i \in f.ids
    /\ f.pc \in {"fold edits", "publish"} => f.rows \in Objects
    /\ f.pc = "fold edits" /\ f.version = l => f.rows = b
    /\ f.pc = "scan" =>
          /\ f.rows \in Objects /\ f.live \subseteq 1..n
          /\ f.live \subseteq Live(e) =>
                \E m \in 0..n : /\ f.live = Live(e) \cap (1..m)
                                /\ f.view = Through(e, 0, m, f.rows)

\* The rows b hold all edits up to m: replaying any of them changes nothing.
Covered(e, m, b) == \A i \in 0..m : Through(e, i, m, b) = b

\* Of the folds in flight, those that are published took no edit the newest
\* version does not hold, and one that may yet be published holds as many.
FoldOk(f, e, n, l, b, m) ==
    /\ f.pc = "mark" => f.ids \subseteq 1..m
    /\ f.pc = "publish" /\ f.version = l =>
          \E j \in m..n : f.ids \subseteq 1..j /\ f.rows = Through(e, 0, j, b)

FramesInv ==
    /\ actor = [a \in Actors |-> actor[a]]
    /\ \A a \in Actors : FrameOk(actor[a], log, made, Latest, Base)

FoldsInv ==
    \E m \in 0..made :
        /\ Covered(log, m, Base)
        /\ \A a \in Actors : FoldOk(actor[a], log, made, Latest, Base, m)

StoreInv == LogInv /\ VersionsInv /\ FramesInv /\ FoldsInv

LEMMA BaseTyped == ASSUME VersionsInv PROVE Base \in Objects
BY DEF VersionsInv, Base

LEMMA MadeIsMaxSeq == ASSUME LogInv PROVE MaxSeq = made
<1>1. CASE DOMAIN log = {}
  BY <1>1 DEF LogInv, MaxSeq
<1>2. CASE DOMAIN log # {}
  <2>1. made > 0 /\ made \in DOMAIN log /\ \A n \in DOMAIN log : n \in Nat /\ n <= made
    BY <1>2 DEF LogInv
  <2>2. \A n \in DOMAIN log : (\A m \in DOMAIN log : m <= n) => n = made
    BY <2>1 DEF LogInv
  <2> QED BY <1>2, <2>1, <2>2 DEF MaxSeq
<1> QED BY <1>1, <1>2

\* There are no edits beyond those made.
LEMMA AllIsMade ==
    ASSUME LogInv, NEW rows \in Objects, NEW j \in made..MaxEdits
    PROVE  Through(log, 0, j, rows) = Through(log, 0, made, rows)
<1>1. Typed(log) /\ made \in Nat /\ made <= j /\ j \in Nat
  BY BoundsAssumption DEF LogInv
<1>2. \A n \in Live(log) : ~(n > made /\ n <= j)
  BY DEF LogInv, Live
<1>3. Through(log, made, j, Through(log, 0, made, rows)) = Through(log, 0, made, rows)
  <2>1. Through(log, 0, made, rows) \in Objects
    BY <1>1, ThroughIs
  <2> QED BY <1>1, <1>2, <2>1, ThroughNothing
<1> QED BY <1>1, <1>3, ThroughComposes

LEMMA ViewIs ==
    ASSUME LogInv, VersionsInv
    PROVE  /\ View = Through(log, 0, MaxEdits, Base)
           /\ View = Through(log, 0, made, Base)
           /\ View \in Objects
<1>1. View = Through(log, 0, MaxEdits, Base)
  BY BaseTyped, ReplayIs DEF View, LogInv
<1>2. MaxEdits \in made..MaxEdits /\ made \in Nat
  BY BoundsAssumption DEF LogInv
<1> QED BY <1>1, <1>2, BaseTyped, AllIsMade, ThroughIs DEF LogInv

LEMMA StoreStarts == StoreInit => StoreInv
<1> SUFFICES ASSUME StoreInit PROVE StoreInv
  OBVIOUS
<1>1. workload \in WorkloadRecords
  BY WorkloadsAssumption DEF StoreInit
<1>2. log = << >> \/ \E e \in Edits : log = [n \in {1} |-> Unfolded(e)]
  BY DEF StoreInit
<1>3. LogInv
  <2>1. CASE log = << >>
    <3>1. DOMAIN log = {}
      BY <2>1
    <3>2. made = 0
      BY <3>1 DEF StoreInit, MaxSeq
    <3> QED BY <1>1, <3>1, <3>2, BoundsAssumption DEF LogInv, Typed
  <2>2. CASE \E e \in Edits : log = [n \in {1} |-> Unfolded(e)]
    <3>1. PICK e \in Edits : log = [n \in {1} |-> Unfolded(e)]
      BY <2>2
    <3>2. DOMAIN log = {1} /\ log[1] = Unfolded(e)
      BY <3>1
    <3>3. Unfolded(e) \in LogRows
      BY <1>1 DEF Edits, Unfolded, LogRows, WorkloadRecords
    <3>4. MaxSeq = 1
      BY <3>2 DEF MaxSeq
    <3>5. made = 1
      BY <3>4 DEF StoreInit
    <3> QED BY <1>1, <3>2, <3>3, <3>5, BoundsAssumption DEF LogInv, Typed
  <2> QED BY <1>2, <2>1, <2>2
<1>4. DOMAIN versions = {1} /\ versions[1].rows \in Objects
  <2>1. PICK object \in {Gone, [c \in Cols |-> -1]} :
           versions = [v \in {1} |-> [rows |-> [k \in Keys |-> object], source |-> "upload"]]
    BY DEF StoreInit
  <2> QED BY <2>1 DEF Objects
<1>5. Latest = 1
  BY <1>4, FS_Singleton DEF Latest
<1>6. VersionsInv
  BY <1>4, <1>5 DEF VersionsInv
<1>7. actor = [a \in Actors |-> Idle]
  BY DEF StoreInit
<1>8. FramesInv
  BY <1>7 DEF FramesInv, FrameOk, Idle
<1>9. FoldsInv
  <2>1. Covered(log, 0, Base)
    BY <1>3, <1>6, BaseTyped, ThroughIs DEF Covered, LogInv
  <2>2. \A a \in Actors : FoldOk(actor[a], log, made, Latest, Base, 0)
    BY <1>7 DEF FoldOk, Idle
  <2> QED BY <1>3, <2>1, <2>2 DEF FoldsInv, LogInv
<1> QED BY <1>3, <1>6, <1>8, <1>9 DEF StoreInv

-----------------------------------------------------------------------------
(* The steps, by what they leave of the log and the versions. *)

\* Only what one thread has read changes.
LEMMA QuietStep ==
    ASSUME StoreInv, NEW a \in Actors, NEW f, actor' = [actor EXCEPT ![a] = f],
           UNCHANGED <<workload, log, versions, made>>,
           FrameOk(f, log, made, Latest, Base),
           \A m \in 0..made : FoldOk(f, log, made, Latest, Base, m)
    PROVE  StoreInv'
<1>1. Latest' = Latest /\ Base' = Base
  BY DEF Latest, Base
<1>2. \A b \in Actors : actor'[b] = IF b = a THEN f ELSE actor[b]
  BY DEF StoreInv, FramesInv
<1>3. LogInv' /\ VersionsInv'
  BY <1>1 DEF StoreInv, LogInv, VersionsInv
<1>4. FramesInv'
  <2>1. actor' = [b \in Actors |-> actor'[b]]
    BY DEF StoreInv, FramesInv
  <2>2. \A b \in Actors : FrameOk(actor'[b], log, made, Latest, Base)
    BY <1>2 DEF StoreInv, FramesInv
  <2> QED BY <1>1, <2>1, <2>2 DEF FramesInv
<1>5. FoldsInv'
  <2>1. PICK m \in 0..made :
          /\ Covered(log, m, Base)
          /\ \A b \in Actors : FoldOk(actor[b], log, made, Latest, Base, m)
    BY DEF StoreInv, FoldsInv
  <2>2. \A b \in Actors : FoldOk(actor'[b], log, made, Latest, Base, m)
    BY <1>2, <2>1
  <2> QED BY <1>1, <2>1, <2>2 DEF FoldsInv
<1> QED BY <1>3, <1>4, <1>5 DEF StoreInv

\* What these have read is of no consequence to the log.
Apart(f) == f.pc \in {"idle", "pin base", "pin edits", "replace", "prune"}

LEMMA Harmless ==
    ASSUME NEW f, Apart(f), NEW e, NEW n, NEW l, NEW b
    PROVE  FrameOk(f, e, n, l, b) /\ \A m : FoldOk(f, e, n, l, b, m)
BY DEF FrameOk, FoldOk, Apart

LEMMA EditFrames ==
    ASSUME NEW f, NEW x \in EditRows, NEW o,
           \/ f = [pc |-> "check", edit |-> x] \/ f = [pc |-> "commit", edit |-> x]
           \/ f = [pc |-> "append", edit |-> x]
           \/ f = [pc |-> "catch up", edit |-> x, owed |-> o],
           NEW e, NEW n, NEW l, NEW b
    PROVE  FrameOk(f, e, n, l, b) /\ \A m : FoldOk(f, e, n, l, b, m)
<1>1. CASE f = [pc |-> "check", edit |-> x]
  BY <1>1 DEF FrameOk, FoldOk
<1>2. CASE f = [pc |-> "commit", edit |-> x]
  BY <1>2 DEF FrameOk, FoldOk
<1>3. CASE f = [pc |-> "append", edit |-> x]
  BY <1>3 DEF FrameOk, FoldOk
<1>4. CASE f = [pc |-> "catch up", edit |-> x, owed |-> o]
  BY <1>4 DEF FrameOk, FoldOk
<1> QED BY <1>1, <1>2, <1>3, <1>4

\* The steps of edits before the log is written.
LEMMA EditSteps ==
    ASSUME StoreInv, NEW a \in Actors,
           (\E e \in Edits : Act(a, e)) \/ Check(a) \/ CatchUp(a) \/ Recheck(a) \/ CommitFails(a)
    PROVE  StoreInv'
<1>0. FrameOk(actor[a], log, made, Latest, Base) /\ workload \in WorkloadRecords
  BY DEF StoreInv, FramesInv, LogInv
<1> DEFINE Good(f) == \E x \in EditRows : \E o :
           \/ f = [pc |-> "check", edit |-> x] \/ f = [pc |-> "commit", edit |-> x]
           \/ f = [pc |-> "append", edit |-> x]
           \/ f = [pc |-> "catch up", edit |-> x, owed |-> o]
<1>1. ASSUME NEW f, Good(f), actor' = [actor EXCEPT ![a] = f],
             UNCHANGED <<workload, log, versions, made>>
      PROVE  StoreInv'
  BY <1>1, EditFrames, QuietStep
<1>2. ASSUME NEW e \in Edits, Act(a, e) PROVE StoreInv'
  <2>1. e \in EditRows
    BY <1>0 DEF Edits, EditRows, WorkloadRecords
  <2>2. Good([pc |-> "check", edit |-> e])
    BY <2>1
  <2> HIDE DEF Good
  <2> QED BY <1>1, <1>2, <2>2 DEF Act, Step
<1>3. ASSUME Check(a) PROVE StoreInv'
  <2>1. PICK x \in EditRows : actor[a] = [pc |-> "check", edit |-> x]
    BY <1>0, <1>3 DEF Check, FrameOk
  <2>2. \A o : Good([pc |-> "append", edit |-> x]) /\ Good([pc |-> "commit", edit |-> x])
               /\ Good([pc |-> "catch up", edit |-> x, owed |-> o])
    OBVIOUS
  <2>3. actor[a].edit = x
    BY <2>1
  <2> HIDE DEF Good
  <2> QED BY <1>1, <1>3, <2>2, <2>3 DEF Check, Step
<1>4. ASSUME CatchUp(a) PROVE StoreInv'
  <2>1. actor[a].edit \in EditRows
    BY <1>0, <1>4 DEF CatchUp, FrameOk
  <2>2. PICK p : actor' = [actor EXCEPT ![a] = [pc |-> "catch up", edit |-> actor[a].edit,
                                                owed |-> p]]
    BY <1>4 DEF CatchUp, Step
  <2>4. Good([pc |-> "catch up", edit |-> actor[a].edit, owed |-> p])
    BY <2>1
  <2> HIDE DEF Good
  <2> QED BY <1>1, <1>4, <2>2, <2>4 DEF CatchUp
<1>5. ASSUME Recheck(a) PROVE StoreInv'
  <2>1. actor[a].edit \in EditRows
    BY <1>0, <1>5 DEF Recheck, FrameOk
  <2>2. Good([pc |-> "append", edit |-> actor[a].edit])
        /\ Good([pc |-> "commit", edit |-> actor[a].edit])
    BY <2>1
  <2>4. actor' = [actor EXCEPT ![a] = [pc |-> IF Current THEN "commit" ELSE "append",
                                       edit |-> actor[a].edit]]
    BY <1>5 DEF Recheck, Step
  <2>5. Good([pc |-> IF Current THEN "commit" ELSE "append", edit |-> actor[a].edit])
    BY <2>2
  <2> HIDE DEF Good
  <2> QED BY <1>1, <1>5, <2>4, <2>5 DEF Recheck
<1>6. ASSUME CommitFails(a) PROVE StoreInv'
  <2>1. PICK x \in EditRows : actor[a] = [pc |-> "commit", edit |-> x]
    BY <1>0, <1>6 DEF CommitFails, FrameOk
  <2>2. actor' = [actor EXCEPT ![a] = [pc |-> "append", edit |-> x]]
    <3>1. [actor[a] EXCEPT !.pc = "append"] = [pc |-> "append", edit |-> x]
      BY <2>1
    <3>2. actor' = [actor EXCEPT ![a] = [actor[a] EXCEPT !.pc = "append"]]
      BY <1>6 DEF CommitFails, Goto
    <3> QED BY <3>1, <3>2
  <2>3. Good([pc |-> "append", edit |-> x])
    OBVIOUS
  <2> HIDE DEF Good
  <2> QED BY <1>1, <1>6, <2>2, <2>3 DEF CommitFails
<1> QED BY <1>2, <1>3, <1>4, <1>5, <1>6

\* Rebuilds, and what ends a call.
LEMMA OtherSteps ==
    ASSUME StoreInv, NEW a \in Actors,
           \/ StartRebuild(a) \/ PinBase(a) \/ PinEdits(a) \/ Replace(a) \/ RebuildFails(a)
           \/ StaleBase(a) \/ Plan(a) \/ ScanEdits(a) \/ Abandon(a)
    PROVE  StoreInv'
<1>1. ASSUME NEW f, Apart(f),
             actor' = [actor EXCEPT ![a] = f], UNCHANGED <<workload, log, versions, made>>
      PROVE  StoreInv'
  BY <1>1, Harmless, QuietStep
<1>2. ASSUME StartRebuild(a) PROVE StoreInv'
  <2> DEFINE f == [pc |-> "pin base", version |-> Latest, applied |-> MaxSeq]
  <2>1. actor' = [actor EXCEPT ![a] = f] /\ UNCHANGED <<workload, log, versions, made>>
    BY <1>2 DEF StartRebuild, Step, Rebuild
  <2>2. Apart(f)
    BY DEF Apart
  <2> HIDE DEF f
  <2> QED BY <1>1, <2>1, <2>2
<1>3. ASSUME PinBase(a) PROVE StoreInv'
  <2> DEFINE f == [pc |-> "pin edits", version |-> actor[a].version,
                   applied |-> actor[a].applied, rows |-> Base]
  <2>1. actor' = [actor EXCEPT ![a] = f] /\ UNCHANGED <<workload, log, versions, made>>
    BY <1>3 DEF PinBase, Step
  <2>2. Apart(f)
    BY DEF Apart
  <2> HIDE DEF f
  <2> QED BY <1>1, <2>1, <2>2
<1>4. ASSUME PinEdits(a) PROVE StoreInv'
  <2> DEFINE f == [pc |-> "replace", version |-> actor[a].version,
                   applied |-> actor[a].applied, built |-> Materialized(actor[a].rows)]
  <2>1. actor' = [actor EXCEPT ![a] = f] /\ UNCHANGED <<workload, log, versions, made>>
    BY <1>4 DEF PinEdits, Step
  <2>2. Apart(f)
    BY DEF Apart
  <2> HIDE DEF f
  <2> QED BY <1>1, <2>1, <2>2
<1>5. ASSUME Replace(a) \/ RebuildFails(a) \/ StaleBase(a) \/ ScanEdits(a) \/ Abandon(a) PROVE StoreInv'
  <2>1. actor' = [actor EXCEPT ![a] = Idle] /\ UNCHANGED <<workload, log, versions, made>>
    BY <1>5 DEF Replace, RebuildFails, StaleBase, ScanEdits, Abandon, Step
  <2>2. Apart(Idle)
    BY DEF Apart, Idle
  <2> QED BY <1>1, <2>1, <2>2
<1>6. ASSUME Plan(a) PROVE StoreInv'
  <2> DEFINE f == [pc |-> "prune", ids |-> Prunable]
  <2>1. actor' = [actor EXCEPT ![a] = f] /\ UNCHANGED <<workload, log, versions, made>>
    BY <1>6 DEF Plan, Step
  <2>2. Apart(f)
    BY DEF Apart
  <2> HIDE DEF f
  <2> QED BY <1>1, <2>1, <2>2
<1> QED BY <1>2, <1>3, <1>4, <1>5, <1>6

\* What a fold and a scan read.
LEMMA ReadSteps ==
    ASSUME StoreInv, NEW a \in Actors,
           StartFold(a) \/ FoldBase(a) \/ FoldEdits(a) \/ ScanBase(a)
    PROVE  StoreInv'
<1>0. /\ FrameOk(actor[a], log, made, Latest, Base) /\ LogInv /\ VersionsInv
      /\ Base \in Objects /\ Live(log) \subseteq 1..made /\ Latest \in Nat \ {0} /\ made \in Nat
  BY BaseTyped DEF StoreInv, FramesInv, LogInv, VersionsInv, Live
<1>1. ASSUME StartFold(a) PROVE StoreInv'
  <2> DEFINE f == [pc |-> "fold base", version |-> Latest, ids |-> Live(log)]
  <2>0. f.pc = "fold base" /\ f.version \in 1..Latest /\ f.ids = Live(log)
    BY <1>0
  <2>1. FrameOk(f, log, made, Latest, Base) /\ \A m : FoldOk(f, log, made, Latest, Base, m)
    <3> HIDE DEF f
    <3> QED BY <1>0, <2>0 DEF FrameOk, FoldOk
  <2>2. actor' = [actor EXCEPT ![a] = f] /\ UNCHANGED <<workload, log, versions, made>>
    BY <1>1 DEF StartFold, Step
  <2> HIDE DEF f
  <2> QED BY <2>1, <2>2, QuietStep
<1>2. ASSUME FoldBase(a) PROVE StoreInv'
  <2> DEFINE f == [pc |-> "fold edits", version |-> actor[a].version, ids |-> actor[a].ids,
                   rows |-> Base]
  <2>1. FrameOk(f, log, made, Latest, Base) /\ \A m : FoldOk(f, log, made, Latest, Base, m)
    BY <1>0, <1>2 DEF FrameOk, FoldOk, FoldBase
  <2>2. actor' = [actor EXCEPT ![a] = f] /\ UNCHANGED <<workload, log, versions, made>>
    BY <1>2 DEF FoldBase, Step
  <2> HIDE DEF f
  <2> QED BY <2>1, <2>2, QuietStep
<1>3. ASSUME FoldEdits(a) PROVE StoreInv'
  <2> DEFINE f == [pc |-> "publish", version |-> actor[a].version, ids |-> actor[a].ids,
                   rows |-> Replay(actor[a].rows, log)]
  <2>1. /\ actor[a].version \in 1..Latest /\ actor[a].ids \subseteq 1..made
        /\ \A i \in Live(log), m \in actor[a].ids : i <= m => i \in actor[a].ids
        /\ actor[a].rows \in Objects
        /\ actor[a].version = Latest => actor[a].rows = Base
    BY <1>0, <1>3 DEF FoldEdits, FrameOk
  <2>2. /\ Replay(actor[a].rows, log) = Through(log, 0, made, actor[a].rows)
        /\ Replay(actor[a].rows, log) \in Objects
    <3>1. MaxEdits \in made..MaxEdits
      BY <1>0, BoundsAssumption DEF LogInv
    <3>2. Through(log, 0, MaxEdits, actor[a].rows) = Through(log, 0, made, actor[a].rows)
      BY <1>0, <2>1, <3>1, AllIsMade
    <3>3. Replay(actor[a].rows, log) = Through(log, 0, MaxEdits, actor[a].rows)
      BY <1>0, <2>1, ReplayIs DEF LogInv
    <3>4. Through(log, 0, made, actor[a].rows) \in Objects
      BY <1>0, <2>1, ThroughIs DEF LogInv
    <3> QED BY <3>2, <3>3, <3>4
  <2>3. FrameOk(f, log, made, Latest, Base)
    BY <2>1, <2>2 DEF FrameOk
  <2>4. ASSUME NEW m \in 0..made PROVE FoldOk(f, log, made, Latest, Base, m)
    <3>1. made \in m..made
      BY <1>0
    <3>2. f.version = Latest => f.rows = Through(log, 0, made, Base)
      BY <2>1, <2>2
    <3> QED BY <2>1, <3>1, <3>2 DEF FoldOk
  <2>5. actor' = [actor EXCEPT ![a] = f] /\ UNCHANGED <<workload, log, versions, made>>
    BY <1>3 DEF FoldEdits, Step
  <2> HIDE DEF f
  <2> QED BY <2>3, <2>4, <2>5, QuietStep
<1>4. ASSUME ScanBase(a) PROVE StoreInv'
  <2> DEFINE f == [pc |-> "scan", rows |-> ScanRows, view |-> View, live |-> Live(log)]
  <2>1. ScanRows = Base /\ View = Through(log, 0, made, Base)
    BY <1>0, ViewIs DEF ScanRows
  <2>2. Live(log) = Live(log) \cap (1..made) /\ made \in 0..made
    BY <1>0
  <2>3. FrameOk(f, log, made, Latest, Base) /\ \A m : FoldOk(f, log, made, Latest, Base, m)
    BY <1>0, <2>1, <2>2 DEF FrameOk, FoldOk
  <2>4. actor' = [actor EXCEPT ![a] = f] /\ UNCHANGED <<workload, log, versions, made>>
    BY <1>4 DEF ScanBase, Step
  <2> HIDE DEF f
  <2> QED BY <2>3, <2>4, QuietStep
<1> QED BY <1>1, <1>2, <1>3, <1>4

-----------------------------------------------------------------------------
(* The steps that change the log. *)

\* Replaying a log of n edits is replaying it through the nth.
LEMMA ReplayIsThrough ==
    ASSUME NEW e, Typed(e), NEW n \in 0..MaxEdits, DOMAIN e \subseteq 1..n, NEW rows \in Objects
    PROVE  /\ Replay(rows, e) = Through(e, 0, n, rows)
           /\ Through(e, 0, n, rows) \in Objects
<1>1. n \in Nat /\ MaxEdits \in Nat /\ n <= MaxEdits
  BY BoundsAssumption
<1>2. \A i \in Live(e) : ~(i > n /\ i <= MaxEdits)
  BY DEF Live
<1>3. Through(e, 0, n, rows) \in Objects
  BY <1>1, ThroughIs
<1>4. Through(e, n, MaxEdits, Through(e, 0, n, rows)) = Through(e, 0, n, rows)
  BY <1>1, <1>2, <1>3, ThroughNothing
<1>5. Replay(rows, e) = Through(e, 0, MaxEdits, rows)
  BY ReplayIs
<1> QED BY <1>1, <1>3, <1>4, <1>5, ThroughComposes

\* What was read of a log is read of any that has the same live edits so far.
LEMMA FramesKept ==
    ASSUME NEW e, Typed(e), NEW g, Typed(g), NEW n \in Nat, NEW k \in Nat, n <= k,
           NEW l, NEW b \in Objects,
           \A i \in Nat : i <= n =>
               /\ i \in Live(e) <=> i \in Live(g)
               /\ i \in Live(e) => \A o : Do(e, i, o) = Do(g, i, o)
    PROVE  /\ \A f : FrameOk(f, e, n, l, b) => FrameOk(f, g, k, l, b)
           /\ \A f : \A m \in 0..n : FoldOk(f, e, n, l, b, m) => FoldOk(f, g, k, l, b, m)
           /\ \A m \in 0..n : Covered(e, m, b) => Covered(g, m, b)
<1>1. \A i \in Nat, j \in 0..n, rows \in Objects : Through(e, i, j, rows) = Through(g, i, j, rows)
  <2> SUFFICES ASSUME NEW i \in Nat, NEW j \in 0..n, NEW rows \in Objects
               PROVE  Through(e, i, j, rows) = Through(g, i, j, rows)
    OBVIOUS
  <2>1. \A x \in Nat : x > i /\ x <= n =>
               /\ x \in Live(e) <=> x \in Live(g)
               /\ x \in Live(e) => \A o : Do(e, x, o) = Do(g, x, o)
    OBVIOUS
  <2> QED BY <2>1, ThroughDepends
<1>2. \A S : S \subseteq 1..n => S \subseteq 1..k
  OBVIOUS
<1>3. ASSUME NEW f, FrameOk(f, e, n, l, b) PROVE FrameOk(f, g, k, l, b)
  <2>1. CASE f.pc \in {"fold base", "fold edits", "publish", "mark"}
    <3>1. /\ f.version \in 1..l /\ f.ids \subseteq 1..n
          /\ \A i \in Live(e), m \in f.ids : i <= m => i \in f.ids
      BY <1>3, <2>1 DEF FrameOk
    <3>2. ASSUME NEW i \in Live(g), NEW m \in f.ids, i <= m PROVE i \in f.ids
      <4>1. i \in Nat /\ m \in 1..n
        BY <3>1 DEF Live, Typed
      <4>2. i \in Live(e)
        BY <3>2, <4>1
      <4> QED BY <3>1, <3>2, <4>2
    <3>3. f.ids \subseteq 1..k
      BY <1>2, <3>1
    <3> QED BY <1>3, <2>1, <3>1, <3>2, <3>3 DEF FrameOk
  <2>2. CASE f.pc = "scan"
    <3>1. f.rows \in Objects /\ f.live \subseteq 1..n
      BY <1>3, <2>2 DEF FrameOk
    <3>2. ASSUME f.live \subseteq Live(g)
          PROVE  \E m \in 0..k : f.live = Live(g) \cap (1..m) /\ f.view = Through(g, 0, m, f.rows)
      <4>1. f.live \subseteq Live(e)
        BY <3>1, <3>2
      <4>2. PICK m \in 0..n : f.live = Live(e) \cap (1..m) /\ f.view = Through(e, 0, m, f.rows)
        BY <1>3, <2>2, <4>1 DEF FrameOk
      <4>3. Live(e) \cap (1..m) = Live(g) \cap (1..m) /\ m \in 0..k
        OBVIOUS
      <4> QED BY <1>1, <3>1, <4>2, <4>3
    <3>3. f.live \subseteq 1..k
      BY <1>2, <3>1
    <3> QED BY <2>2, <3>1, <3>2, <3>3 DEF FrameOk
  <2> QED BY <1>3, <2>1, <2>2 DEF FrameOk
<1>4. ASSUME NEW f, NEW m \in 0..n, FoldOk(f, e, n, l, b, m) PROVE FoldOk(f, g, k, l, b, m)
  <2>1. CASE f.pc = "publish" /\ f.version = l
    <3>1. PICK j \in m..n : f.ids \subseteq 1..j /\ f.rows = Through(e, 0, j, b)
      BY <1>4, <2>1 DEF FoldOk
    <3>2. j \in m..k /\ j \in 0..n
      OBVIOUS
    <3>3. f.rows = Through(g, 0, j, b)
      BY <1>1, <3>1, <3>2
    <3> QED BY <2>1, <3>1, <3>2, <3>3 DEF FoldOk
  <2> QED BY <1>4, <2>1 DEF FoldOk
<1>5. ASSUME NEW m \in 0..n, Covered(e, m, b) PROVE Covered(g, m, b)
  BY <1>1, <1>5 DEF Covered
<1> QED BY <1>3, <1>4, <1>5

\* A step that changes the log, of which the last n edits were made before.
LEMMA LogStep ==
    ASSUME StoreInv, NEW a \in Actors, NEW f, Apart(f), actor' = [actor EXCEPT ![a] = f],
           UNCHANGED <<workload, versions>>, LogInv', made' >= made,
           \A i \in Nat : i <= made =>
               /\ i \in Live(log) <=> i \in Live(log')
               /\ i \in Live(log) => \A o : Do(log, i, o) = Do(log', i, o)
    PROVE  StoreInv'
<1>1. Latest' = Latest /\ Base' = Base
  BY DEF Latest, Base
<1>2. \A b \in Actors : actor'[b] = IF b = a THEN f ELSE actor[b]
  BY DEF StoreInv, FramesInv
<1>3. /\ Typed(log) /\ Typed(log') /\ made \in Nat /\ made' \in Nat /\ Base \in Objects
      /\ VersionsInv
  BY BaseTyped, BoundsAssumption DEF StoreInv, LogInv
<1>4. VersionsInv'
  BY <1>1, <1>3 DEF VersionsInv
<1>5. /\ \A x : FrameOk(x, log, made, Latest, Base) => FrameOk(x, log', made', Latest, Base)
      /\ \A x : \A m \in 0..made : FoldOk(x, log, made, Latest, Base, m) =>
                    FoldOk(x, log', made', Latest, Base, m)
      /\ \A m \in 0..made : Covered(log, m, Base) => Covered(log', m, Base)
  BY <1>3, FramesKept
<1>6. FrameOk(f, log', made', Latest, Base) /\ \A m : FoldOk(f, log', made', Latest, Base, m)
  BY Harmless
<1>7. FramesInv'
  <2>1. actor' = [b \in Actors |-> actor'[b]]
    BY DEF StoreInv, FramesInv
  <2>2. \A b \in Actors : FrameOk(actor'[b], log', made', Latest, Base)
    BY <1>2, <1>5, <1>6 DEF StoreInv, FramesInv
  <2> QED BY <1>1, <2>1, <2>2 DEF FramesInv
<1>8. FoldsInv'
  <2>1. PICK m \in 0..made :
          /\ Covered(log, m, Base)
          /\ \A b \in Actors : FoldOk(actor[b], log, made, Latest, Base, m)
    BY DEF StoreInv, FoldsInv
  <2>2. \A b \in Actors : FoldOk(actor'[b], log', made', Latest, Base, m)
    BY <1>2, <1>5, <1>6, <2>1
  <2>3. m \in 0..made' /\ Covered(log', m, Base)
    BY <1>3, <1>5, <2>1
  <2> QED BY <1>1, <2>2, <2>3 DEF FoldsInv
<1> QED BY <1>4, <1>7, <1>8 DEF StoreInv

\* One more edit, the last of the log.
LEMMA AppendStep ==
    ASSUME StoreInv, NEW a \in Actors, Commit(a) \/ AppendOnly(a)
    PROVE  /\ StoreInv'
           /\ made' = made + 1
           /\ UNCHANGED versions
           /\ \E x \in EditRows :
                 /\ actor[a].edit = x
                 /\ View' = [View EXCEPT ![x.key] = Edited(@, Unfolded(x), made + 1)]
           /\ View' = Through(log', 0, made + 1, Base)
           /\ \A j \in 0..made : Through(log', 0, j, Base) = Through(log, 0, j, Base)
<1>0. /\ LogInv /\ VersionsInv /\ FrameOk(actor[a], log, made, Latest, Base)
      /\ Typed(log) /\ DOMAIN log \subseteq 1..made /\ made \in Nat /\ MaxSeq = made
      /\ Base \in Objects
  BY MadeIsMaxSeq, BaseTyped, BoundsAssumption DEF StoreInv, FramesInv, LogInv
<1>1. PICK x \in EditRows : actor[a].edit = x
  <2>1. PICK x \in EditRows : actor[a] = [pc |-> actor[a].pc, edit |-> x]
    BY <1>0 DEF Commit, AppendOnly, FrameOk
  <2> QED BY <2>1
<1>2. /\ log' = [n \in DOMAIN log \cup {made + 1} |-> IF n = made + 1 THEN Unfolded(x) ELSE log[n]]
      /\ made' = made + 1
      /\ actor' = [actor EXCEPT ![a] = Idle]
      /\ UNCHANGED <<workload, versions>>
  BY <1>0, <1>1 DEF Commit, AppendOnly, Logged, Step
<1>3. made + 1 \in 1..MaxEdits
  <2>1. workload.edits \in 0..MaxEdits
    BY <1>0 DEF LogInv, WorkloadRecords
  <2>2. made < workload.edits
    BY DEF Commit, AppendOnly
  <2> QED BY <1>0, <2>1, <2>2, BoundsAssumption
<1>4. PICK e : e = log'
  OBVIOUS
<1>5. /\ DOMAIN e = DOMAIN log \cup {made + 1} /\ e[made + 1] = Unfolded(x)
      /\ \A n \in DOMAIN log : e[n] = log[n]
  BY <1>0, <1>2, <1>4
<1>6. Unfolded(x) \in LogRows /\ Unfolded(x).folded = 0 /\ Unfolded(x).key = x.key
  BY DEF Unfolded, LogRows, EditRows
<1>7. Typed(e) /\ DOMAIN e \subseteq 1..(made + 1) /\ made + 1 \in Live(e)
  BY <1>0, <1>5, <1>6 DEF Typed, Live
<1>8. ASSUME NEW n \in Nat, n <= made
      PROVE  /\ n \in Live(log) <=> n \in Live(e)
             /\ n \in Live(log) => \A o : Do(log, n, o) = Do(e, n, o)
  <2>1. n \in Live(log) <=> n \in Live(e)
    BY <1>0, <1>5, <1>8 DEF Live
  <2>2. n \in Live(log) => log[n] = e[n]
    BY <1>5 DEF Live
  <2> QED BY <2>1, <2>2, SameRows
<1>9. LogInv'
  BY <1>0, <1>2, <1>3, <1>4, <1>5, <1>7 DEF LogInv
<1>10. StoreInv'
  <2>1. Apart(Idle)
    BY DEF Apart, Idle
  <2>2. made' >= made
    BY <1>0, <1>2
  <2> QED BY <1>2, <1>4, <1>8, <1>9, <2>1, <2>2, LogStep
<1>14. View' = Through(e, 0, made + 1, Base)
  <2>1. View' = Replay(Base, e)
    BY <1>2, <1>4 DEF View, Base, Latest
  <2>2. made + 1 \in 0..MaxEdits
    BY <1>3
  <2> QED BY <1>0, <1>7, <2>1, <2>2, ReplayIsThrough
<1>11. View' = Do(e, made + 1, View)
  <2>2. Through(e, 0, made + 1, Base) = Do(e, made + 1, Through(e, 0, made, Base))
    BY <1>0, <1>7, ThroughIs
  <2>3. Through(log, 0, made, Base) = Through(e, 0, made, Base)
    BY <1>0, <1>7, <1>8, ThroughDepends
  <2>4. View = Through(log, 0, made, Base)
    BY <1>0, ViewIs
  <2> QED BY <1>14, <2>2, <2>3, <2>4
<1>13. \A j \in 0..made : Through(e, 0, j, Base) = Through(log, 0, j, Base)
  BY <1>0, <1>7, <1>8, ThroughDepends
<1>12. Do(e, made + 1, View) = [View EXCEPT ![x.key] = Edited(@, Unfolded(x), made + 1)]
  BY <1>5, <1>6, <1>7 DEF Do
<1> QED BY <1>1, <1>2, <1>4, <1>10, <1>11, <1>12, <1>13, <1>14

\* Pruning deletes edits that are not live.
LEMMA PruneStep ==
    ASSUME StoreInv, NEW a \in Actors, Prune(a)
    PROVE  /\ StoreInv' /\ View' = View
           /\ \A j \in Nat : Through(log', 0, j, Base) = Through(log, 0, j, Base)
<1>0. /\ LogInv /\ VersionsInv
      /\ Typed(log) /\ DOMAIN log \subseteq 1..made /\ made \in 0..MaxEdits /\ made \in Nat
      /\ MaxSeq = made /\ Base \in Objects
  BY MadeIsMaxSeq, BaseTyped, BoundsAssumption DEF StoreInv, LogInv
<1>1. /\ log' = [n \in DOMAIN log \ Deleted(a) |-> log[n]]
      /\ actor' = [actor EXCEPT ![a] = Idle]
      /\ UNCHANGED <<workload, versions, made>>
  BY DEF Prune, Step
<1>2. \A n \in Deleted(a) : log[n].folded # 0 /\ n < made
  BY <1>0 DEF Deleted
<1>3. PICK e : e = log'
  OBVIOUS
<1>4. DOMAIN e = DOMAIN log \ Deleted(a) /\ \A n \in DOMAIN e : e[n] = log[n]
  BY <1>1, <1>3
<1>5. Typed(e) /\ DOMAIN e \subseteq 1..made
  BY <1>0, <1>4 DEF Typed
<1>6. ASSUME NEW n \in Nat
      PROVE  /\ n \in Live(log) <=> n \in Live(e)
             /\ n \in Live(log) => \A o : Do(log, n, o) = Do(e, n, o)
  <2>1. n \in Live(log) <=> n \in Live(e)
    BY <1>2, <1>4 DEF Live
  <2>2. n \in Live(e) => log[n] = e[n]
    BY <1>4 DEF Live
  <2> QED BY <2>1, <2>2, SameRows
<1>7. LogInv'
  <2>1. made > 0 => made \in DOMAIN e
    BY <1>0, <1>2, <1>4 DEF LogInv
  <2> QED BY <1>0, <1>1, <1>3, <1>5, <2>1 DEF LogInv
<1>8. StoreInv'
  <2>1. Apart(Idle)
    BY DEF Apart, Idle
  <2>2. made' >= made
    BY <1>0, <1>1
  <2> QED BY <1>1, <1>3, <1>6, <1>7, <2>1, <2>2, LogStep
<1>9. View' = View
  <2>1. View' = Replay(Base, e)
    BY <1>1, <1>3 DEF View, Base, Latest
  <2>2. Replay(Base, e) = Through(e, 0, made, Base)
    BY <1>0, <1>5, ReplayIsThrough
  <2>3. Through(log, 0, made, Base) = Through(e, 0, made, Base)
    BY <1>0, <1>5, <1>6, ThroughDepends
  <2> QED BY <1>0, <2>1, <2>2, <2>3, ViewIs
<1>10. \A j \in Nat : Through(e, 0, j, Base) = Through(log, 0, j, Base)
  BY <1>0, <1>5, <1>6, ThroughDepends
<1> QED BY <1>3, <1>8, <1>9, <1>10

\* A fold that is published marks its edits, the oldest that are live, and the
\* newest version holds every edit up to the last of them.
LEMMA MarkStep ==
    ASSUME StoreInv, NEW a \in Actors, Mark(a)
    PROVE  StoreInv' /\ View' = View
<1>0. /\ LogInv /\ VersionsInv /\ FrameOk(actor[a], log, made, Latest, Base)
      /\ Typed(log) /\ DOMAIN log \subseteq 1..made /\ made \in 0..MaxEdits /\ made \in Nat
      /\ Base \in Objects
  BY BaseTyped, BoundsAssumption DEF StoreInv, FramesInv, LogInv
<1>1. PICK m \in 0..made :
          /\ Covered(log, m, Base)
          /\ \A b \in Actors : FoldOk(actor[b], log, made, Latest, Base, m)
  BY DEF StoreInv, FoldsInv
<1>2. PICK ids, version : ids = actor[a].ids /\ version = actor[a].version
  OBVIOUS
<1>3. /\ ids \subseteq 1..m /\ version \in 1..Latest /\ version \in Nat \ {0} /\ m \in Nat
      /\ \A i \in Live(log), x \in ids : i <= x => i \in ids
  <2>1. actor[a].pc = "mark"
    BY DEF Mark
  <2>2. ids \subseteq 1..m
    BY <1>1, <1>2, <2>1 DEF FoldOk
  <2>3. /\ version \in 1..Latest
        /\ \A i \in Live(log), x \in ids : i <= x => i \in ids
    BY <1>0, <1>2, <2>1 DEF FrameOk
  <2>4. Latest \in Nat
    BY <1>0 DEF VersionsInv
  <2> QED BY <1>0, <2>2, <2>3, <2>4
<1>4. /\ log' = [n \in DOMAIN log |-> IF n \in ids /\ log[n].folded = 0
                                      THEN [log[n] EXCEPT !.folded = version] ELSE log[n]]
      /\ UNCHANGED <<workload, versions, made>>
  BY <1>2 DEF Mark, ToMark
<1>5. PICK f : Apart(f) /\ actor' = [actor EXCEPT ![a] = f]
  <2>1. Apart(Idle) /\ Apart(Rebuild)
    BY DEF Apart, Idle, Rebuild
  <2> QED BY <2>1 DEF Mark, Step
<1>6. PICK e : e = log'
  OBVIOUS
<1>7. /\ DOMAIN e = DOMAIN log
      /\ \A n \in DOMAIN log : e[n] \in LogRows /\ e[n].kind = log[n].kind
                               /\ e[n].key = log[n].key /\ e[n].col = log[n].col
      /\ \A n \in DOMAIN log : e[n].folded = 0 <=> log[n].folded = 0 /\ n \notin ids
  <2> SUFFICES ASSUME NEW n \in DOMAIN log
               PROVE  /\ e[n] \in LogRows /\ e[n].kind = log[n].kind
                      /\ e[n].key = log[n].key /\ e[n].col = log[n].col
                      /\ e[n].folded = 0 <=> log[n].folded = 0 /\ n \notin ids
    BY <1>4, <1>6
  <2>1. log[n] \in LogRows
    BY <1>0 DEF Typed
  <2>2. CASE n \in ids /\ log[n].folded = 0
    <3>1. e[n] = [log[n] EXCEPT !.folded = version]
      BY <1>4, <1>6, <2>2
    <3> QED BY <1>3, <2>1, <2>2, <3>1 DEF LogRows
  <2>3. CASE ~(n \in ids /\ log[n].folded = 0)
    <3>1. e[n] = log[n]
      BY <1>4, <1>6, <2>3
    <3> QED BY <2>1, <2>3, <3>1
  <2> QED BY <2>2, <2>3
<1>8. Typed(e) /\ DOMAIN e \subseteq 1..made /\ Live(e) = Live(log) \ ids
  BY <1>0, <1>7 DEF Typed, Live
<1>9. \A n \in Live(e) : \A o : Do(e, n, o) = Do(log, n, o)
  <2> SUFFICES ASSUME NEW n \in Live(e) PROVE \A o : Do(e, n, o) = Do(log, n, o)
    OBVIOUS
  <2>1. n \in Live(log) /\ n \in DOMAIN log
    BY <1>8 DEF Live
  <2> QED BY <1>7, <2>1, SameRows
<1>10. PICK c \in 0..m : From(e, log, c)
  <2>1. Typed(log) /\ Typed(e) /\ m \in Nat /\ ids \subseteq 1..m
    BY <1>0, <1>3, <1>8
  <2>2. Without(e, log, ids)
    BY <1>3, <1>8, <1>9 DEF Without
  <2> QED BY <2>1, <2>2, MarkedThrough
<1>11. \A i \in 0..m : Through(log, i, m, Base) = Base
  BY <1>1 DEF Covered
<1>12. ASSUME NEW j \in Nat, m <= j PROVE Through(e, 0, j, Base) = Through(log, 0, j, Base)
  <2>1. Through(e, 0, j, Base) = Through(log, c, j, Base)
    <3>1. 0 \in Nat /\ 0 <= j /\ c <= j /\ c \in Nat
      BY <1>3, <1>12
    <3>2. (IF c <= 0 THEN 0 ELSE c) = c
      BY <3>1
    <3> QED BY <1>0, <1>10, <3>1, <3>2 DEF From
  <2>2. Through(log, c, j, Base) = Through(log, m, j, Through(log, c, m, Base))
    BY <1>0, <1>3, <1>12, ThroughComposes
  <2>3. Through(log, 0, j, Base) = Through(log, m, j, Through(log, 0, m, Base))
    BY <1>0, <1>3, <1>12, ThroughComposes
  <2>4. Through(log, c, m, Base) = Base /\ Through(log, 0, m, Base) = Base
    BY <1>3, <1>11
  <2> QED BY <2>1, <2>2, <2>3, <2>4
<1>13. Covered(e, m, Base)
  <2> SUFFICES ASSUME NEW i \in 0..m PROVE Through(e, i, m, Base) = Base
    BY DEF Covered
  <2>1. (IF c <= i THEN i ELSE c) \in 0..m
    OBVIOUS
  <2>2. Through(e, i, m, Base) = Through(log, IF c <= i THEN i ELSE c, m, Base)
    <3>1. i \in Nat /\ i <= m /\ c <= m /\ m \in Nat
      BY <1>3
    <3> QED BY <1>0, <1>10, <3>1 DEF From
  <2> QED BY <1>11, <2>1, <2>2
<1>14. ASSUME NEW x, FoldOk(x, log, made, Latest, Base, m)
       PROVE  FoldOk(x, e, made, Latest, Base, m)
  <2>1. CASE x.pc = "publish" /\ x.version = Latest
    <3>1. PICK j \in m..made : x.ids \subseteq 1..j /\ x.rows = Through(log, 0, j, Base)
      BY <1>14, <2>1 DEF FoldOk
    <3>2. j \in Nat /\ m <= j
      BY <1>3
    <3>3. x.rows = Through(e, 0, j, Base)
      BY <1>12, <3>1, <3>2
    <3> QED BY <2>1, <3>1, <3>3 DEF FoldOk
  <2> QED BY <1>14, <2>1 DEF FoldOk
<1>15. ASSUME NEW x, FrameOk(x, log, made, Latest, Base)
       PROVE  FrameOk(x, e, made, Latest, Base)
  <2>1. CASE x.pc \in {"fold base", "fold edits", "publish", "mark"}
    BY <1>8, <1>15, <2>1 DEF FrameOk
  <2>2. CASE x.pc = "scan"
    <3>1. x.rows \in Objects /\ x.live \subseteq 1..made
      BY <1>15, <2>2 DEF FrameOk
    <3>2. ASSUME x.live \subseteq Live(e)
          PROVE  \E k \in 0..made : x.live = Live(e) \cap (1..k) /\ x.view = Through(e, 0, k, x.rows)
      <4>1. PICK k \in 0..made : x.live = Live(log) \cap (1..k) /\ x.view = Through(log, 0, k, x.rows)
        BY <1>8, <1>15, <2>2, <3>2 DEF FrameOk
      <4>2. x.live = Live(e) \cap (1..k) /\ k \in Nat
        BY <1>8, <3>2, <4>1
      <4>3. \A i \in Nat : i > 0 /\ i <= k =>
               /\ i \in Live(log) <=> i \in Live(e)
               /\ i \in Live(log) => \A o : Do(log, i, o) = Do(e, i, o)
        <5> SUFFICES ASSUME NEW i \in Nat, i > 0, i <= k
                     PROVE  /\ i \in Live(log) <=> i \in Live(e)
                            /\ i \in Live(log) => \A o : Do(log, i, o) = Do(e, i, o)
          OBVIOUS
        <5>1. i \in 1..k
          BY <4>2
        <5>2. i \in Live(log) <=> i \in Live(e)
          BY <4>1, <4>2, <5>1
        <5> QED BY <1>9, <5>2
      <4>4. Through(log, 0, k, x.rows) = Through(e, 0, k, x.rows)
        BY <1>0, <1>8, <3>1, <4>2, <4>3, ThroughDepends, SMTT(30)
      <4> QED BY <4>1, <4>2, <4>4
    <3> QED BY <2>2, <3>1, <3>2 DEF FrameOk
  <2> QED BY <1>15, <2>1, <2>2 DEF FrameOk
<1>16. Latest' = Latest /\ Base' = Base
  BY <1>4 DEF Latest, Base
<1>17. LogInv' /\ VersionsInv'
  BY <1>0, <1>4, <1>6, <1>7, <1>8, <1>16 DEF LogInv, VersionsInv
<1>18. \A b \in Actors : actor'[b] = IF b = a THEN f ELSE actor[b]
  BY <1>5 DEF StoreInv, FramesInv
<1>19. FrameOk(f, e, made, Latest, Base) /\ FoldOk(f, e, made, Latest, Base, m)
  BY <1>5, Harmless
<1>20. FramesInv'
  <2>1. actor' = [b \in Actors |-> actor'[b]]
    BY <1>5 DEF StoreInv, FramesInv
  <2>2. \A b \in Actors : FrameOk(actor'[b], e, made, Latest, Base)
    BY <1>15, <1>18, <1>19 DEF StoreInv, FramesInv
  <2> QED BY <1>4, <1>6, <1>16, <2>1, <2>2 DEF FramesInv
<1>21. FoldsInv'
  <2>1. \A b \in Actors : FoldOk(actor'[b], e, made, Latest, Base, m)
    BY <1>1, <1>14, <1>18, <1>19
  <2> QED BY <1>4, <1>6, <1>13, <1>16, <2>1 DEF FoldsInv
<1>22. View' = View
  <2>1. View' = Replay(Base, e)
    BY <1>4, <1>6 DEF View, Base, Latest
  <2>2. Replay(Base, e) = Through(e, 0, made, Base)
    BY <1>0, <1>8, ReplayIsThrough
  <2>3. m <= made
    BY <1>0
  <2>4. Through(e, 0, made, Base) = Through(log, 0, made, Base)
    BY <1>0, <1>12, <2>3
  <2> QED BY <1>0, <2>1, <2>2, <2>4, ViewIs
<1> QED BY <1>17, <1>20, <1>21, <1>22 DEF StoreInv

-----------------------------------------------------------------------------
(* The steps that add a version. *)

\* The versions with one more.
LEMMA NewVersionIs ==
    ASSUME VersionsInv, NEW rows \in Objects, NEW source, NewVersion(rows, source)
    PROVE  /\ Latest' = Latest + 1 /\ Base' = rows /\ VersionsInv'
           /\ DOMAIN versions' = 1..(Latest + 1)
           /\ versions'[Latest + 1].source = source
           /\ \A v \in 1..Latest : versions'[v] = versions[v]
<1>0. Latest \in Nat \ {0} /\ DOMAIN versions = 1..Latest
  BY DEF VersionsInv
<1>1. PICK n \in Nat : n = Latest
  BY <1>0
<1>2. versions' = [v \in 1..(n + 1) |->
                     IF v > n THEN [rows |-> rows, source |-> source] ELSE versions[v]]
  BY <1>1 DEF NewVersion
<1>3. /\ DOMAIN versions' = 1..(n + 1)
      /\ versions'[n + 1] = [rows |-> rows, source |-> source]
      /\ \A v \in 1..n : versions'[v] = versions[v]
  BY <1>2
<1>4. Latest' = n + 1
  <2>1. Latest' = Cardinality(1..(n + 1))
    BY <1>3 DEF Latest
  <2> QED BY <2>1, FS_Interval
<1>5. Base' = rows
  BY <1>3, <1>4 DEF Base
<1>6. \A v \in 1..(n + 1) : versions'[v].rows \in Objects
  <2> SUFFICES ASSUME NEW v \in 1..(n + 1) PROVE versions'[v].rows \in Objects
    OBVIOUS
  <2>1. CASE v = n + 1
    BY <1>3, <2>1
  <2>2. CASE v # n + 1
    <3>1. v \in 1..n
      BY <2>2
    <3> QED BY <1>1, <1>3, <3>1 DEF VersionsInv
  <2> QED BY <2>1, <2>2
<1> QED BY <1>1, <1>3, <1>4, <1>5, <1>6 DEF VersionsInv

\* What was read of an older version is read of it still.
LEMMA OlderFrames ==
    ASSUME NEW e, NEW n, NEW l \in Nat, NEW b, NEW c, NEW f, FrameOk(f, e, n, l, b)
    PROVE  /\ FrameOk(f, e, n, l + 1, c)
           /\ \A m, j, k : FoldOk(f, e, n, l, b, m) /\ (f.pc # "mark" \/ 1..m \subseteq 1..j) =>
                              FoldOk(f, e, k, l + 1, c, j)
<1>1. f.pc \in {"fold base", "fold edits", "publish", "mark"} =>
         f.version \in 1..(l + 1) /\ f.version # l + 1
  <2>1. f.pc \in {"fold base", "fold edits", "publish", "mark"} => f.version \in 1..l
    BY DEF FrameOk
  <2>2. \A v \in 1..l : v \in 1..(l + 1) /\ v # l + 1
    OBVIOUS
  <2> QED BY <2>1, <2>2
<1>2. FrameOk(f, e, n, l + 1, c)
  BY <1>1 DEF FrameOk
<1>3. ASSUME NEW m, NEW j, NEW k, FoldOk(f, e, n, l, b, m), f.pc # "mark" \/ 1..m \subseteq 1..j
      PROVE  FoldOk(f, e, k, l + 1, c, j)
  BY <1>1, <1>3 DEF FoldOk
<1> QED BY <1>2, <1>3

\* A fold puts in the dataset the edits it saw; they are replayed over it once
\* more until they are marked.
LEMMA PublishStep ==
    ASSUME StoreInv, NEW a \in Actors, Publish(a)
    PROVE  StoreInv' /\ View' = View
<1>0. /\ LogInv /\ VersionsInv /\ FrameOk(actor[a], log, made, Latest, Base)
      /\ Typed(log) /\ DOMAIN log \subseteq 1..made /\ made \in 0..MaxEdits /\ made \in Nat
      /\ Base \in Objects /\ Latest \in Nat \ {0}
  BY BaseTyped, BoundsAssumption DEF StoreInv, FramesInv, LogInv, VersionsInv
<1>1. PICK m \in 0..made :
          /\ Covered(log, m, Base)
          /\ \A b \in Actors : FoldOk(actor[b], log, made, Latest, Base, m)
  BY DEF StoreInv, FoldsInv
<1>2. actor[a].pc = "publish" /\ actor[a].version = Latest
  BY DEF Publish, SameBase
<1>3. PICK j \in m..made : actor[a].ids \subseteq 1..j /\ actor[a].rows = Through(log, 0, j, Base)
  BY <1>1, <1>2 DEF FoldOk
<1>4. j \in Nat /\ j <= made /\ m \in Nat /\ j \in 0..made /\ 1..m \subseteq 1..j
  BY <1>0
<1>5. PICK rows \in Objects : rows = Through(log, 0, j, Base)
  BY <1>0, <1>4, ThroughIs
<1>6. PICK ids : ids = actor[a].ids
  OBVIOUS
<1>7. NewVersion(rows, "writeback")
  BY <1>3, <1>5 DEF Publish
<1>8. Latest' = Latest + 1 /\ Base' = rows /\ VersionsInv'
  BY <1>0, <1>7, NewVersionIs
<1>9. PICK f : f = [pc |-> "mark", version |-> Latest + 1, ids |-> ids]
  OBVIOUS
<1>10. actor' = [actor EXCEPT ![a] = f] /\ UNCHANGED <<workload, log, made>>
  BY <1>6, <1>9 DEF Publish, Step
<1>11. f.pc = "mark" /\ f.version = Latest + 1 /\ f.ids = ids
  BY <1>9
<1>12. FrameOk(f, log, made, Latest + 1, rows) /\ FoldOk(f, log, made, Latest + 1, rows, j)
  <2>1. /\ ids \subseteq 1..made
        /\ \A i \in Live(log), x \in ids : i <= x => i \in ids
    BY <1>0, <1>2, <1>6 DEF FrameOk
  <2>2. Latest + 1 \in 1..(Latest + 1)
    BY <1>0
  <2> QED BY <1>3, <1>6, <1>11, <2>1, <2>2 DEF FrameOk, FoldOk
<1>13. \A b \in Actors : actor'[b] = IF b = a THEN f ELSE actor[b]
  BY <1>10 DEF StoreInv, FramesInv
<1>14. ASSUME NEW b \in Actors
       PROVE  /\ FrameOk(actor'[b], log, made, Latest + 1, rows)
              /\ FoldOk(actor'[b], log, made, Latest + 1, rows, j)
  <2>1. CASE b = a
    BY <1>12, <1>13, <2>1
  <2>2. CASE b # a
    <3>1. FrameOk(actor[b], log, made, Latest, Base) /\ FoldOk(actor[b], log, made, Latest, Base, m)
      BY <1>1 DEF StoreInv, FramesInv
    <3>2. Latest \in Nat
      BY <1>0
    <3>3. /\ FrameOk(actor[b], log, made, Latest + 1, rows)
          /\ FoldOk(actor[b], log, made, Latest + 1, rows, j)
      BY <1>4, <3>1, <3>2, OlderFrames
    <3> QED BY <1>13, <2>2, <3>3
  <2> QED BY <2>1, <2>2
<1>15. Covered(log, j, rows)
  <2> SUFFICES ASSUME NEW i \in 0..j PROVE Through(log, i, j, rows) = rows
    BY DEF Covered
  <2>1. i \in Nat /\ i <= j
    BY <1>4
  <2> QED BY <1>0, <1>4, <1>5, <2>1, ReplayingAgain
<1>16. LogInv'
  BY <1>0, <1>10 DEF LogInv
<1>17. FramesInv'
  <2>1. actor' = [b \in Actors |-> actor'[b]]
    BY <1>10 DEF StoreInv, FramesInv
  <2> QED BY <1>8, <1>10, <1>14, <2>1 DEF FramesInv
<1>18. FoldsInv'
  BY <1>4, <1>8, <1>10, <1>14, <1>15 DEF FoldsInv
<1>19. View' = View
  <2>1. View' = Replay(rows, log)
    BY <1>8, <1>10 DEF View
  <2>2. Replay(rows, log) = Through(log, 0, made, rows)
    BY <1>0, ReplayIsThrough
  <2>3. Through(log, 0, made, rows) = Through(log, j, made, Through(log, 0, j, rows))
    BY <1>0, <1>4, ThroughComposes
  <2>4. Through(log, 0, j, rows) = rows
    BY <1>4, <1>15 DEF Covered
  <2>5. Through(log, j, made, rows) = Through(log, 0, made, Base)
    BY <1>0, <1>4, <1>5, ThroughComposes
  <2> QED BY <1>0, <2>1, <2>2, <2>3, <2>4, <2>5, ViewIs
<1> QED BY <1>8, <1>16, <1>17, <1>18, <1>19 DEF StoreInv

\* New rows, while no fold is between its version and its marks.
LEMMA UploadStep ==
    ASSUME StoreInv, Upload
    PROVE  StoreInv' /\ View' \in Objects
<1>0. /\ LogInv /\ VersionsInv
      /\ Typed(log) /\ DOMAIN log \subseteq 1..made /\ made \in 0..MaxEdits /\ made \in Nat
      /\ Latest \in Nat
  BY BoundsAssumption DEF StoreInv, LogInv, VersionsInv
<1>1. PICK rows : rows = [k \in Keys |-> [c \in Cols |-> -(Latest + 1)]]
  OBVIOUS
<1>2. rows \in Objects
  <2>1. -(Latest + 1) \in Int
    BY <1>0
  <2>2. [c \in Cols |-> -(Latest + 1)] \in [Cols -> Int]
    BY <2>1
  <2> QED BY <1>1, <2>2 DEF Objects
<1>3. NewVersion(rows, "upload") /\ UNCHANGED <<workload, log, actor, made>>
  BY <1>1 DEF Upload
<1>4. Latest' = Latest + 1 /\ Base' = rows /\ VersionsInv'
  BY <1>0, <1>2, <1>3, NewVersionIs
<1>5. PICK m \in 0..made : \A b \in Actors : FoldOk(actor[b], log, made, Latest, Base, m)
  BY DEF StoreInv, FoldsInv
<1>6. ASSUME NEW b \in Actors
      PROVE  /\ FrameOk(actor[b], log, made, Latest + 1, rows)
             /\ FoldOk(actor[b], log, made, Latest + 1, rows, 0)
  <2>1. FrameOk(actor[b], log, made, Latest, Base) /\ FoldOk(actor[b], log, made, Latest, Base, m)
    BY <1>5 DEF StoreInv, FramesInv
  <2>2. actor[b].pc # "mark"
    BY DEF Upload
  <2> QED BY <1>0, <2>1, <2>2, OlderFrames
<1>7. Covered(log, 0, rows)
  BY <1>0, <1>2, ThroughIs DEF Covered
<1>8. LogInv'
  BY <1>0, <1>3 DEF LogInv
<1>9. FramesInv'
  <2>1. actor' = [b \in Actors |-> actor'[b]]
    BY <1>3 DEF StoreInv, FramesInv
  <2> QED BY <1>3, <1>4, <1>6, <2>1 DEF FramesInv
<1>10. FoldsInv'
  <2>1. 0 \in 0..made
    BY <1>0
  <2> QED BY <1>3, <1>4, <1>6, <1>7, <2>1 DEF FoldsInv
<1>11. View' \in Objects
  <2>1. View' = Replay(rows, log)
    BY <1>3, <1>4 DEF View
  <2> QED BY <1>0, <1>2, <2>1, ReplayIsThrough
<1> QED BY <1>4, <1>8, <1>9, <1>10, <1>11 DEF StoreInv

-----------------------------------------------------------------------------
(* The theorems. *)

\* Every step keeps the invariant.
LEMMA StoreStep == ASSUME StoreInv, [StoreNext]_vars PROVE StoreInv'
<1>1. CASE UNCHANGED vars
  <2>1. UNCHANGED <<workload, log, versions, actor, made>>
    BY <1>1 DEF vars
  <2>2. Latest' = Latest /\ Base' = Base
    BY <2>1 DEF Latest, Base
  <2> QED BY <2>1, <2>2 DEF StoreInv, LogInv, VersionsInv, FramesInv, FoldsInv
<1>2. CASE Upload
  BY <1>2, UploadStep
<1>3. ASSUME NEW a \in Actors,
             \/ \E e \in Edits : Act(a, e)
             \/ Check(a) \/ CatchUp(a) \/ Recheck(a)
             \/ Commit(a) \/ CommitFails(a) \/ AppendOnly(a)
             \/ StartRebuild(a) \/ PinBase(a) \/ PinEdits(a) \/ Replace(a) \/ RebuildFails(a)
             \/ StartFold(a) \/ FoldBase(a) \/ FoldEdits(a) \/ Publish(a) \/ StaleBase(a) \/ Mark(a)
             \/ Plan(a) \/ Prune(a) \/ ScanBase(a) \/ ScanEdits(a) \/ Abandon(a)
      PROVE  StoreInv'
  BY <1>3, EditSteps, OtherSteps, ReadSteps, AppendStep, PruneStep, MarkStep, PublishStep
<1> QED BY <1>1, <1>2, <1>3 DEF StoreNext

LEMMA StoreInvariant == StoreSpec => []StoreInv
BY StoreStarts, StoreStep, PTL DEF StoreSpec

\* No other step changes the objects.
LEMMA ViewStays ==
    ASSUME StoreInv, UNCHANGED <<log, versions>> PROVE View' = View
BY DEF View, Base, Latest

Uploaded == {v \in DOMAIN versions : versions[v].source = "upload"}

LEMMA UploadedIsFinite == ASSUME VersionsInv PROVE IsFiniteSet(Uploaded) /\ Cardinality(Uploaded) \in Nat
<1>1. DOMAIN versions = 1..Latest /\ Latest \in Nat
  BY DEF VersionsInv
<1>2. IsFiniteSet(1..Latest)
  BY <1>1, FS_Interval
<1>3. Uploaded \subseteq 1..Latest
  BY <1>1 DEF Uploaded
<1> QED BY <1>2, <1>3, FS_Subset, FS_CardinalityType

\* One version more is an upload more, or none.
LEMMA UploadsGrow ==
    ASSUME VersionsInv, NEW rows \in Objects, NEW source, NewVersion(rows, source)
    PROVE  Uploads' = IF source = "upload" THEN Uploads + 1 ELSE Uploads
<1>0. Latest \in Nat /\ DOMAIN versions = 1..Latest
  BY DEF VersionsInv
<1>1. /\ DOMAIN versions' = 1..(Latest + 1) /\ versions'[Latest + 1].source = source
      /\ \A v \in 1..Latest : versions'[v] = versions[v]
  BY NewVersionIs
<1>2. Uploaded' = IF source = "upload" THEN Uploaded \cup {Latest + 1} ELSE Uploaded
  <2>1. \A v : v \in 1..(Latest + 1) <=> v \in 1..Latest \/ v = Latest + 1
    BY <1>0
  <2>2. Latest + 1 \notin 1..Latest
    BY <1>0
  <2>3. Uploaded' = {v \in DOMAIN versions' : versions'[v].source = "upload"}
    BY DEF Uploaded
  <2> QED BY <1>0, <1>1, <2>1, <2>2, <2>3 DEF Uploaded
<1>3. IsFiniteSet(Uploaded) /\ Cardinality(Uploaded) \in Nat /\ Latest + 1 \notin Uploaded
  BY <1>0, UploadedIsFinite DEF Uploaded
<1>4. Cardinality(Uploaded \cup {Latest + 1}) = Cardinality(Uploaded) + 1
  BY <1>3, FS_AddElement
<1>5. Uploads = Cardinality(Uploaded) - 1 /\ Uploads' = Cardinality(Uploaded') - 1
  BY DEF Uploads, Uploaded
<1> QED BY <1>2, <1>3, <1>4, <1>5

\* One edit is an edit of the history.
LEMMA EditIsEdit ==
    ASSUME StoreInv, NEW a \in Actors, Commit(a) \/ AppendOnly(a)
    PROVE  History!Edit
<1>1. PICK x \in EditRows : View' = [View EXCEPT ![x.key] = Edited(@, Unfolded(x), made + 1)]
  BY AppendStep
<1>2. made' = made + 1 /\ UNCHANGED versions
  BY AppendStep
<1>3. UNCHANGED Uploads
  BY <1>2 DEF Uploads
<1>4. PICK k \in Keys, c \in Cols, kind \in Kinds : k = x.key /\ c = x.col /\ kind = x.kind
  BY DEF EditRows
<1>5. Unfolded(x).kind = kind /\ Unfolded(x).col = c
  BY <1>4 DEF Unfolded
<1>6. CASE kind = "create"
  <2>1. \A o : Edited(o, Unfolded(x), made + 1) = [d \in Cols |-> made + 1]
    BY <1>5, <1>6 DEF Edited
  <2>2. History!Create(k, made')
    BY <1>1, <1>2, <1>4, <2>1 DEF History!Create
  <2> QED BY <1>2, <1>3, <2>2 DEF History!Edit
<1>7. CASE kind = "delete"
  <2>1. \A o : Edited(o, Unfolded(x), made + 1) = Gone
    BY <1>5, <1>7 DEF Edited
  <2>2. History!Delete(k)
    BY <1>1, <1>4, <2>1 DEF History!Delete, History!Gone, Gone
  <2> QED BY <1>2, <1>3, <2>2 DEF History!Edit
<1>8. CASE kind = "update"
  <2>1. \A o : Edited(o, Unfolded(x), made + 1) =
                 IF o = Gone THEN Gone ELSE [o EXCEPT ![c] = made + 1]
    BY <1>5, <1>8 DEF Edited
  <2>2. History!Update(k, c, made')
    BY <1>1, <1>2, <1>4, <2>1 DEF History!Update, History!Gone, Gone
  <2> QED BY <1>2, <1>3, <2>2 DEF History!Edit
<1> QED BY <1>4, <1>6, <1>7, <1>8 DEF Kinds

\* Every step is an edit, new rows, or nothing that a reader can see.
LEMMA HistoryStep ==
    ASSUME StoreInv, [StoreNext]_vars
    PROVE  [History!HistoryNext]_<<View, made, Uploads>>
<1>0. VersionsInv
  BY DEF StoreInv
<1>1. CASE Upload
  <2>1. View' \in Objects /\ UNCHANGED made
    BY <1>1, UploadStep DEF Upload
  <2>2. PICK rows : rows = [k \in Keys |-> [c \in Cols |-> -(Latest + 1)]]
    OBVIOUS
  <2>3. rows \in Objects
    <3>1. -(Latest + 1) \in Int
      BY <1>0 DEF VersionsInv
    <3>2. [c \in Cols |-> -(Latest + 1)] \in [Cols -> Int]
      BY <3>1
    <3> QED BY <2>2, <3>2 DEF Objects
  <2>4. NewVersion(rows, "upload")
    BY <1>1, <2>2 DEF Upload
  <2>5. Uploads' = Uploads + 1
    BY <1>0, <2>3, <2>4, UploadsGrow
  <2>6. History!Objects = Objects
    BY DEF History!Objects, Objects, History!Gone, Gone
  <2> QED BY <2>1, <2>5, <2>6 DEF History!HistoryNext, History!NewRows
<1>2. ASSUME NEW a \in Actors, Commit(a) \/ AppendOnly(a) PROVE History!HistoryNext
  BY <1>2, EditIsEdit DEF History!HistoryNext
<1>3. ASSUME NEW a \in Actors, Publish(a) PROVE UNCHANGED <<View, made, Uploads>>
  <2>1. UNCHANGED <<View, made>>
    BY <1>3, PublishStep DEF Publish
  <2>2. PICK rows : rows = actor[a].rows
    OBVIOUS
  <2>3. rows \in Objects
    BY <1>3, <2>2 DEF Publish, StoreInv, FramesInv, FrameOk
  <2>4. NewVersion(rows, "writeback")
    BY <1>3, <2>2 DEF Publish
  <2>5. Uploads' = Uploads
    BY <1>0, <2>3, <2>4, UploadsGrow
  <2> QED BY <2>1, <2>5
<1>4. ASSUME NEW a \in Actors, Mark(a) \/ Prune(a) PROVE UNCHANGED <<View, made, Uploads>>
  <2>1. UNCHANGED <<made, versions>>
    BY <1>4 DEF Mark, Prune
  <2>2. View' = View
    BY <1>4, MarkStep, PruneStep
  <2> QED BY <2>1, <2>2 DEF Uploads
<1>5. ASSUME UNCHANGED <<log, versions, made>> PROVE UNCHANGED <<View, made, Uploads>>
  BY <1>5, ViewStays DEF Uploads
<1>6. CASE UNCHANGED vars
  BY <1>5, <1>6 DEF vars
<1>7. ASSUME NEW a \in Actors,
             \/ \E e \in Edits : Act(a, e)
             \/ Check(a) \/ CatchUp(a) \/ Recheck(a) \/ CommitFails(a)
             \/ StartRebuild(a) \/ PinBase(a) \/ PinEdits(a) \/ Replace(a) \/ RebuildFails(a)
             \/ StartFold(a) \/ FoldBase(a) \/ FoldEdits(a) \/ StaleBase(a)
             \/ Plan(a) \/ ScanBase(a) \/ ScanEdits(a) \/ Abandon(a)
      PROVE  UNCHANGED <<View, made, Uploads>>
  <2>1. UNCHANGED <<log, versions, made>>
    BY <1>7 DEF Act, Check, CatchUp, Recheck, CommitFails, StartRebuild, PinBase, PinEdits,
                Replace, RebuildFails, StartFold, FoldBase, FoldEdits, StaleBase, Plan, ScanBase,
                ScanEdits, Abandon
  <2> QED BY <1>5, <2>1
<1> QED BY <1>1, <1>2, <1>3, <1>4, <1>6, <1>7 DEF StoreNext

LEMMA HistoryStarts == ASSUME StoreInit PROVE History!HistoryInit
<1>1. LogInv /\ VersionsInv
  BY StoreStarts DEF StoreInv
<1>2. View \in Objects /\ made \in Nat
  BY <1>1, ViewIs, BoundsAssumption DEF LogInv
<1>3. Uploads \in Nat
  <2>1. PICK r : versions = [v \in {1} |-> [rows |-> r, source |-> "upload"]]
    BY DEF StoreInit
  <2>2. Uploaded = {1}
    BY <2>1 DEF Uploaded
  <2>3. Cardinality(Uploaded) = 1
    BY <2>2, FS_Singleton
  <2> QED BY <2>3 DEF Uploads, Uploaded
<1>4. History!Objects = Objects
  BY DEF History!Objects, Objects, History!Gone, Gone
<1> QED BY <1>2, <1>3, <1>4 DEF History!HistoryInit

\* Folding and pruning are invisible: the objects that a replay gives change by
\* edits and by new rows only, in any number of threads, whatever dies half-way.
THEOREM StoreImplementsHistory == StoreSpec => ImplementsHistory
<1>1. StoreInit => History!HistoryInit
  BY HistoryStarts
<1>2. StoreInv /\ [StoreNext]_vars => [History!HistoryNext]_<<View, made, Uploads>>
  BY HistoryStep
<1> QED BY <1>1, <1>2, StoreInvariant, PTL
    DEF StoreSpec, ImplementsHistory, History!HistorySpec

\* The edits that a scan misses in the rows it has read, it replays.
LEMMA ScanStep == ASSUME StoreInv PROVE UndisturbedScan
<1> SUFFICES ASSUME NEW a \in Actors, actor[a].pc = "scan", actor[a].view = View,
                    actor[a].live \subseteq Live(log)
             PROVE  Replay(actor[a].rows, log) = View
  BY DEF UndisturbedScan
<1>0. /\ LogInv /\ VersionsInv /\ FrameOk(actor[a], log, made, Latest, Base)
      /\ Typed(log) /\ DOMAIN log \subseteq 1..made /\ made \in 0..MaxEdits /\ made \in Nat
      /\ Base \in Objects
  BY BaseTyped, BoundsAssumption DEF StoreInv, FramesInv, LogInv
<1>1. PICK rows \in Objects : rows = actor[a].rows
  BY <1>0 DEF FrameOk
<1>2. PICK m \in 0..made : View = Through(log, 0, m, rows)
  BY <1>0, <1>1 DEF FrameOk
<1>3. m \in Nat /\ m <= made
  BY <1>0
<1>4. Replay(rows, log) = Through(log, 0, made, rows)
  BY <1>0, ReplayIsThrough
<1>5. Through(log, 0, made, rows) = Through(log, m, made, View)
  BY <1>0, <1>2, <1>3, ThroughComposes
<1>6. View = Through(log, 0, made, Base)
  BY <1>0, ViewIs
<1>7. Through(log, m, made, View) = View
  BY <1>0, <1>3, <1>6, ReplayingAgain
<1> QED BY <1>1, <1>4, <1>5, <1>7

\* A scan that is undisturbed returns the objects there are, though it reads the
\* rows and the edits at different times and folds come and go between the two.
THEOREM ScansAreCorrect == StoreSpec => UndisturbedScansAreCorrect
<1>1. StoreInv /\ [StoreNext]_vars => [UndisturbedScan]_vars
  BY ScanStep
<1> QED BY <1>1, StoreInvariant, PTL DEF StoreSpec, UndisturbedScansAreCorrect

-----------------------------------------------------------------------------
(* The index: what it and those who build it hold. *)

IndexRows == [object : [Cols -> Int] \cup {Gone}, at : Nat]
Indexes == [version : Nat \ {0}, applied : Nat, rows : [Keys -> IndexRows]]

IsEdit(e) == e.kind \in Kinds /\ e.key \in Keys /\ e.col \in Cols

\* What a rebuild and a catching-up have read.
IndexFrame(f, l) ==
    /\ f.pc \in {"pin base", "pin edits", "replace"} => f.version \in 1..l /\ f.applied \in Nat
    /\ f.pc = "pin edits" => f.rows \in Objects
    /\ f.pc = "replace" => f.built \in [Keys -> IndexRows]
    /\ f.pc = "catch up" => \A n \in DOMAIN f.owed : n \in Nat /\ IsEdit(f.owed[n])

IndexTyped ==
    /\ index \in Indexes \cup {NoIndex}
    /\ Built => index.version \in 1..Latest
    /\ \A a \in Actors : IndexFrame(actor[a], Latest)

\* The index that no version has overtaken.
Recent == Built /\ index.version = Latest

LEMMA StoreFacts ==
    ASSUME StoreInv
    PROVE  /\ LogInv /\ VersionsInv
           /\ Latest \in Nat \ {0} /\ Base \in Objects /\ View \in Objects
           /\ View = Through(log, 0, made, Base)
           /\ made \in Nat /\ MaxSeq = made /\ Typed(log) /\ DOMAIN log \subseteq 1..made
           /\ actor = [a \in Actors |-> actor[a]]
           /\ \A a \in Actors : FrameOk(actor[a], log, made, Latest, Base)
<1>1. LogInv /\ VersionsInv
  BY DEF StoreInv
<1>2. made \in Nat
  BY <1>1, BoundsAssumption DEF LogInv
<1> QED BY <1>1, <1>2, ViewIs, BaseTyped, MadeIsMaxSeq DEF StoreInv, LogInv, VersionsInv, FramesInv

LEMMA IndexIs ==
    ASSUME IndexTyped, Built
    PROVE  index \in Indexes
BY DEF IndexTyped, Built

LEMMA IndexesAreBuilt == \A i \in Indexes : i # NoIndex
<1> SUFFICES ASSUME NEW i \in Indexes, i = NoIndex PROVE FALSE
  OBVIOUS
<1>1. i.version # 0
  BY DEF Indexes
<1>2. i.version = 0
  BY DEF NoIndex
<1> QED BY <1>1, <1>2

LEMMA EditedObject ==
    ASSUME NEW e, IsEdit(e), NEW n \in Nat, NEW o \in [Cols -> Int] \cup {Gone}
    PROVE  Edited(o, e, n) \in [Cols -> Int] \cup {Gone}
<1>1. Unfolded(e) \in LogRows
  BY DEF IsEdit, Unfolded, LogRows
<1>2. Edited(o, Unfolded(e), n) = Edited(o, e, n)
  <2>1. Unfolded(e).kind = e.kind /\ Unfolded(e).col = e.col
    BY DEF Unfolded
  <2> QED BY <2>1 DEF Edited
<1> QED BY <1>1, <1>2, EditedTyped

\* What _apply_index_delta does to the row of the edit.
LEMMA DeltaTyped ==
    ASSUME NEW row \in IndexRows, NEW e, IsEdit(e), NEW n \in Nat
    PROVE  Delta(row, e, n) \in IndexRows
<1>1. row.object \in [Cols -> Int] \cup {Gone} /\ row.at \in Nat
  BY DEF IndexRows
<1>2. Edited(row.object, e, n) \in [Cols -> Int] \cup {Gone}
  BY <1>1, EditedObject
<1>3. \A o \in [Cols -> Int] \cup {Gone} : [object |-> o, at |-> n] \in IndexRows
  BY DEF IndexRows
<1>4. [object |-> Gone, at |-> 0] \in IndexRows
  BY DEF IndexRows
<1> QED BY <1>2, <1>3, <1>4 DEF Delta

LEMMA AppliedIs ==
    ASSUME IndexTyped, Built, NEW e, IsEdit(e), NEW n \in Nat
    PROVE  /\ Applied(e, n) \in Indexes
           /\ Applied(e, n).version = index.version
           /\ Applied(e, n).applied = IF n > index.applied THEN n ELSE index.applied
           /\ \A k \in Keys : Applied(e, n).rows[k] =
                 IF k = e.key THEN Delta(index.rows[k], e, n) ELSE index.rows[k]
<1>1. index \in Indexes /\ index.rows \in [Keys -> IndexRows] /\ index.applied \in Nat
      /\ index.version \in Nat \ {0} /\ e.key \in Keys
  BY IndexIs DEF Indexes, IsEdit
<1>2. Delta(index.rows[e.key], e, n) \in IndexRows
  BY <1>1, DeltaTyped
<1>3. [index.rows EXCEPT ![e.key] = Delta(@, e, n)] \in [Keys -> IndexRows]
  BY <1>1, <1>2
<1> QED BY <1>1, <1>3 DEF Applied, Indexes

\* The position of a row is that of an edit.
LEMMA LastEditIs ==
    ASSUME LogInv, NEW k \in Keys
    PROVE  LastEdit(k) \in Nat /\ LastEdit(k) <= made
<1> DEFINE seqs == {n \in Live(log) : log[n].key = k}
<1>1. seqs \subseteq 1..made /\ made \in Nat
  BY BoundsAssumption DEF LogInv, Live
<1>2. CASE seqs = {}
  BY <1>1, <1>2 DEF LastEdit
<1>3. CASE seqs # {}
  <2>1. seqs \subseteq 0..made
    BY <1>1
  <2>2. \E n \in seqs : \A m \in seqs : m <= n
    BY <1>1, <1>3, <2>1, GreatestMember
  <2>3. LastEdit(k) \in seqs
    BY <1>3, <2>2 DEF LastEdit
  <2> QED BY <1>1, <2>3
<1> QED BY <1>2, <1>3

LEMMA MaterializedIs ==
    ASSUME StoreInv, NEW rows \in Objects
    PROVE  /\ Materialized(rows) \in [Keys -> IndexRows]
           /\ \A k \in Keys : /\ Materialized(rows)[k].object = Replay(rows, log)[k]
                              /\ Materialized(rows)[k].at <= made
<1>1. PICK o \in Objects : o = Replay(rows, log)
  BY StoreFacts, ReplayIsThrough, BoundsAssumption DEF LogInv
<1>2. Materialized(rows) = [k \in Keys |-> [object |-> o[k], at |-> IF o[k] = Gone THEN 0 ELSE LastEdit(k)]]
  BY <1>1 DEF Materialized
<1>3. \A k \in Keys : o[k] \in [Cols -> Int] \cup {Gone}
  BY <1>1 DEF Objects
<1>4. \A k \in Keys : LastEdit(k) \in Nat /\ LastEdit(k) <= made /\ made \in Nat
  BY StoreFacts, LastEditIs
<1>5. \A k \in Keys : [object |-> o[k], at |-> IF o[k] = Gone THEN 0 ELSE LastEdit(k)] \in IndexRows
  BY <1>3, <1>4 DEF IndexRows
<1> QED BY <1>1, <1>2, <1>4, <1>5

-----------------------------------------------------------------------------
(* What a step is, to the versions and the objects. *)

LEMMA VersionStep ==
    ASSUME StoreInv, (\E a \in Actors : Publish(a)) \/ Upload
    PROVE  Latest' = Latest + 1 /\ UNCHANGED <<workload, log, index, made>>
<1>0. VersionsInv /\ Latest \in Nat
  BY StoreFacts
<1>1. CASE Upload
  <2>1. PICK rows : rows = [k \in Keys |-> [c \in Cols |-> -(Latest + 1)]]
    OBVIOUS
  <2>2. rows \in Objects
    <3>1. -(Latest + 1) \in Int
      BY <1>0
    <3>2. [c \in Cols |-> -(Latest + 1)] \in [Cols -> Int]
      BY <3>1
    <3> QED BY <2>1, <3>2 DEF Objects
  <2>3. NewVersion(rows, "upload") /\ UNCHANGED <<workload, log, index, made>>
    BY <1>1, <2>1 DEF Upload
  <2> QED BY <1>0, <2>2, <2>3, NewVersionIs
<1>2. ASSUME NEW a \in Actors, Publish(a)
      PROVE  Latest' = Latest + 1 /\ UNCHANGED <<workload, log, index, made>>
  <2>1. PICK rows : rows = actor[a].rows
    OBVIOUS
  <2>2. rows \in Objects
    BY <1>2, <2>1, StoreFacts DEF Publish, FrameOk
  <2>3. NewVersion(rows, "writeback") /\ UNCHANGED <<workload, log, index, made>>
    BY <1>2, <2>1 DEF Publish
  <2> QED BY <1>0, <2>2, <2>3, NewVersionIs
<1> QED BY <1>1, <1>2

\* The steps that change neither the versions nor the log.
Reads(a) ==
    \/ \E e \in Edits : Act(a, e)
    \/ Check(a) \/ CatchUp(a) \/ Recheck(a) \/ CommitFails(a)
    \/ StartRebuild(a) \/ PinBase(a) \/ PinEdits(a) \/ Replace(a) \/ RebuildFails(a)
    \/ StartFold(a) \/ FoldBase(a) \/ FoldEdits(a) \/ StaleBase(a)
    \/ Plan(a) \/ ScanBase(a) \/ ScanEdits(a) \/ Abandon(a)

LEMMA StepIs ==
    ASSUME StoreNext
    PROVE  \/ Upload
           \/ \E a \in Actors : Publish(a)
           \/ \E a \in Actors : Commit(a) \/ AppendOnly(a)
           \/ \E a \in Actors : Mark(a) \/ Prune(a)
           \/ \E a \in Actors : Reads(a)
BY DEF StoreNext, Reads

LEMMA VersionsKept ==
    ASSUME NEW a \in Actors, Reads(a) \/ Mark(a) \/ Prune(a) \/ Commit(a) \/ AppendOnly(a)
    PROVE  Latest' = Latest /\ Base' = Base /\ UNCHANGED <<workload, versions>>
<1>1. UNCHANGED <<workload, versions>>
  BY DEF Reads, Act, Check, CatchUp, Recheck, CommitFails, StartRebuild, PinBase, PinEdits,
         Replace, RebuildFails, StartFold, FoldBase, FoldEdits, StaleBase, Plan, ScanBase,
         ScanEdits, Abandon, Mark, Prune, Commit, AppendOnly
<1> QED BY <1>1 DEF Latest, Base

\* But for an edit, none changes the objects of the newest version.
LEMMA ObjectsKept ==
    ASSUME StoreInv, NEW a \in Actors, Reads(a) \/ Mark(a) \/ Prune(a)
    PROVE  View' = View /\ UNCHANGED made
<1>1. CASE Reads(a)
  <2>1. UNCHANGED <<log, versions, made>>
    BY <1>1 DEF Reads, Act, Check, CatchUp, Recheck, CommitFails, StartRebuild, PinBase, PinEdits,
         Replace, RebuildFails, StartFold, FoldBase, FoldEdits, StaleBase, Plan, ScanBase,
         ScanEdits, Abandon
  <2> QED BY <2>1, ViewStays
<1>2. CASE Mark(a)
  BY <1>2, MarkStep DEF Mark
<1>3. CASE Prune(a)
  BY <1>3, PruneStep DEF Prune
<1> QED BY <1>1, <1>2, <1>3

LEMMA FoundLevel ==
    ASSUME StoreInit
    PROVE  \/ workload.start = "unbuilt" /\ index = NoIndex
           \/ /\ workload.start # "unbuilt"
              /\ index \in Indexes /\ index.version = 1 /\ index.applied = 0 /\ Latest = 1
              /\ \A k \in Keys : index.rows[k].object = Base[k] /\ index.rows[k].at = 0
<1>1. CASE workload.start = "unbuilt"
  BY <1>1 DEF StoreInit
<1>2. CASE workload.start # "unbuilt"
  <2>1. PICK o \in {Gone, [c \in Cols |-> -1]} :
           versions = [v \in {1} |-> [rows |-> [k \in Keys |-> o], source |-> "upload"]]
    BY DEF StoreInit
  <2>2. DOMAIN versions = {1} /\ versions[1].rows = [k \in Keys |-> o]
    BY <2>1
  <2>3. Latest = 1
    BY <2>2, FS_Singleton DEF Latest
  <2>4. Base = [k \in Keys |-> o] /\ o \in [Cols -> Int] \cup {Gone}
    BY <2>2, <2>3 DEF Base
  <2>5. index = [version |-> 1, applied |-> 0,
                 rows |-> [k \in Keys |-> [object |-> versions[1].rows[k], at |-> 0]]]
    BY <1>2 DEF StoreInit
  <2>6. [k \in Keys |-> [object |-> versions[1].rows[k], at |-> 0]] =
           [k \in Keys |-> [object |-> o, at |-> 0]]
    BY <2>2
  <2>7. index = [version |-> 1, applied |-> 0, rows |-> [k \in Keys |-> [object |-> o, at |-> 0]]]
    BY <2>5, <2>6
  <2>8. [k \in Keys |-> [object |-> o, at |-> 0]] \in [Keys -> IndexRows]
    BY <2>4 DEF IndexRows
  <2>9. index \in Indexes
    BY <2>7, <2>8 DEF Indexes
  <2> QED BY <1>2, <2>3, <2>4, <2>7, <2>9
<1> QED BY <1>1, <1>2

LEMMA IndexStarts == ASSUME StoreInit PROVE IndexTyped
<1>1. actor = [a \in Actors |-> Idle]
  BY DEF StoreInit
<1>2. \A a \in Actors : IndexFrame(actor[a], Latest)
  BY <1>1 DEF IndexFrame, Idle
<1> QED BY <1>2, FoundLevel DEF IndexTyped, Built

LEMMA TypedStep ==
    ASSUME IndexTyped, StoreInv, NEW a \in Actors, NEW f, actor' = [actor EXCEPT ![a] = f],
           Latest' \in {Latest, Latest + 1}, IndexFrame(f, Latest'),
           index' \in Indexes \cup {NoIndex}, index' # NoIndex => index'.version \in 1..Latest'
    PROVE  IndexTyped'
<1>1. \A b \in Actors : actor'[b] = IF b = a THEN f ELSE actor[b]
  BY StoreFacts
<1>2. \A v : v \in 1..Latest => v \in 1..Latest'
  BY StoreFacts
<1>3. \A b \in Actors : IndexFrame(actor[b], Latest')
  BY <1>2 DEF IndexTyped, IndexFrame
<1>4. \A b \in Actors : IndexFrame(actor'[b], Latest')
  BY <1>1, <1>3
<1> QED BY <1>4 DEF IndexTyped, Built

\* Where a step is on the way to, apart from the index.
LEMMA Plain ==
    ASSUME NEW f, f.pc \notin {"pin base", "pin edits", "replace", "catch up"}, NEW l
    PROVE  IndexFrame(f, l)
BY DEF IndexFrame

\* The steps of those that neither edit nor build the index.
Elsewhere(a) ==
    \/ StartFold(a) \/ FoldBase(a) \/ FoldEdits(a) \/ StaleBase(a) \/ Plan(a)
    \/ ScanBase(a) \/ ScanEdits(a) \/ Abandon(a)

ElsewherePc(f) == f.pc \in {"fold base", "fold edits", "publish", "idle", "prune", "scan"}

LEMMA ElsewhereIs ==
    ASSUME NEW a, Elsewhere(a)
    PROVE  UNCHANGED index /\ \E f : actor' = [actor EXCEPT ![a] = f] /\ ElsewherePc(f)
<1> DEFINE A(f) == actor' = [actor EXCEPT ![a] = f]
<1>1. StartFold(a) => \E f : A(f) /\ ElsewherePc(f)
  <2>1. ElsewherePc([pc |-> "fold base", version |-> Latest, ids |-> Live(log)])
    BY DEF ElsewherePc
  <2> QED BY <2>1 DEF StartFold, Step
<1>2. FoldBase(a) => \E f : A(f) /\ ElsewherePc(f)
  <2>1. ElsewherePc([pc |-> "fold edits", version |-> actor[a].version, ids |-> actor[a].ids, rows |-> Base])
    BY DEF ElsewherePc
  <2> QED BY <2>1 DEF FoldBase, Step
<1>3. FoldEdits(a) => \E f : A(f) /\ ElsewherePc(f)
  <2>1. ElsewherePc([pc |-> "publish", version |-> actor[a].version, ids |-> actor[a].ids,
                     rows |-> Replay(actor[a].rows, log)])
    BY DEF ElsewherePc
  <2> QED BY <2>1 DEF FoldEdits, Step
<1>4. Plan(a) => \E f : A(f) /\ ElsewherePc(f)
  <2>1. ElsewherePc([pc |-> "prune", ids |-> Prunable])
    BY DEF ElsewherePc
  <2> QED BY <2>1 DEF Plan, Step
<1>5. ScanBase(a) => \E f : A(f) /\ ElsewherePc(f)
  <2>1. ElsewherePc([pc |-> "scan", rows |-> ScanRows, view |-> View, live |-> Live(log)])
    BY DEF ElsewherePc
  <2> QED BY <2>1 DEF ScanBase, Step
<1>6. StaleBase(a) \/ ScanEdits(a) \/ Abandon(a) => \E f : A(f) /\ ElsewherePc(f)
  <2>1. ElsewherePc(Idle)
    BY DEF ElsewherePc, Idle
  <2> QED BY <2>1 DEF StaleBase, ScanEdits, Abandon, Step
<1>7. UNCHANGED index
  BY DEF Elsewhere, StartFold, FoldBase, FoldEdits, StaleBase, Plan, ScanBase, ScanEdits, Abandon
<1> HIDE DEF A
<1>8. \E f : A(f) /\ ElsewherePc(f)
  BY <1>1, <1>2, <1>3, <1>4, <1>5, <1>6 DEF Elsewhere
<1> QED BY <1>7, <1>8 DEF A

LEMMA RebuildPc == Idle.pc = "idle" /\ Rebuild.pc = "pin base" /\ Rebuild.applied = MaxSeq
<1>1. Idle.pc = "idle"
  BY DEF Idle
<1>2. Rebuild.pc = "pin base" /\ Rebuild.applied = MaxSeq
  BY DEF Rebuild
<1> QED BY <1>1, <1>2

LEMMA RebuildTyped ==
    ASSUME Latest \in Nat \ {0}, MaxSeq \in Nat
    PROVE  IndexFrame(Rebuild, Latest)
<1>1. ASSUME NEW l \in Nat \ {0}, NEW n \in Nat, NEW f, f = [pc |-> "pin base", version |-> l, applied |-> n]
      PROVE  IndexFrame(f, l)
  <2>1. f.version = l /\ f.applied = n /\ f.pc = "pin base"
    BY <1>1
  <2>2. l \in 1..l
    OBVIOUS
  <2> QED BY <2>1, <2>2 DEF IndexFrame
<1> QED BY <1>1 DEF Rebuild

LEMMA IndexReads ==
    ASSUME IndexTyped, StoreInv, NEW a \in Actors, Reads(a)
    PROVE  IndexTyped'
<1>0. /\ Latest' = Latest /\ Latest \in Nat \ {0} /\ made \in Nat /\ MaxSeq = made /\ Typed(log)
      /\ Base \in Objects /\ IndexFrame(actor[a], Latest)
      /\ FrameOk(actor[a], log, made, Latest, Base)
  BY StoreFacts, VersionsKept DEF IndexTyped
<1>1. ASSUME NEW f, actor' = [actor EXCEPT ![a] = f], UNCHANGED index, IndexFrame(f, Latest)
      PROVE  IndexTyped'
  BY <1>0, <1>1, TypedStep DEF IndexTyped, Built
<1>2. ASSUME NEW e \in Edits, Act(a, e) PROVE IndexTyped'
  <2>1. IndexFrame([pc |-> "check", edit |-> e], Latest)
    BY Plain
  <2> QED BY <1>1, <1>2, <2>1 DEF Act, Step
<1>3. ASSUME Check(a) PROVE IndexTyped'
  <2>1. \A e : IndexFrame([pc |-> "append", edit |-> e], Latest) /\ IndexFrame([pc |-> "commit", edit |-> e], Latest)
    BY Plain
  <2>2. \A n \in DOMAIN Owed : n \in Nat /\ IsEdit(Owed[n])
    <3>1. \A n \in Live(log) : n \in Nat /\ IsEdit(log[n])
      BY <1>0 DEF Live, Typed, LogRows, IsEdit
    <3> QED BY <3>1 DEF Owed, Pending
  <2>3. IndexFrame([pc |-> "catch up", edit |-> actor[a].edit, owed |-> Owed], Latest)
    BY <2>2 DEF IndexFrame
  <2> QED BY <1>1, <1>3, <2>1, <2>3 DEF Check, Step
<1>4. ASSUME CatchUp(a) PROVE IndexTyped'
  <2>1. PICK owed : owed = actor[a].owed
    OBVIOUS
  <2>2. \A n \in DOMAIN owed : n \in Nat /\ IsEdit(owed[n])
    BY <1>0, <1>4, <2>1 DEF CatchUp, IndexFrame
  <2>3. First(DOMAIN owed) \in DOMAIN owed
    BY <1>4, <2>1, <2>2, LeastMember DEF CatchUp, First
  <2>4. \E seqs \in {DOMAIN owed \ {First(DOMAIN owed)}, {}} :
            actor' = [actor EXCEPT ![a] = [pc |-> "catch up", edit |-> actor[a].edit,
                                           owed |-> [m \in seqs |-> owed[m]]]]
    BY <1>4, <2>1, Zenon DEF CatchUp, Step
  <2>41. PICK seqs \in SUBSET DOMAIN owed :
            actor' = [actor EXCEPT ![a] = [pc |-> "catch up", edit |-> actor[a].edit,
                                           owed |-> [m \in seqs |-> owed[m]]]]
    BY <2>4
  <2>5. IndexFrame([pc |-> "catch up", edit |-> actor[a].edit,
                    owed |-> [m \in seqs |-> owed[m]]], Latest)
    BY <2>2 DEF IndexFrame
  <2>6. CASE UNCHANGED index
    BY <1>1, <2>41, <2>5, <2>6
  <2>7. CASE Built /\ index' = Applied(owed[First(DOMAIN owed)], First(DOMAIN owed))
    <3>1. IsEdit(owed[First(DOMAIN owed)]) /\ First(DOMAIN owed) \in Nat
      BY <2>2, <2>3
    <3>2. index' \in Indexes /\ index'.version = index.version
      BY <2>7, <3>1, AppliedIs
    <3>3. index.version \in 1..Latest
      BY <2>7 DEF IndexTyped
    <3> QED BY <1>0, <2>41, <2>5, <3>2, <3>3, TypedStep
  <2> QED BY <1>4, <2>1, <2>6, <2>7 DEF CatchUp
<1>5. ASSUME Recheck(a) PROVE IndexTyped'
  <2>1. \A e : IndexFrame([pc |-> "append", edit |-> e], Latest) /\ IndexFrame([pc |-> "commit", edit |-> e], Latest)
    BY Plain
  <2>2. IndexFrame([pc |-> IF Current THEN "commit" ELSE "append", edit |-> actor[a].edit], Latest)
    BY <2>1
  <2> QED BY <1>1, <1>5, <2>2 DEF Recheck, Step
<1>6. ASSUME CommitFails(a) PROVE IndexTyped'
  <2>1. PICK x \in EditRows : actor[a] = [pc |-> "commit", edit |-> x]
    BY <1>0, <1>6 DEF CommitFails, FrameOk
  <2>2. [actor[a] EXCEPT !.pc = "append"] = [pc |-> "append", edit |-> x]
    BY <2>1
  <2>3. actor' = [actor EXCEPT ![a] = [pc |-> "append", edit |-> x]] /\ UNCHANGED index
    BY <1>6, <2>2 DEF CommitFails, Goto
  <2>4. IndexFrame([pc |-> "append", edit |-> x], Latest)
    BY Plain
  <2> QED BY <1>1, <2>3, <2>4
<1>7. ASSUME StartRebuild(a) PROVE IndexTyped'
  <2>1. IndexFrame(Rebuild, Latest)
    BY <1>0, RebuildTyped
  <2> QED BY <1>1, <1>7, <2>1 DEF StartRebuild, Step
<1>8. ASSUME PinBase(a) PROVE IndexTyped'
  <2>1. IndexFrame([pc |-> "pin edits", version |-> actor[a].version,
                    applied |-> actor[a].applied, rows |-> Base], Latest)
    BY <1>0, <1>8 DEF IndexFrame, PinBase
  <2> QED BY <1>1, <1>8, <2>1 DEF PinBase, Step
<1>9. ASSUME PinEdits(a) PROVE IndexTyped'
  <2>1. actor[a].rows \in Objects
    BY <1>0, <1>9 DEF IndexFrame, PinEdits
  <2>2. Materialized(actor[a].rows) \in [Keys -> IndexRows]
    BY <2>1, MaterializedIs
  <2>3. IndexFrame([pc |-> "replace", version |-> actor[a].version,
                    applied |-> actor[a].applied, built |-> Materialized(actor[a].rows)], Latest)
    BY <1>0, <1>9, <2>2 DEF IndexFrame, PinEdits
  <2> QED BY <1>1, <1>9, <2>3 DEF PinEdits, Step
<1>10. ASSUME Replace(a) PROVE IndexTyped'
  <2>1. actor[a].version \in 1..Latest /\ actor[a].applied \in Nat /\ actor[a].built \in [Keys -> IndexRows]
    BY <1>0, <1>10 DEF IndexFrame, Replace
  <2>2. index' = [version |-> actor[a].version, applied |-> actor[a].applied, rows |-> actor[a].built]
    BY <1>10 DEF Replace, Label
  <2>3. index' \in Indexes /\ index'.version \in 1..Latest
    BY <1>0, <2>1, <2>2 DEF Indexes
  <2>4. IndexFrame(Idle, Latest)
    BY Plain DEF Idle
  <2>5. actor' = [actor EXCEPT ![a] = Idle]
    BY <1>10 DEF Replace, Step
  <2> QED BY <1>0, <2>3, <2>4, <2>5, TypedStep
<1>11. ASSUME RebuildFails(a) PROVE IndexTyped'
  <2>1. IndexFrame(Idle, Latest)
    BY Plain DEF Idle
  <2>2. actor' = [actor EXCEPT ![a] = Idle] /\ index' = NoIndex
    BY <1>11 DEF RebuildFails, Step
  <2> QED BY <1>0, <2>1, <2>2, TypedStep
<1>12. ASSUME Elsewhere(a) PROVE IndexTyped'
  <2>1. PICK f : actor' = [actor EXCEPT ![a] = f] /\ ElsewherePc(f)
    BY <1>12, ElsewhereIs
  <2>2. UNCHANGED index
    BY <1>12, ElsewhereIs
  <2>3. IndexFrame(f, Latest)
    BY <2>1, Plain DEF ElsewherePc
  <2> QED BY <1>1, <2>1, <2>2, <2>3
<1> QED BY <1>2, <1>3, <1>4, <1>5, <1>6, <1>7, <1>8, <1>9, <1>10, <1>11, <1>12 DEF Reads, Elsewhere

LEMMA IndexStep == ASSUME IndexTyped, StoreInv, [StoreNext]_vars PROVE IndexTyped'
<1>0. Latest \in Nat \ {0} /\ made \in Nat /\ MaxSeq = made
  BY StoreFacts
<1>1. CASE UNCHANGED vars
  <2>1. UNCHANGED <<index, actor, versions>>
    BY <1>1 DEF vars
  <2>2. Latest' = Latest
    BY <2>1 DEF Latest
  <2> QED BY <2>1, <2>2 DEF IndexTyped, Built
<1>2. CASE Upload
  <2>1. Latest' = Latest + 1 /\ UNCHANGED <<index, actor>>
    BY <1>2, VersionStep DEF Upload
  <2>2. \A v : v \in 1..Latest => v \in 1..Latest'
    BY <1>0, <2>1
  <2> QED BY <2>1, <2>2 DEF IndexTyped, IndexFrame, Built
<1>3. ASSUME NEW a \in Actors, Publish(a) PROVE IndexTyped'
  <2> DEFINE f == [pc |-> "mark", version |-> Latest + 1, ids |-> actor[a].ids]
  <2>1. Latest' = Latest + 1 /\ UNCHANGED index
    BY <1>3, VersionStep
  <2>2. actor' = [actor EXCEPT ![a] = f] /\ IndexFrame(f, Latest')
    BY <1>3, Plain DEF Publish, Step
  <2>3. \A v : v \in 1..Latest => v \in 1..Latest'
    BY <1>0, <2>1
  <2> HIDE DEF f
  <2> QED BY <2>1, <2>2, <2>3, TypedStep DEF IndexTyped, Built
<1>4. ASSUME NEW a \in Actors, Commit(a) PROVE IndexTyped'
  <2>1. PICK x \in EditRows : actor[a] = [pc |-> "commit", edit |-> x]
    BY <1>4, StoreFacts DEF Commit, FrameOk
  <2>2. IsEdit(x) /\ made + 1 \in Nat
    BY <1>0 DEF EditRows, IsEdit
  <2>3. Built /\ index' = Applied(x, made + 1)
    BY <1>0, <1>4, <2>1 DEF Commit
  <2>4. index' \in Indexes /\ index'.version = index.version
    BY <2>2, <2>3, AppliedIs
  <2>5. actor' = [actor EXCEPT ![a] = Idle] /\ IndexFrame(Idle, Latest)
    BY <1>4, Plain DEF Commit, Step, Idle
  <2>6. Latest' = Latest /\ index.version \in 1..Latest
    BY <1>4, <2>3, VersionsKept DEF IndexTyped
  <2> QED BY <2>4, <2>5, <2>6, TypedStep
<1>5. ASSUME NEW a \in Actors, AppendOnly(a) \/ Mark(a) \/ Prune(a) PROVE IndexTyped'
  <2>1. Latest' = Latest /\ UNCHANGED index
    BY <1>5, VersionsKept DEF AppendOnly, Mark, Prune
  <2>2. IndexFrame(Idle, Latest)
    BY Plain DEF Idle
  <2>3. IndexFrame(Rebuild, Latest)
    BY <1>0, RebuildTyped
  <2>4. PICK f \in {Idle, Rebuild} : actor' = [actor EXCEPT ![a] = f]
    BY <1>5 DEF AppendOnly, Mark, Prune, Step
  <2> QED BY <2>1, <2>2, <2>3, <2>4, TypedStep DEF IndexTyped, Built
<1> QED BY <1>1, <1>2, <1>3, <1>4, <1>5, IndexReads, StepIs

-----------------------------------------------------------------------------
(* Where nobody edits. *)

IndexHas(o) == \A k \in Keys : index.rows[k].object = o[k]

\* The rows and the objects that a rebuild has read of the newest version.
ReadFrame(f, l, b, o) ==
    /\ f.pc = "pin edits" /\ f.version = l => f.rows = b
    /\ f.pc = "replace" /\ f.version = l => \A k \in Keys : f.built[k].object = o[k]

EditPc(f) == f.pc \in {"check", "catch up", "commit", "append"}

NoEditInv ==
    /\ "edit" \notin workload.ops
    /\ Recent /\ index.applied >= made => IndexHas(View)
    /\ \A a \in Actors : ~EditPc(actor[a]) /\ ReadFrame(actor[a], Latest, Base, View)

LEMMA HasIsHonest ==
    ASSUME StoreInv, IndexTyped, Recent /\ index.applied >= made => IndexHas(View)
    PROVE  IndexIsHonest
<1> SUFFICES ASSUME Current PROVE IndexObjects = View
  BY DEF IndexIsHonest
<1>1. IndexHas(View)
  BY StoreFacts DEF Current, Recent
<1>2. View = [k \in Keys |-> View[k]]
  BY StoreFacts DEF Objects
<1> QED BY <1>1, <1>2 DEF IndexObjects, IndexHas

LEMMA NoEditStarts ==
    ASSUME StoreInit, StoreInv, "edit" \notin workload.ops
    PROVE  NoEditInv
<1>1. actor = [a \in Actors |-> Idle]
  BY DEF StoreInit
<1>2. \A a \in Actors : ~EditPc(actor[a]) /\ ReadFrame(actor[a], Latest, Base, View)
  BY <1>1 DEF EditPc, ReadFrame, Idle
<1>3. ASSUME Recent, index.applied >= made PROVE IndexHas(View)
  <2>1. index.applied = 0 /\ IndexHas(Base)
    BY <1>3, FoundLevel DEF Recent, Built, IndexHas
  <2>2. made = 0
    BY <1>3, <2>1, StoreFacts
  <2>3. View = Base
    <3>1. Base \in Objects /\ View = Through(log, 0, 0, Base)
      BY <2>2, StoreFacts
    <3> QED BY <3>1, StoreFacts, ThroughIs
  <2> QED BY <2>1, <2>3
<1> QED BY <1>2, <1>3 DEF NoEditInv

\* A step that leaves the objects as they are.
LEMMA NoEditKept ==
    ASSUME NoEditInv, StoreInv, NEW a \in Actors, NEW f, actor' = [actor EXCEPT ![a] = f],
           UNCHANGED <<workload, made>>, Latest' = Latest, Base' = Base, View' = View,
           ~EditPc(f), ReadFrame(f, Latest, Base, View),
           UNCHANGED index \/ (Recent' => IndexHas(View)')
    PROVE  NoEditInv'
<1>1. \A b \in Actors : actor'[b] = IF b = a THEN f ELSE actor[b]
  BY StoreFacts
<1>2. \A b \in Actors : ~EditPc(actor'[b]) /\ ReadFrame(actor'[b], Latest, Base, View)
  BY <1>1 DEF NoEditInv
<1>3. Recent' /\ index'.applied >= made' => IndexHas(View)'
  <2>1. CASE UNCHANGED index
    <3>1. Recent' => Recent
      BY <2>1 DEF Recent, Built
    <3>2. IndexHas(View) => IndexHas(View)'
      BY <2>1 DEF IndexHas
    <3> QED BY <2>1, <3>1, <3>2 DEF NoEditInv
  <2> QED BY <2>1
<1> QED BY <1>2, <1>3 DEF NoEditInv

\* A new version: the index is not of it, and neither is what anyone read.
LEMMA NoEditOvertaken ==
    ASSUME NoEditInv, StoreInv, IndexTyped, (\E a \in Actors : Publish(a)) \/ Upload
    PROVE  NoEditInv'
<1>1. Latest' = Latest + 1 /\ UNCHANGED <<workload, log, index, made>> /\ Latest \in Nat
  BY VersionStep, StoreFacts
<1>2. ~Recent'
  BY <1>1 DEF Recent, IndexTyped, Built
<1>3. \A b \in Actors : \/ actor'[b] = actor[b]
                        \/ actor'[b].pc = "mark"
  <2>1. CASE Upload
    BY <2>1 DEF Upload
  <2>2. ASSUME NEW a \in Actors, Publish(a)
        PROVE  \A b \in Actors : actor'[b] = actor[b] \/ actor'[b].pc = "mark"
    <3>1. actor' = [actor EXCEPT ![a] = [pc |-> "mark", version |-> Latest + 1, ids |-> actor[a].ids]]
      BY <2>2 DEF Publish, Step
    <3> QED BY <3>1, StoreFacts
  <2> QED BY <2>1, <2>2
<1>4. \A b \in Actors : ~EditPc(actor'[b])
  BY <1>3 DEF NoEditInv, EditPc
<1>5. \A b \in Actors : \A base, o : ReadFrame(actor'[b], Latest', base, o)
  <2> TAKE b \in Actors
  <2>1. CASE actor'[b].pc = "mark"
    BY <2>1 DEF ReadFrame
  <2>2. CASE actor'[b] = actor[b]
    <3>1. IndexFrame(actor[b], Latest)
      BY DEF IndexTyped
    <3>2. actor[b].pc \in {"pin edits", "replace"} => actor[b].version \in 1..Latest
      BY <3>1 DEF IndexFrame
    <3>3. \A v \in 1..Latest : v # Latest'
      BY <1>1
    <3> QED BY <2>2, <3>2, <3>3 DEF ReadFrame
  <2> QED BY <1>3, <2>1, <2>2
<1> QED BY <1>1, <1>2, <1>4, <1>5 DEF NoEditInv

\* What the rebuilds read while nothing is edited.
LEMMA RebuildReads ==
    ASSUME StoreInv, IndexTyped, NEW a \in Actors, ReadFrame(actor[a], Latest, Base, View),
           StartRebuild(a) \/ PinBase(a) \/ PinEdits(a)
    PROVE  /\ UNCHANGED index
           /\ \E f : /\ actor' = [actor EXCEPT ![a] = f] /\ ReadFrame(f, Latest, Base, View)
                     /\ f.pc \in {"pin base", "pin edits", "replace"}
                     /\ f.applied = IF StartRebuild(a) THEN made ELSE actor[a].applied
                     /\ f.pc = "replace" => \A k \in Keys : f.built[k].at <= made
<1>0. MaxSeq = made
  BY StoreFacts
<1>1. CASE StartRebuild(a)
  <2>1. actor' = [actor EXCEPT ![a] = Rebuild] /\ UNCHANGED index
    BY <1>1 DEF StartRebuild, Step
  <2>2. Rebuild.pc = "pin base" /\ Rebuild.applied = made
    BY <1>0 DEF Rebuild
  <2>3. ReadFrame(Rebuild, Latest, Base, View)
    BY <2>2 DEF ReadFrame
  <2> QED BY <1>1, <2>1, <2>2, <2>3
<1>2. CASE PinBase(a) /\ ~StartRebuild(a)
  <2> DEFINE f == [pc |-> "pin edits", version |-> actor[a].version,
                   applied |-> actor[a].applied, rows |-> Base]
  <2>1. actor' = [actor EXCEPT ![a] = f] /\ UNCHANGED index
    BY <1>2 DEF PinBase, Step
  <2>2. f.pc = "pin edits" /\ f.applied = actor[a].applied /\ f.rows = Base
    OBVIOUS
  <2> HIDE DEF f
  <2>3. ReadFrame(f, Latest, Base, View)
    BY <2>2 DEF ReadFrame
  <2> QED BY <1>2, <2>1, <2>2, <2>3
<1>3. CASE PinEdits(a) /\ ~StartRebuild(a)
  <2> DEFINE f == [pc |-> "replace", version |-> actor[a].version,
                   applied |-> actor[a].applied, built |-> Materialized(actor[a].rows)]
  <2>1. actor' = [actor EXCEPT ![a] = f] /\ UNCHANGED index /\ actor[a].pc = "pin edits"
    BY <1>3 DEF PinEdits, Step
  <2>2. /\ f.pc = "replace" /\ f.applied = actor[a].applied /\ f.version = actor[a].version
        /\ f.built = Materialized(actor[a].rows)
    OBVIOUS
  <2> HIDE DEF f
  <2>3. actor[a].rows \in Objects
    BY <2>1 DEF IndexTyped, IndexFrame
  <2>4. \A k \in Keys : f.built[k].object = Replay(actor[a].rows, log)[k] /\ f.built[k].at <= made
    BY <2>2, <2>3, MaterializedIs
  <2>5. f.version = Latest => Replay(actor[a].rows, log) = View
    BY <2>1, <2>2 DEF ReadFrame, View
  <2>6. ReadFrame(f, Latest, Base, View)
    BY <2>2, <2>4, <2>5 DEF ReadFrame
  <2> QED BY <1>3, <2>1, <2>2, <2>4, <2>6
<1> QED BY <1>1, <1>2, <1>3

LEMMA NoEditStep ==
    ASSUME NoEditInv, StoreInv, IndexTyped, [StoreNext]_vars
    PROVE  NoEditInv'
<1>1. CASE UNCHANGED vars
  <2>1. UNCHANGED <<workload, log, versions, index, actor, made>>
    BY <1>1 DEF vars
  <2>2. Latest' = Latest /\ Base' = Base /\ View' = View
    BY <2>1, ViewStays DEF Latest, Base
  <2>3. (Recent' => Recent) /\ (IndexHas(View) => IndexHas(View)')
    BY <2>1, <2>2 DEF Recent, Built, IndexHas
  <2> QED BY <2>1, <2>2, <2>3 DEF NoEditInv
<1>2. ASSUME NEW a \in Actors, Commit(a) \/ AppendOnly(a) PROVE FALSE
  BY <1>2 DEF Commit, AppendOnly, NoEditInv, EditPc
<1>3. ASSUME NEW a \in Actors, Mark(a) \/ Prune(a) PROVE NoEditInv'
  <2>1. /\ Latest' = Latest /\ Base' = Base /\ View' = View /\ UNCHANGED <<workload, made>>
    BY <1>3, VersionsKept, ObjectsKept
  <2>2. UNCHANGED index
    BY <1>3 DEF Mark, Prune
  <2>3. PICK f \in {Idle, Rebuild} : actor' = [actor EXCEPT ![a] = f]
    BY <1>3 DEF Mark, Prune, Step
  <2>4. f.pc \in {"idle", "pin base"}
    BY RebuildPc
  <2>5. ~EditPc(f) /\ ReadFrame(f, Latest, Base, View)
    BY <2>4 DEF EditPc, ReadFrame
  <2> QED BY <2>1, <2>2, <2>3, <2>5, NoEditKept
<1>4. ASSUME NEW a \in Actors, Reads(a) PROVE NoEditInv'
  <2>1. /\ Latest' = Latest /\ Base' = Base /\ View' = View /\ UNCHANGED <<workload, made>>
    BY <1>4, VersionsKept, ObjectsKept
  <2>2. ASSUME NEW f, actor' = [actor EXCEPT ![a] = f], UNCHANGED index,
               ~EditPc(f), ReadFrame(f, Latest, Base, View)
        PROVE  NoEditInv'
    BY <2>1, <2>2, NoEditKept
  <2>3. ~((\E e \in Edits : Act(a, e)) \/ Check(a) \/ CatchUp(a) \/ Recheck(a) \/ CommitFails(a))
    BY DEF Act, Calls, Check, CatchUp, Recheck, CommitFails, NoEditInv, EditPc
  <2>4. CASE StartRebuild(a) \/ PinBase(a) \/ PinEdits(a)
    <3>1. ReadFrame(actor[a], Latest, Base, View)
      BY DEF NoEditInv
    <3>2. PICK f : /\ actor' = [actor EXCEPT ![a] = f] /\ ReadFrame(f, Latest, Base, View)
                   /\ f.pc \in {"pin base", "pin edits", "replace"}
      BY <2>4, <3>1, RebuildReads
    <3>3. ~EditPc(f)
      BY <3>2 DEF EditPc
    <3> QED BY <2>2, <2>4, <3>1, <3>2, <3>3, RebuildReads
  <2>5. CASE Elsewhere(a)
    <3>1. PICK f : actor' = [actor EXCEPT ![a] = f] /\ ElsewherePc(f)
      BY <2>5, ElsewhereIs
    <3>2. ~EditPc(f) /\ ReadFrame(f, Latest, Base, View)
      BY <3>1 DEF ElsewherePc, EditPc, ReadFrame
    <3> QED BY <2>2, <2>5, <3>1, <3>2, ElsewhereIs
  <2>6. ~EditPc(Idle) /\ ReadFrame(Idle, Latest, Base, View)
    BY DEF EditPc, ReadFrame, Idle
  <2>7. CASE Replace(a)
    <3>1. index'.version = actor[a].version /\ index'.rows = actor[a].built
      BY <2>7 DEF Replace, Label
    <3>2. ReadFrame(actor[a], Latest, Base, View) /\ actor[a].pc = "replace"
      BY <2>7 DEF NoEditInv, Replace
    <3>3. Recent' => IndexHas(View)'
      BY <2>1, <3>1, <3>2 DEF Recent, IndexHas, ReadFrame
    <3>4. actor' = [actor EXCEPT ![a] = Idle]
      BY <2>7 DEF Replace, Step
    <3> QED BY <2>1, <2>6, <3>3, <3>4, NoEditKept
  <2>8. CASE RebuildFails(a)
    <3>1. ~Recent' /\ actor' = [actor EXCEPT ![a] = Idle]
      BY <2>8 DEF RebuildFails, Step, Recent, Built
    <3> QED BY <2>1, <2>6, <3>1, NoEditKept
  <2> QED BY <1>4, <2>3, <2>4, <2>5, <2>7, <2>8 DEF Reads, Elsewhere
<1> QED BY <1>1, <1>2, <1>3, <1>4, NoEditOvertaken, StepIs

-----------------------------------------------------------------------------
(* Where one call is made at a time. *)

\* The rows of the index, and the log up to its watermark.
IndexLevel ==
    Built =>
        /\ index.applied <= made
        /\ \A k \in Keys : index.rows[k].at <= index.applied
        /\ Recent => IndexHas(Through(log, 0, index.applied, Base))

AloneFrame(f) ==
    /\ f.pc = "commit" /\ Recent => index.applied = made
    /\ f.pc = "catch up" =>
          DOMAIN f.owed \subseteq 1..made /\ (Recent => f.owed = Owed \/ DOMAIN f.owed = {})
    /\ f.pc = "mark" => ~Recent
    /\ f.pc \in {"pin base", "pin edits", "replace"} => f.applied = made
    /\ f.pc = "replace" => \A k \in Keys : f.built[k].at <= made
    /\ ReadFrame(f, Latest, Base, View)

OneCall == \A a, b \in Actors : actor[a] # Idle /\ actor[b] # Idle => a = b

AloneInv ==
    /\ workload.calls <= 1 /\ OneCall /\ IndexLevel
    /\ \A a \in Actors : AloneFrame(actor[a])

\* Where nothing of the index is held.
Trivial(f) ==
    f.pc \notin {"commit", "catch up", "mark", "pin base", "pin edits", "replace"}

LEMMA TrivialFrame ==
    ASSUME NEW f, Trivial(f)
    PROVE  AloneFrame(f) /\ AloneFrame(f)'
BY DEF Trivial, AloneFrame, ReadFrame

LEMMA IdleIsTrivial == Trivial(Idle)
BY RebuildPc DEF Trivial

LEMMA LevelStarts == ASSUME StoreInit, StoreInv PROVE IndexLevel
<1> SUFFICES ASSUME Built PROVE /\ index.applied <= made
                                /\ \A k \in Keys : index.rows[k].at <= index.applied
                                /\ IndexHas(Through(log, 0, index.applied, Base))
  BY DEF IndexLevel
<1>1. index.applied = 0 /\ IndexHas(Base) /\ \A k \in Keys : index.rows[k].at = 0
  BY FoundLevel DEF Built, IndexHas
<1>2. Through(log, 0, 0, Base) = Base
  BY StoreFacts, ThroughIs
<1> QED BY <1>1, <1>2, StoreFacts

LEMMA AloneStarts ==
    ASSUME StoreInit, StoreInv, workload.calls <= 1
    PROVE  AloneInv
<1>1. actor = [a \in Actors |-> Idle]
  BY DEF StoreInit
<1>2. \A a \in Actors : AloneFrame(actor[a])
  BY <1>1, IdleIsTrivial, TrivialFrame
<1> QED BY <1>1, <1>2, LevelStarts DEF AloneInv, OneCall

\* Whoever takes a step is the only one.
LEMMA TheOthersAreIdle ==
    ASSUME AloneInv, StoreInv, NEW a \in Actors,
           Publish(a) \/ Commit(a) \/ AppendOnly(a) \/ Mark(a) \/ Prune(a) \/ Reads(a)
    PROVE  \A b \in Actors \ {a} : actor[b] = Idle
<1>1. CASE actor[a] # Idle
  BY <1>1 DEF AloneInv, OneCall
<1>2. ASSUME NEW op, Calls(a, op) PROVE \A b \in Actors \ {a} : actor[b] = Idle
  <2>1. PICK busy : busy = {b \in Actors : actor[b] # Idle}
    OBVIOUS
  <2>2. Cardinality(busy) < workload.calls
    BY <1>2, <2>1 DEF Calls
  <2>3. workload.calls \in Nat /\ workload.calls <= 1
    BY StoreFacts DEF LogInv, WorkloadRecords, AloneInv
  <2>4. ASSUME NEW b \in busy PROVE FALSE
    <3>1. busy = {b}
      BY <2>1 DEF AloneInv, OneCall
    <3>2. Cardinality(busy) = 1
      BY <3>1, FS_Singleton
    <3> QED BY <2>2, <2>3, <3>2
  <2> QED BY <2>1, <2>4
<1>3. actor[a] # Idle \/ \E op : Calls(a, op)
  <2>1. actor[a].pc # "idle" => actor[a] # Idle
    BY RebuildPc
  <2>2. ~(\E op : Calls(a, op)) => actor[a].pc # "idle" \/ actor[a] # Idle
    BY DEF Publish, Commit, AppendOnly, Mark, Prune, Reads, Act, Check, CatchUp, Recheck,
           CommitFails, StartRebuild, PinBase, PinEdits, Replace, RebuildFails, StartFold,
           FoldBase, FoldEdits, StaleBase, Plan, ScanBase, ScanEdits, Abandon
  <2> QED BY <2>1, <2>2
<1> QED BY <1>1, <1>2, <1>3

LEMMA AloneKept ==
    ASSUME AloneInv, StoreInv, NEW a \in Actors, \A b \in Actors \ {a} : actor[b] = Idle,
           NEW f, actor' = [actor EXCEPT ![a] = f], UNCHANGED workload,
           IndexLevel', AloneFrame(f)'
    PROVE  AloneInv'
<1>1. \A b \in Actors : actor'[b] = IF b = a THEN f ELSE Idle
  BY StoreFacts
<1>2. AloneFrame(Idle)'
  BY IdleIsTrivial, TrivialFrame
<1>3. \A b \in Actors : AloneFrame(actor[b])'
  <2> TAKE b \in Actors
  <2>1. PICK g \in {f, Idle} : actor'[b] = g
    BY <1>1
  <2>2. AloneFrame(g)'
    <3>1. CASE g = f
      BY <3>1
    <3>2. CASE g = Idle
      <4>1. Trivial(g)
        BY <3>2, IdleIsTrivial
      <4> QED BY <4>1, TrivialFrame
    <3> QED BY <3>1, <3>2
  <2> QED BY <2>1, <2>2 DEF AloneFrame
<1>4. OneCall'
  BY <1>1 DEF OneCall
<1> QED BY <1>3, <1>4 DEF AloneInv

\* A step that reads only.
LEMMA AloneRead ==
    ASSUME AloneInv, StoreInv, NEW a \in Actors, \A b \in Actors \ {a} : actor[b] = Idle,
           NEW f, actor' = [actor EXCEPT ![a] = f],
           UNCHANGED <<workload, log, versions, index, made>>, AloneFrame(f)
    PROVE  AloneInv'
<1>1. Latest' = Latest /\ Base' = Base /\ View' = View
  BY ViewStays DEF Latest, Base
<1>2. Recent' = Recent /\ Built' = Built /\ Owed' = Owed
  BY <1>1 DEF Recent, Built, Owed, Pending, Live
<1>3. IndexLevel'
  BY <1>1, <1>2 DEF AloneInv, IndexLevel, IndexHas
<1>4. AloneFrame(f)'
  BY <1>1, <1>2 DEF AloneFrame
<1> QED BY <1>3, <1>4, AloneKept

\* An edit replayed onto the index, or written through.
LEMMA Replayed ==
    ASSUME IndexTyped, Built, NEW e, IsEdit(e), NEW n \in Nat, NEW m \in Nat, index.applied <= m, n <= m,
           \A k \in Keys : index.rows[k].at <= index.applied
    PROVE  /\ Applied(e, n).applied <= m
           /\ \A k \in Keys : Applied(e, n).rows[k].at <= Applied(e, n).applied
           /\ n > index.applied =>
                \A k \in Keys : Applied(e, n).rows[k].object =
                   IF k = e.key THEN Edited(index.rows[k].object, e, n) ELSE index.rows[k].object
<1>1. /\ index.applied \in Nat /\ \A k \in Keys : index.rows[k] \in IndexRows
  BY IndexIs DEF Indexes
<1>2. \A k \in Keys : index.rows[k].at \in Nat
  BY <1>1 DEF IndexRows
<1>3. PICK j : j = Applied(e, n).applied
  OBVIOUS
<1>4. j = IF n > index.applied THEN n ELSE index.applied
  BY <1>3, AppliedIs
<1>5. j \in Nat /\ j <= m /\ n <= j /\ index.applied <= j
  BY <1>1, <1>4
<1>6. \A row : Delta(row, e, n).at \in {0, n, row.at}
  <2> TAKE row
  <2>1. [object |-> Gone, at |-> 0].at = 0 /\ \A o : [object |-> o, at |-> n].at = n
    OBVIOUS
  <2> QED BY <2>1, Zenon DEF Delta
<1>7. \A k \in Keys : Applied(e, n).rows[k].at <= j
  <2> TAKE k \in Keys
  <2>1. Applied(e, n).rows[k] = IF k = e.key THEN Delta(index.rows[k], e, n) ELSE index.rows[k]
    BY AppliedIs
  <2>2. Applied(e, n).rows[k].at \in {0, n, index.rows[k].at}
    BY <1>6, <2>1
  <2> QED BY <1>1, <1>2, <1>5, <2>2
<1>8. ASSUME n > index.applied, NEW k \in Keys
      PROVE  Applied(e, n).rows[k].object =
                IF k = e.key THEN Edited(index.rows[k].object, e, n) ELSE index.rows[k].object
  <2>1. Newer(index.rows[k], n)
    BY <1>1, <1>2, <1>8 DEF Newer
  <2>2. \A row : Newer(row, n) => Delta(row, e, n).object = Edited(row.object, e, n)
    BY DEF Delta
  <2>3. Applied(e, n).rows[k] = IF k = e.key THEN Delta(index.rows[k], e, n) ELSE index.rows[k]
    BY AppliedIs
  <2> QED BY <2>1, <2>2, <2>3
<1> QED BY <1>3, <1>5, <1>7, <1>8

\* The next live edit, replayed onto what the log gives up to another.
LEMMA NextEdit ==
    ASSUME Typed(log), NEW rows \in Objects, NEW i \in Nat, NEW n \in Live(log), n > i, n \in Nat,
           \A m \in Live(log) : m > i => n <= m
    PROVE  Through(log, 0, n, rows) = Do(log, n, Through(log, 0, i, rows))
<1>1. \A m \in Live(log) : ~(m > i /\ m <= n - 1)
  BY DEF Live, Typed
<1>2. Through(log, 0, i, rows) \in Objects
  BY ThroughIs
<1>3. Through(log, i, n - 1, Through(log, 0, i, rows)) = Through(log, 0, i, rows)
  BY <1>1, <1>2, ThroughNothing
<1>4. Through(log, i, n - 1, Through(log, 0, i, rows)) = Through(log, 0, n - 1, rows)
  BY ThroughComposes
<1>5. Through(log, 0, (n - 1) + 1, rows) = Do(log, (n - 1) + 1, Through(log, 0, n - 1, rows))
  BY ThroughIs
<1> QED BY <1>3, <1>4, <1>5

\* What a watermark that is level with the log certifies.
LEMMA LevelIsHonest ==
    ASSUME StoreInv, IndexTyped, IndexLevel
    PROVE  Recent /\ index.applied >= made => IndexHas(View)
<1> SUFFICES ASSUME Recent, index.applied >= made PROVE IndexHas(View)
  OBVIOUS
<1>1. index.applied \in Nat /\ index.applied <= made /\ made \in Nat
  BY IndexIs, StoreFacts DEF Indexes, Recent, IndexLevel
<1>2. index.applied = made
  BY <1>1
<1> QED BY <1>2, StoreFacts DEF IndexLevel, Recent

LEMMA AloneEdits ==
    ASSUME AloneInv, StoreInv, IndexTyped, NEW a \in Actors,
           (\E e \in Edits : Act(a, e)) \/ Check(a) \/ Recheck(a) \/ CommitFails(a)
    PROVE  AloneInv'
<1>0. /\ \A b \in Actors \ {a} : actor[b] = Idle
      /\ UNCHANGED <<workload, log, versions, index, made>>
      /\ DOMAIN log \subseteq 1..made /\ MaxSeq = made /\ made \in Nat
  BY TheOthersAreIdle, StoreFacts DEF Act, Check, Recheck, CommitFails, Reads
<1>1. ASSUME NEW f, actor' = [actor EXCEPT ![a] = f], AloneFrame(f)
      PROVE  AloneInv'
  BY <1>0, <1>1, AloneRead
<1>2. Current => Recent /\ index.applied = made
  <2> SUFFICES ASSUME Current PROVE Recent /\ index.applied = made
    OBVIOUS
  <2>1. Recent /\ index.applied >= made
    BY <1>0 DEF Current, Recent
  <2>2. index.applied <= made /\ index.applied \in Nat
    BY <2>1, IndexIs DEF AloneInv, IndexLevel, Recent, Indexes
  <2> QED BY <1>0, <2>1, <2>2
<1>3. \A e : Trivial([pc |-> "check", edit |-> e]) /\ Trivial([pc |-> "append", edit |-> e])
  BY DEF Trivial
<1>4. ASSUME Current, NEW e PROVE AloneFrame([pc |-> "commit", edit |-> e])
  <2>1. PICK f : f = [pc |-> "commit", edit |-> e]
    OBVIOUS
  <2>2. f.pc = "commit"
    BY <2>1
  <2>3. AloneFrame(f)
    BY <1>2, <1>4, <2>2 DEF AloneFrame, ReadFrame
  <2> QED BY <2>1, <2>3
<1>5. ASSUME NEW e \in Edits, Act(a, e) PROVE AloneInv'
  BY <1>1, <1>3, <1>5, TrivialFrame DEF Act, Step
<1>6. ASSUME Check(a) PROVE AloneInv'
  <2>1. CASE ~Built
    BY <1>1, <1>3, <1>6, <2>1, TrivialFrame DEF Check, Step
  <2>2. CASE Built /\ Current
    BY <1>1, <1>4, <1>6, <2>2 DEF Check, Step
  <2>3. CASE Built /\ ~Current
    <3>1. PICK f : f = [pc |-> "catch up", edit |-> actor[a].edit, owed |-> Owed]
      OBVIOUS
    <3>2. f.pc = "catch up" /\ f.owed = Owed
      BY <3>1
    <3>3. DOMAIN Owed \subseteq 1..made
      BY <1>0 DEF Owed, Pending, Live
    <3>4. AloneFrame(f)
      BY <3>2, <3>3 DEF AloneFrame, ReadFrame
    <3>5. actor' = [actor EXCEPT ![a] = f]
      BY <1>6, <2>3, <3>1 DEF Check, Step
    <3> QED BY <1>1, <3>4, <3>5
  <2> QED BY <2>1, <2>2, <2>3
<1>7. ASSUME Recheck(a) PROVE AloneInv'
  <2>1. CASE Current
    BY <1>1, <1>4, <1>7, <2>1 DEF Recheck, Step
  <2>2. CASE ~Current
    BY <1>1, <1>3, <1>7, <2>2, TrivialFrame DEF Recheck, Step
  <2> QED BY <2>1, <2>2
<1>8. ASSUME CommitFails(a) PROVE AloneInv'
  <2>1. PICK x \in EditRows : actor[a] = [pc |-> "commit", edit |-> x]
    BY <1>8, StoreFacts DEF CommitFails, FrameOk
  <2>2. [actor[a] EXCEPT !.pc = "append"] = [pc |-> "append", edit |-> x]
    BY <2>1
  <2>3. actor' = [actor EXCEPT ![a] = [pc |-> "append", edit |-> x]]
    BY <1>8, <2>2 DEF CommitFails, Goto
  <2> QED BY <1>1, <1>3, <2>3, TrivialFrame
<1> QED BY <1>5, <1>6, <1>7, <1>8

LEMMA AloneCatchesUp ==
    ASSUME AloneInv, StoreInv, IndexTyped, NEW a \in Actors, CatchUp(a)
    PROVE  AloneInv'
<1>0. /\ \A b \in Actors \ {a} : actor[b] = Idle
      /\ UNCHANGED <<workload, log, versions, made>>
      /\ Typed(log) /\ DOMAIN log \subseteq 1..made /\ made \in Nat /\ Base \in Objects
      /\ AloneFrame(actor[a]) /\ IndexLevel
  BY TheOthersAreIdle, StoreFacts DEF CatchUp, Reads, AloneInv
<1>1. PICK owed : owed = actor[a].owed
  OBVIOUS
<1>2. /\ DOMAIN owed \subseteq 1..made /\ DOMAIN owed # {}
      /\ \A n \in DOMAIN owed : n \in Nat /\ IsEdit(owed[n])
      /\ Recent => owed = Owed
  BY <1>0, <1>1 DEF CatchUp, AloneFrame, IndexTyped, IndexFrame
<1>3. PICK n : n = First(DOMAIN owed)
  OBVIOUS
<1>4. n \in DOMAIN owed /\ \A m \in DOMAIN owed : n <= m
  <2>1. \E m \in DOMAIN owed : \A k \in DOMAIN owed : m <= k
    BY <1>2, LeastMember
  <2> QED BY <1>3, <2>1 DEF First
<1>5. CASE /\ UNCHANGED index
           /\ actor' = [actor EXCEPT ![a] = [pc |-> "catch up", edit |-> actor[a].edit,
                                             owed |-> [m \in {} |-> owed[m]]]]
  <2>1. PICK f : f = [pc |-> "catch up", edit |-> actor[a].edit, owed |-> [m \in {} |-> owed[m]]]
    OBVIOUS
  <2>2. f.pc = "catch up" /\ DOMAIN f.owed = {}
    BY <2>1
  <2>3. AloneFrame(f)
    BY <2>2 DEF AloneFrame, ReadFrame
  <2> QED BY <1>0, <1>5, <2>1, <2>3, AloneRead
<1>6. CASE /\ Built /\ index' = Applied(owed[n], n)
           /\ actor' = [actor EXCEPT ![a] = [pc |-> "catch up", edit |-> actor[a].edit,
                                             owed |-> [m \in DOMAIN owed \ {n} |-> owed[m]]]]
  <2>1. PICK f : f = [pc |-> "catch up", edit |-> actor[a].edit,
                      owed |-> [m \in DOMAIN owed \ {n} |-> owed[m]]]
    OBVIOUS
  <2>2. f.pc = "catch up" /\ f.owed = [m \in DOMAIN owed \ {n} |-> owed[m]]
    BY <2>1
  <2>3. PICK e : e = owed[n]
    OBVIOUS
  <2>4. IsEdit(e) /\ n \in Nat /\ n <= made /\ n >= 1
    BY <1>2, <1>4, <2>3
  <2>5. /\ index.applied <= made /\ \A k \in Keys : index.rows[k].at <= index.applied
        /\ index.applied \in Nat
    BY <1>0, <1>6, IndexIs DEF IndexLevel, Indexes
  <2>6. PICK i : i = Applied(e, n)
    OBVIOUS
  <2>7. /\ i \in Indexes /\ i.version = index.version
        /\ i.applied = IF n > index.applied THEN n ELSE index.applied
        /\ i.applied <= made /\ \A k \in Keys : i.rows[k].at <= i.applied
        /\ n > index.applied =>
                \A k \in Keys : i.rows[k].object =
                   IF k = e.key THEN Edited(index.rows[k].object, e, n) ELSE index.rows[k].object
    <3>1. /\ i \in Indexes /\ i.version = index.version
          /\ i.applied = IF n > index.applied THEN n ELSE index.applied
      BY <1>6, <2>4, <2>6, AppliedIs
    <3>2. /\ Applied(e, n).applied <= made
          /\ \A k \in Keys : Applied(e, n).rows[k].at <= Applied(e, n).applied
          /\ n > index.applied =>
                \A k \in Keys : Applied(e, n).rows[k].object =
                   IF k = e.key THEN Edited(index.rows[k].object, e, n) ELSE index.rows[k].object
      BY <1>0, <1>6, <2>4, <2>5, Replayed
    <3> QED BY <2>6, <3>1, <3>2
  <2>8. index' = i
    BY <1>6, <2>3, <2>6
  <2>9. Latest' = Latest /\ Base' = Base /\ Live(log)' = Live(log) /\ View' = View
    BY <1>0, ViewStays DEF Latest, Base, Live
  <2>10. Recent' <=> Recent
    BY <1>6, <2>7, <2>8, <2>9, IndexesAreBuilt DEF Recent, Built
  <2>11. ASSUME Recent
         PROVE  /\ n \in Live(log) /\ n > index.applied /\ e = log[n]
                /\ \A m \in Live(log) : m > index.applied => n <= m
                /\ DOMAIN owed = {m \in Live(log) : m > index.applied}
                /\ \A m \in DOMAIN owed : owed[m] = log[m]
    <3>1. owed = Owed /\ Pending = {m \in Live(log) : m > index.applied}
      BY <1>2, <2>11 DEF Pending, Recent
    <3>2. DOMAIN owed = {m \in Live(log) : m > index.applied} /\ \A m \in DOMAIN owed : owed[m] = log[m]
      BY <3>1 DEF Owed
    <3> QED BY <1>4, <2>3, <3>2
  <2>12. ASSUME Recent PROVE \A k \in Keys : i.rows[k].object = Through(log, 0, i.applied, Base)[k]
    <3>1. i.applied = n
      BY <2>7, <2>11, <2>12
    <3>2. PICK o \in Objects : o = Through(log, 0, index.applied, Base)
      BY <1>0, <2>5, ThroughIs
    <3>3. Through(log, 0, n, Base) = Do(log, n, o)
      BY <1>0, <2>4, <2>5, <2>11, <2>12, <3>2, NextEdit
    <3>4. Do(log, n, o) = [o EXCEPT ![e.key] = Edited(@, e, n)]
      BY <2>11, <2>12 DEF Do
    <3>5. \A k \in Keys : Do(log, n, o)[k] = IF k = e.key THEN Edited(o[k], e, n) ELSE o[k]
      BY <3>4, <2>4 DEF Objects, IsEdit
    <3>6. \A k \in Keys : index.rows[k].object = o[k]
      BY <1>0, <1>6, <2>12, <3>2 DEF IndexLevel, IndexHas
    <3> QED BY <2>7, <2>11, <2>12, <3>1, <3>3, <3>5, <3>6
  <2>13. IndexLevel'
    BY <1>0, <2>7, <2>8, <2>9, <2>10, <2>12 DEF IndexLevel, IndexHas
  <2>14. ASSUME Recent PROVE f.owed = Owed'
    <3>1. index'.applied = n /\ index'.version = Latest'
      BY <2>7, <2>8, <2>9, <2>11, <2>14 DEF Recent
    <3>2. Pending' = {m \in Live(log) : m > n}
      BY <2>9, <3>1 DEF Pending
    <3>3. {m \in Live(log) : m > n} = DOMAIN owed \ {n}
      <4>1. \A m \in Live(log) : m \in Nat
        BY <1>0 DEF Live
      <4> QED BY <2>4, <2>5, <2>11, <2>14, <4>1
    <3>4. Owed' = [m \in DOMAIN owed \ {n} |-> log[m]]
      BY <1>0, <3>2, <3>3 DEF Owed
    <3> QED BY <2>2, <2>11, <2>14, <3>4
  <2>15. AloneFrame(f)'
    <3>1. DOMAIN f.owed \subseteq 1..made'
      BY <1>0, <1>2, <2>2
    <3> QED BY <2>2, <2>10, <2>14, <3>1 DEF AloneFrame, ReadFrame
  <2> QED BY <1>0, <1>6, <2>1, <2>13, <2>15, AloneKept
<1> QED BY <1>1, <1>3, <1>5, <1>6 DEF CatchUp, Step

\* An edit that is written through to a recent index that is level with the
\* log leaves it so: the fact both of one call and of edits alone.
LEMMA CommitLevels ==
    ASSUME StoreInv, IndexTyped, IndexLevel, NEW a \in Actors, Commit(a),
           Recent => index.applied = made
    PROVE  /\ IndexLevel' /\ made' = made + 1
           /\ Recent' => Recent /\ index'.applied = made'
<1>0. /\ made \in Nat /\ MaxSeq = made /\ Base \in Objects /\ View \in Objects
      /\ View = Through(log, 0, made, Base) /\ Built
  BY StoreFacts DEF Commit
<1>1. PICK x \in EditRows :
        /\ actor[a].edit = x
        /\ View' = [View EXCEPT ![x.key] = Edited(@, Unfolded(x), made + 1)]
  BY AppendStep
<1>2. made' = made + 1 /\ View' = Through(log', 0, made + 1, Base)
  BY AppendStep
<1>3. Latest' = Latest /\ Base' = Base
  BY VersionsKept
<1>4. PICK n : n = made + 1
  OBVIOUS
<1>5. n \in Nat /\ IsEdit(x) /\ n <= n
  BY <1>0, <1>4 DEF IsEdit, EditRows
<1>6. index.applied \in Nat /\ index.applied < n /\ \A k \in Keys : index.rows[k].at <= index.applied
  BY <1>0, <1>4, IndexIs DEF IndexLevel, Indexes
<1>7. PICK i : i = Applied(x, n)
  OBVIOUS
<1>8. index' = i
  BY <1>0, <1>1, <1>4, <1>7 DEF Commit
<1>9. /\ i.applied = n /\ i.version = index.version /\ i \in Indexes
      /\ \A k \in Keys : i.rows[k].at <= i.applied
      /\ \A k \in Keys : i.rows[k].object =
            IF k = x.key THEN Edited(index.rows[k].object, x, n) ELSE index.rows[k].object
  <2>1. Applied(x, n) \in Indexes /\ Applied(x, n).version = index.version /\ Applied(x, n).applied = n
    BY <1>0, <1>5, <1>6, AppliedIs
  <2>2. /\ \A k \in Keys : Applied(x, n).rows[k].at <= Applied(x, n).applied
        /\ \A k \in Keys : Applied(x, n).rows[k].object =
              IF k = x.key THEN Edited(index.rows[k].object, x, n) ELSE index.rows[k].object
    BY <1>0, <1>5, <1>6, Replayed
  <2> QED BY <1>7, <2>1, <2>2
<1>10. Recent' <=> Recent
  BY <1>0, <1>3, <1>8, <1>9, IndexesAreBuilt DEF Recent, Built
<1>11. ASSUME Recent PROVE \A k \in Keys : i.rows[k].object = View'[k]
  <2>1. \A k \in Keys : index.rows[k].object = View[k]
    BY <1>0, <1>11 DEF IndexLevel, IndexHas
  <2>2. \A o : Edited(o, Unfolded(x), n) = Edited(o, x, n)
    <3>1. Unfolded(x).kind = x.kind /\ Unfolded(x).col = x.col
      BY DEF Unfolded
    <3> QED BY <3>1 DEF Edited
  <2>3. \A k \in Keys : View'[k] = IF k = x.key THEN Edited(View[k], Unfolded(x), n) ELSE View[k]
    <3>1. PICK v \in Objects : v = View
      BY <1>0
    <3>2. PICK w : w = Edited(v[x.key], Unfolded(x), n)
      OBVIOUS
    <3>3. View' = [v EXCEPT ![x.key] = w]
      BY <1>1, <1>4, <3>1, <3>2
    <3>4. \A k \in Keys : [v EXCEPT ![x.key] = w][k] = IF k = x.key THEN w ELSE v[k]
      BY DEF Objects
    <3> QED BY <3>1, <3>2, <3>3, <3>4
  <2> QED BY <1>9, <2>1, <2>2, <2>3
<1>12. IndexLevel'
  <2>1. index'.applied <= made'
    BY <1>2, <1>4, <1>8, <1>9, <1>0
  <2>2. Recent' => IndexHas(Through(log, 0, index.applied, Base))'
    <3> SUFFICES ASSUME Recent' PROVE IndexHas(Through(log, 0, index.applied, Base))'
      OBVIOUS
    <3>1. Through(log', 0, index'.applied, Base') = View'
      BY <1>2, <1>3, <1>4, <1>8, <1>9
    <3> QED BY <1>8, <1>10, <1>11, <3>1 DEF IndexHas
  <2> QED BY <1>8, <1>9, <2>1, <2>2 DEF IndexLevel
<1> QED BY <1>2, <1>4, <1>8, <1>9, <1>10, <1>12

\* An edit that goes to the log alone leaves the index as far as it was.
LEMMA AppendLevels ==
    ASSUME StoreInv, IndexTyped, IndexLevel, NEW a \in Actors, AppendOnly(a)
    PROVE  IndexLevel' /\ (Recent' <=> Recent)
<1>0. made \in Nat /\ UNCHANGED index /\ Latest' = Latest /\ Base' = Base
  BY StoreFacts, VersionsKept DEF AppendOnly
<1>1. made' = made + 1 /\ \A j \in 0..made : Through(log', 0, j, Base) = Through(log, 0, j, Base)
  BY AppendStep
<1>2. (Recent' <=> Recent) /\ (Built' <=> Built)
  BY <1>0 DEF Recent, Built
<1>3. Built => index.applied \in 0..made
  BY <1>0, IndexIs DEF IndexLevel, Indexes
<1> QED BY <1>0, <1>1, <1>2, <1>3 DEF IndexLevel, IndexHas

LEMMA AloneRebuilds ==
    ASSUME AloneInv, StoreInv, IndexTyped, NEW a \in Actors,
           StartRebuild(a) \/ PinBase(a) \/ PinEdits(a) \/ Replace(a) \/ RebuildFails(a)
    PROVE  AloneInv'
<1>0. /\ \A b \in Actors \ {a} : actor[b] = Idle
      /\ UNCHANGED <<workload, log, versions, made>>
      /\ AloneFrame(actor[a]) /\ ReadFrame(actor[a], Latest, Base, View)
  BY TheOthersAreIdle DEF StartRebuild, PinBase, PinEdits, Replace, RebuildFails, Reads, AloneInv, AloneFrame
<1>1. CASE StartRebuild(a) \/ PinBase(a) \/ PinEdits(a)
  <2>1. PICK f : /\ actor' = [actor EXCEPT ![a] = f] /\ ReadFrame(f, Latest, Base, View)
                 /\ f.pc \in {"pin base", "pin edits", "replace"}
                 /\ f.applied = IF StartRebuild(a) THEN made ELSE actor[a].applied
                 /\ f.pc = "replace" => \A k \in Keys : f.built[k].at <= made
    BY <1>0, <1>1, RebuildReads
  <2>2. UNCHANGED index
    BY <1>1 DEF StartRebuild, PinBase, PinEdits
  <2>3. ~StartRebuild(a) => actor[a].applied = made
    BY <1>0, <1>1 DEF AloneFrame, PinBase, PinEdits
  <2>4. AloneFrame(f)
    BY <2>1, <2>3 DEF AloneFrame
  <2> QED BY <1>0, <2>1, <2>2, <2>4, AloneRead
<1>2. AloneFrame(Idle)'
  BY IdleIsTrivial, TrivialFrame
<1>3. ASSUME NEW f, f = Idle PROVE AloneFrame(f)'
  BY <1>3, IdleIsTrivial, TrivialFrame
<1>4. CASE Replace(a)
  <2>1. PICK f : f = Idle
    OBVIOUS
  <2>2. actor' = [actor EXCEPT ![a] = f]
    BY <1>4, <2>1 DEF Replace, Step
  <2>3. /\ actor[a].pc = "replace" /\ actor[a].applied = made
        /\ \A k \in Keys : actor[a].built[k].at <= made
    BY <1>0, <1>4 DEF Replace, AloneFrame
  <2>4. /\ index'.version = actor[a].version /\ index'.applied = made
        /\ index'.rows = actor[a].built
    BY <1>4, <2>3 DEF Replace, Label
  <2>5. Latest' = Latest /\ Base' = Base /\ View = Through(log, 0, made, Base) /\ made \in Nat
    BY <1>0, StoreFacts DEF Latest, Base
  <2>6. Recent' => \A k \in Keys : index'.rows[k].object = View[k]
    BY <1>0, <2>3, <2>4, <2>5 DEF Recent, ReadFrame
  <2>7. IndexLevel'
    BY <1>0, <2>3, <2>4, <2>5, <2>6 DEF IndexLevel, IndexHas
  <2> QED BY <1>0, <1>3, <2>1, <2>2, <2>7, AloneKept
<1>5. CASE RebuildFails(a)
  <2>1. PICK f : f = Idle
    OBVIOUS
  <2>2. actor' = [actor EXCEPT ![a] = f] /\ ~Built'
    BY <1>5, <2>1 DEF RebuildFails, Step, Built
  <2>3. IndexLevel'
    BY <2>2 DEF IndexLevel
  <2> QED BY <1>0, <1>3, <2>1, <2>2, <2>3, AloneKept
<1> QED BY <1>1, <1>4, <1>5

LEMMA AloneOvertaken ==
    ASSUME AloneInv, StoreInv, IndexTyped, (\E a \in Actors : Publish(a)) \/ Upload
    PROVE  AloneInv'
<1>1. /\ Latest' = Latest + 1 /\ UNCHANGED <<workload, log, index, made>> /\ Latest \in Nat
  BY VersionStep, StoreFacts
<1>2. ~Recent'
  BY <1>1 DEF Recent, IndexTyped, Built
<1>3. IndexLevel'
  BY <1>1, <1>2 DEF AloneInv, IndexLevel, Built
<1>4. CASE Upload
  <2>1. UNCHANGED actor
    BY <1>4 DEF Upload
  <2>2. ASSUME NEW b \in Actors PROVE AloneFrame(actor[b])'
    <3>1. AloneFrame(actor[b]) /\ IndexFrame(actor[b], Latest)
      BY DEF AloneInv, IndexTyped
    <3>2. actor[b].pc \in {"pin edits", "replace"} => actor[b].version \in 1..Latest
      BY <3>1 DEF IndexFrame
    <3>3. \A v \in 1..Latest : v # Latest'
      BY <1>1
    <3>4. \A base, o : ReadFrame(actor[b], Latest', base, o)
      BY <3>2, <3>3 DEF ReadFrame
    <3> QED BY <1>1, <1>2, <2>1, <3>1, <3>4 DEF AloneFrame
  <2> QED BY <1>1, <1>3, <2>1, <2>2 DEF AloneInv, OneCall
<1>5. ASSUME NEW a \in Actors, Publish(a) PROVE AloneInv'
  <2>1. PICK f : f = [pc |-> "mark", version |-> Latest + 1, ids |-> actor[a].ids]
    OBVIOUS
  <2>2. actor' = [actor EXCEPT ![a] = f] /\ f.pc = "mark"
    BY <1>5, <2>1 DEF Publish, Step
  <2>3. AloneFrame(f)'
    BY <1>2, <2>2 DEF AloneFrame, ReadFrame
  <2>4. \A b \in Actors \ {a} : actor[b] = Idle
    BY <1>5, TheOthersAreIdle
  <2> QED BY <1>1, <1>3, <2>2, <2>3, <2>4, AloneKept
<1> QED BY <1>4, <1>5

LEMMA AloneStep ==
    ASSUME AloneInv, StoreInv, IndexTyped, [StoreNext]_vars
    PROVE  AloneInv'
<1>0. made \in Nat /\ MaxSeq = made /\ IndexLevel
  BY StoreFacts DEF AloneInv
<1>1. CASE UNCHANGED vars
  <2>1. UNCHANGED <<workload, log, versions, index, actor, made>>
    BY <1>1 DEF vars
  <2>2. Latest' = Latest /\ Base' = Base /\ View' = View
    BY <2>1, ViewStays DEF Latest, Base
  <2>3. Recent' = Recent /\ Built' = Built /\ Owed' = Owed
    BY <2>1, <2>2 DEF Recent, Built, Owed, Pending, Live
  <2>4. IndexLevel'
    BY <2>1, <2>2, <2>3, <1>0 DEF IndexLevel, IndexHas
  <2>5. ASSUME NEW b \in Actors PROVE AloneFrame(actor[b])'
    <3>1. AloneFrame(actor[b])
      BY DEF AloneInv
    <3> QED BY <2>1, <2>2, <2>3, <3>1 DEF AloneFrame
  <2> QED BY <2>1, <2>4, <2>5 DEF AloneInv, OneCall
<1>2. ASSUME NEW f, f = Idle PROVE AloneFrame(f)'
  BY <1>2, IdleIsTrivial, TrivialFrame
<1>3. PICK idle : idle = Idle
  OBVIOUS
<1>4. ASSUME NEW a \in Actors, actor' = [actor EXCEPT ![a] = idle], UNCHANGED workload, IndexLevel',
             \A b \in Actors \ {a} : actor[b] = Idle
      PROVE  AloneInv'
  BY <1>2, <1>3, <1>4, AloneKept
<1>5. ASSUME NEW a \in Actors, Commit(a) PROVE AloneInv'
  <2>1. Recent => index.applied = made
    BY <1>5 DEF Commit, AloneInv, AloneFrame
  <2>2. IndexLevel'
    BY <1>0, <1>5, <2>1, CommitLevels
  <2>3. actor' = [actor EXCEPT ![a] = idle] /\ UNCHANGED workload
    BY <1>3, <1>5 DEF Commit, Step
  <2> QED BY <1>4, <1>5, <2>2, <2>3, TheOthersAreIdle
<1>6. ASSUME NEW a \in Actors, AppendOnly(a) PROVE AloneInv'
  <2>1. IndexLevel'
    BY <1>0, <1>6, AppendLevels
  <2>2. actor' = [actor EXCEPT ![a] = idle] /\ UNCHANGED workload
    BY <1>3, <1>6 DEF AppendOnly, Step
  <2> QED BY <1>4, <1>6, <2>1, <2>2, TheOthersAreIdle
<1>7. ASSUME NEW a \in Actors, Prune(a) PROVE AloneInv'
  <2>1. UNCHANGED <<workload, index, made>> /\ actor' = [actor EXCEPT ![a] = idle]
    BY <1>3, <1>7 DEF Prune, Step
  <2>2. Latest' = Latest /\ Base' = Base
    BY <1>7, VersionsKept
  <2>3. \A j \in Nat : Through(log', 0, j, Base) = Through(log, 0, j, Base)
    BY <1>7, PruneStep
  <2>4. (Recent' <=> Recent) /\ (Built' <=> Built)
    BY <2>1, <2>2 DEF Recent, Built
  <2>5. Built => index.applied \in Nat
    BY IndexIs DEF Indexes
  <2>6. IndexLevel'
    BY <1>0, <2>1, <2>2, <2>3, <2>4, <2>5 DEF IndexLevel, IndexHas
  <2> QED BY <1>4, <1>7, <2>1, <2>6, TheOthersAreIdle
<1>8. ASSUME NEW a \in Actors, Mark(a) PROVE AloneInv'
  <2>1. UNCHANGED <<workload, index, made>>
    BY <1>8 DEF Mark
  <2>2. ~Recent /\ Latest' = Latest
    BY <1>8, VersionsKept DEF Mark, AloneInv, AloneFrame
  <2>3. ~Recent' /\ (Built' <=> Built)
    BY <2>1, <2>2 DEF Recent, Built
  <2>4. IndexLevel'
    BY <1>0, <2>1, <2>3 DEF IndexLevel
  <2>5. PICK f \in {Idle, Rebuild} : actor' = [actor EXCEPT ![a] = f]
    BY <1>8 DEF Mark, Step
  <2>6. f.pc = "idle" \/ (f.pc = "pin base" /\ f.applied = made')
    BY <1>0, <2>1, RebuildPc
  <2>7. AloneFrame(f)'
    BY <2>6 DEF AloneFrame, ReadFrame
  <2> QED BY <1>8, <2>1, <2>4, <2>5, <2>7, AloneKept, TheOthersAreIdle
<1>9. ASSUME NEW a \in Actors, Reads(a) PROVE AloneInv'
  <2>1. CASE Elsewhere(a)
    <3>1. PICK f : actor' = [actor EXCEPT ![a] = f] /\ ElsewherePc(f)
      BY <2>1, ElsewhereIs
    <3>2. Trivial(f)
      BY <3>1 DEF ElsewherePc, Trivial
    <3>3. UNCHANGED <<workload, log, versions, index, made>>
      BY <2>1 DEF Elsewhere, StartFold, FoldBase, FoldEdits, StaleBase, Plan, ScanBase, ScanEdits, Abandon
    <3> QED BY <1>9, <3>1, <3>2, <3>3, TheOthersAreIdle, TrivialFrame, AloneRead
  <2> QED BY <1>9, <2>1, AloneEdits, AloneCatchesUp, AloneRebuilds DEF Reads, Elsewhere
<1> QED BY <1>1, <1>5, <1>6, <1>7, <1>8, <1>9, AloneOvertaken, StepIs

-----------------------------------------------------------------------------
(* Where nothing is ever indexed. *)

UnindexedInv ==
    /\ "rebuild" \notin workload.ops
    /\ ~Built
    /\ \A a \in Actors : actor[a].pc \notin {"pin base", "pin edits", "replace"}

LEMMA UnindexedStarts ==
    ASSUME StoreInit, workload.start = "unbuilt", "rebuild" \notin workload.ops
    PROVE  UnindexedInv
<1>1. actor = [a \in Actors |-> Idle]
  BY DEF StoreInit
<1>2. \A a \in Actors : actor[a].pc = "idle"
  BY <1>1, RebuildPc
<1> QED BY <1>2, FoundLevel DEF UnindexedInv, Built

LEMMA UnindexedStep ==
    ASSUME UnindexedInv, StoreInv, [StoreNext]_vars
    PROVE  UnindexedInv'
<1>1. ASSUME NEW a \in Actors, NEW f, actor' = [actor EXCEPT ![a] = f],
             f.pc \notin {"pin base", "pin edits", "replace"}, UNCHANGED <<workload, index>>
      PROVE  UnindexedInv'
  <2>1. \A b \in Actors : actor'[b] = IF b = a THEN f ELSE actor[b]
    BY <1>1, StoreFacts
  <2> QED BY <1>1, <2>1 DEF UnindexedInv, Built
<1>2. CASE UNCHANGED vars
  BY <1>2 DEF vars, UnindexedInv, Built
<1>3. CASE Upload
  BY <1>3 DEF Upload, UnindexedInv, Built
<1>4. ASSUME NEW a \in Actors, Publish(a) PROVE UnindexedInv'
  <2>1. PICK f : f = [pc |-> "mark", version |-> Latest + 1, ids |-> actor[a].ids]
    OBVIOUS
  <2>2. actor' = [actor EXCEPT ![a] = f] /\ f.pc = "mark" /\ UNCHANGED <<workload, index>>
    BY <1>4, <2>1 DEF Publish, Step
  <2> QED BY <1>1, <2>2
<1>5. PICK idle : idle = Idle
  OBVIOUS
<1>6. idle.pc = "idle"
  BY <1>5, RebuildPc
<1>7. ASSUME NEW a \in Actors, Mark(a) \/ Prune(a) \/ Commit(a) \/ AppendOnly(a) PROVE UnindexedInv'
  <2>1. ~Commit(a)
    BY DEF Commit, UnindexedInv
  <2>2. actor' = [actor EXCEPT ![a] = idle] /\ UNCHANGED <<workload, index>>
    BY <1>5, <1>7, <2>1 DEF Mark, Prune, AppendOnly, Step, UnindexedInv
  <2> QED BY <1>1, <1>6, <2>2
<1>8. ASSUME NEW a \in Actors, Reads(a) PROVE UnindexedInv'
  <2>1. ~(StartRebuild(a) \/ PinBase(a) \/ PinEdits(a) \/ Replace(a) \/ RebuildFails(a))
    BY DEF StartRebuild, Calls, PinBase, PinEdits, Replace, RebuildFails, UnindexedInv
  <2>2. CASE Elsewhere(a)
    <3>1. PICK f : actor' = [actor EXCEPT ![a] = f] /\ ElsewherePc(f)
      BY <2>2, ElsewhereIs
    <3>2. UNCHANGED <<workload, index>>
      BY <2>2, <1>8, ElsewhereIs, VersionsKept
    <3> QED BY <1>1, <3>1, <3>2 DEF ElsewherePc
  <2>3. CASE (\E e \in Edits : Act(a, e)) \/ Check(a) \/ Recheck(a)
    <3>1. UNCHANGED <<workload, index>>
      BY <2>3 DEF Act, Check, Recheck
    <3>2. PICK f : actor' = [actor EXCEPT ![a] = f] /\ f.pc \in {"check", "append", "commit"}
      <4>1. \A e : /\ [pc |-> "check", edit |-> e].pc = "check"
                   /\ [pc |-> "append", edit |-> e].pc = "append"
                   /\ [pc |-> "commit", edit |-> e].pc = "commit"
        OBVIOUS
      <4>2. CASE \E e \in Edits : Act(a, e)
        BY <4>1, <4>2 DEF Act, Step
      <4>3. CASE Check(a)
        BY <4>1, <4>3 DEF Check, Step, UnindexedInv
      <4>4. CASE Recheck(a)
        <5>1. ~Current
          BY DEF Current, UnindexedInv
        <5> QED BY <4>1, <4>4, <5>1 DEF Recheck, Step
      <4> QED BY <2>3, <4>2, <4>3, <4>4
    <3> QED BY <1>1, <3>1, <3>2
  <2>4. CASE CatchUp(a)
    <3>1. UNCHANGED <<workload, index>>
      BY <2>4 DEF CatchUp, UnindexedInv
    <3>2. PICK owed : actor' = [actor EXCEPT ![a] = [pc |-> "catch up", edit |-> actor[a].edit, owed |-> owed]]
      BY <2>4 DEF CatchUp, UnindexedInv, Step
    <3>3. PICK f : f = [pc |-> "catch up", edit |-> actor[a].edit, owed |-> owed]
      OBVIOUS
    <3>4. f.pc = "catch up"
      BY <3>3
    <3> QED BY <1>1, <3>1, <3>2, <3>3, <3>4
  <2>5. CASE CommitFails(a)
    <3>1. PICK x \in EditRows : actor[a] = [pc |-> "commit", edit |-> x]
      BY <2>5, StoreFacts DEF CommitFails, FrameOk
    <3>2. PICK f : f = [actor[a] EXCEPT !.pc = "append"]
      OBVIOUS
    <3>3. f.pc = "append"
      BY <3>1, <3>2
    <3>4. actor' = [actor EXCEPT ![a] = f] /\ UNCHANGED <<workload, index>>
      BY <2>5, <3>2 DEF CommitFails, Goto
    <3> QED BY <1>1, <3>3, <3>4
  <2> QED BY <1>8, <2>1, <2>2, <2>3, <2>4, <2>5 DEF Reads, Elsewhere
<1> QED BY <1>2, <1>3, <1>4, <1>7, <1>8, StepIs

-----------------------------------------------------------------------------
(* Where edits meet edits only. *)

Behind == workload.start = "behind"

\* What the first edit, with which the index was behind, has made of its row.
\* Those who catch up replay it again, whatever was edited since.
FirstEdit ==
    \A row : row = index.rows[log[1].key] =>
        /\ row.object # Gone => row.at >= 1
        /\ log[1].kind = "create" => row.object # Gone
        /\ log[1].kind = "delete" => row.object = Gone

EditingFrame(f) ==
    /\ f.pc \in {"idle", "check", "catch up", "commit", "append", "scan"}
    /\ f.pc \in {"check", "catch up", "commit", "append"} => f.edit.kind \in workload.kinds
    /\ f.pc = "catch up" => DOMAIN f.owed \subseteq 1..made
    /\ f.pc = "append" => ~Recent
    /\ f.pc = "commit" /\ Recent => index.applied = made
    /\ f.pc = "catch up" /\ Recent =>
          \/ DOMAIN f.owed = {} /\ index.applied = made
          \/ Behind /\ DOMAIN f.owed = {1} /\ f.owed[1] = log[1]

EditingInv ==
    /\ EditsAlone(workload) /\ Built /\ IndexLevel
    /\ \A n \in DOMAIN log : log[n].folded = 0
    /\ Behind => 1 \in DOMAIN log /\ log[1].kind \in workload.kinds
    /\ Recent => index.applied = made \/ (Behind /\ index.applied = 0 /\ made = 1)
    /\ Behind /\ Recent /\ index.applied >= 1 => FirstEdit
    /\ \A a \in Actors : EditingFrame(actor[a])

LEMMA EditingStarts ==
    ASSUME StoreInit, StoreInv, EditsAlone(workload), workload.start # "unbuilt"
    PROVE  EditingInv
<1>1. actor = [a \in Actors |-> Idle]
  BY DEF StoreInit
<1>2. \A a \in Actors : EditingFrame(actor[a])
  <2>1. \A f : f.pc = "idle" => EditingFrame(f)
    BY DEF EditingFrame
  <2> QED BY <1>1, <2>1, RebuildPc
<1>3. Built /\ index.applied = 0
  BY FoundLevel, IndexesAreBuilt DEF Built
<1>4. made = MaxSeq
  BY DEF StoreInit
<1>5. CASE Behind
  <2>1. PICK e \in Edits : log = [n \in {1} |-> Unfolded(e)]
    BY <1>5 DEF StoreInit, Behind
  <2>2. PICK x : x = Unfolded(e)
    OBVIOUS
  <2>3. DOMAIN log = {1} /\ log[1] = x
    BY <2>1, <2>2
  <2>4. x.kind = e.kind /\ x.folded = 0 /\ e.kind \in workload.kinds
    BY <2>2 DEF Unfolded, Edits
  <2>5. made = 1
    BY <2>3, StoreFacts DEF LogInv
  <2> QED BY <1>2, <1>3, <1>5, <2>3, <2>4, <2>5, LevelStarts DEF EditingInv
<1>6. CASE ~Behind
  <2>1. log = << >>
    BY <1>6 DEF StoreInit, Behind
  <2>2. DOMAIN log = {} /\ made = 0
    BY <1>4, <2>1 DEF MaxSeq
  <2> QED BY <1>2, <1>3, <1>6, <2>2, LevelStarts DEF EditingInv
<1> QED BY <1>5, <1>6

\* What the others hold outlives a step that keeps a level index level.
LEMMA EditingOthers ==
    ASSUME NEW g, EditingFrame(g), UNCHANGED workload, made \in Nat, made' \in {made, made + 1},
           Recent' => Recent, Recent' => g.pc # "append",
           Recent' /\ index.applied = made => index'.applied = made',
           Behind => log'[1] = log[1]
    PROVE  EditingFrame(g)'
<1>1. Behind' <=> Behind
  BY DEF Behind
<1>2. 1..made \subseteq 1..made'
  OBVIOUS
<1> QED BY <1>1, <1>2 DEF EditingFrame

\* A step of the edits that reads only.
LEMMA EditingRead ==
    ASSUME EditingInv, StoreInv, NEW a \in Actors, NEW f, actor' = [actor EXCEPT ![a] = f],
           UNCHANGED <<workload, log, versions, index, made>>, EditingFrame(f)
    PROVE  EditingInv'
<1>1. Latest' = Latest /\ Base' = Base
  BY DEF Latest, Base
<1>2. Recent' = Recent /\ Built' = Built /\ Behind' = Behind
  BY <1>1 DEF Recent, Built, Behind
<1>3. IndexLevel'
  BY <1>1, <1>2 DEF EditingInv, IndexLevel, IndexHas
<1>4. \A b \in Actors : actor'[b] = IF b = a THEN f ELSE actor[b]
  BY StoreFacts
<1>5. \A b \in Actors : EditingFrame(actor'[b])
  BY <1>4 DEF EditingInv
<1>6. \A b \in Actors : EditingFrame(actor[b])'
  BY <1>2, <1>5 DEF EditingFrame
<1>7. FirstEdit' = FirstEdit
  BY DEF FirstEdit
<1> QED BY <1>2, <1>3, <1>6, <1>7 DEF EditingInv

\* What an edit that is written through makes of the row of the first.
LEMMA FirstStays ==
    ASSUME NEW o, NEW e, IsEdit(e), NEW first \in Kinds, NEW n \in Nat,
           ~(first = "create" /\ e.kind = "delete"), ~(first = "delete" /\ e.kind = "create"),
           first = "create" => o # Gone, first = "delete" => o = Gone,
           o \in [Cols -> Int] \cup {Gone}
    PROVE  /\ first = "create" => Edited(o, e, n) # Gone
           /\ first = "delete" => Edited(o, e, n) = Gone
<1>0. e.kind \in Kinds /\ e.col \in Cols
  BY DEF IsEdit
<1>1. \A f \in [Cols -> Int] : f # Gone
  BY <1>0, GoneIsNone
<1>2. CASE e.kind = "create"
  <2>1. Edited(o, e, n) = [c \in Cols |-> n] /\ [c \in Cols |-> n] \in [Cols -> Int]
    BY <1>2 DEF Edited
  <2> QED BY <1>1, <1>2, <2>1
<1>3. CASE e.kind = "delete"
  BY <1>3 DEF Edited
<1>4. CASE e.kind = "update" /\ o = Gone
  BY <1>4 DEF Edited
<1>5. CASE e.kind = "update" /\ o # Gone
  <2>1. Edited(o, e, n) = [o EXCEPT ![e.col] = n]
    BY <1>5 DEF Edited
  <2>2. o \in [Cols -> Int] /\ n \in Int
    BY <1>5
  <2>3. [o EXCEPT ![e.col] = n] \in [Cols -> Int]
    BY <2>2
  <2> QED BY <1>1, <1>5, <2>1, <2>3
<1> QED BY <1>0, <1>2, <1>3, <1>4, <1>5 DEF Kinds

\* The row of an edit, as _apply_index_delta leaves it.
LEMMA DeltaIs ==
    ASSUME NEW row \in IndexRows, NEW e, IsEdit(e), NEW n \in Nat \ {0}
    PROVE  \A r : r = Delta(row, e, n) =>
              /\ Newer(row, n) => r.object = Edited(row.object, e, n)
              /\ Newer(row, n) /\ r.object # Gone => r.at = n
              /\ ~Newer(row, n) /\ Edited(row.object, e, n) # Gone => r = row
              /\ Edited(row.object, e, n) = Gone => r.object = Gone
<1>1. \A o, m : [object |-> o, at |-> m].object = o /\ [object |-> o, at |-> m].at = m
  OBVIOUS
<1>2. CASE Edited(row.object, e, n) = Gone
  BY <1>1, <1>2 DEF Delta
<1>3. CASE Edited(row.object, e, n) # Gone
  BY <1>1, <1>3 DEF Delta
<1> QED BY <1>2, <1>3

\* A log that has grown by an edit.
LEMMA GrownLog ==
    ASSUME StoreInv, NEW a \in Actors, Commit(a) \/ AppendOnly(a),
           \A n \in DOMAIN log : log[n].folded = 0
    PROVE  /\ \A n \in DOMAIN log' : log'[n].folded = 0
           /\ 1 \in DOMAIN log => 1 \in DOMAIN log' /\ log'[1] = log[1]
<1>0. MaxSeq = made /\ made \in Nat /\ DOMAIN log \subseteq 1..made
  BY StoreFacts
<1>1. log' = [n \in DOMAIN log \cup {made + 1} |->
                 IF n = made + 1 THEN Unfolded(actor[a].edit) ELSE log[n]]
  BY <1>0 DEF Commit, AppendOnly, Logged
<1>2. Unfolded(actor[a].edit).folded = 0
  BY DEF Unfolded
<1>3. made + 1 \notin DOMAIN log
  BY <1>0
<1> QED BY <1>1, <1>2, <1>3

LEMMA EditingCommits ==
    ASSUME EditingInv, StoreInv, IndexTyped, NEW a \in Actors, Commit(a)
    PROVE  EditingInv'
<1>0. /\ made \in Nat /\ MaxSeq = made /\ Built /\ IndexLevel /\ EditingFrame(actor[a])
      /\ Typed(log) /\ DOMAIN log \subseteq 1..made /\ actor[a].pc = "commit"
  BY StoreFacts DEF EditingInv, Commit
<1>1. Recent => index.applied = made
  BY <1>0 DEF EditingFrame
<1>2. IndexLevel' /\ made' = made + 1 /\ (Recent' => Recent /\ index'.applied = made')
  BY <1>0, <1>1, CommitLevels
<1>3. UNCHANGED workload /\ Behind' = Behind /\ actor' = [actor EXCEPT ![a] = Idle]
  BY DEF Commit, Step, Behind
<1>4. /\ \A n \in DOMAIN log' : log'[n].folded = 0
      /\ Behind => 1 \in DOMAIN log' /\ log'[1] = log[1]
  BY GrownLog DEF EditingInv
<1>5. \A b \in Actors : EditingFrame(actor[b])'
  <2>1. ASSUME NEW g, EditingFrame(g) PROVE EditingFrame(g)'
    <3>1. Recent' => g.pc # "append"
      BY <1>2, <2>1 DEF EditingFrame
    <3> QED BY <1>0, <1>2, <1>3, <1>4, <2>1, <3>1, EditingOthers
  <2>2. EditingFrame(Idle)
    BY RebuildPc DEF EditingFrame
  <2>3. \A b \in Actors : \E g : actor'[b] = g /\ EditingFrame(g)
    BY <1>3, <2>2, StoreFacts DEF EditingInv
  <2> QED BY <2>1, <2>3 DEF EditingFrame
<1>6. PICK x \in EditRows : actor[a] = [pc |-> "commit", edit |-> x]
  BY <1>0, StoreFacts DEF FrameOk
<1>7. x = actor[a].edit /\ IsEdit(x) /\ x.kind \in workload.kinds
  BY <1>0, <1>6 DEF EditingFrame, EditRows, IsEdit
<1>8. PICK n : n = made + 1
  OBVIOUS
<1>9. n \in Nat \ {0} /\ index' = Applied(x, n) /\ index'.version = index.version
      /\ \A k \in Keys : index'.rows[k] = IF k = x.key THEN Delta(index.rows[k], x, n) ELSE index.rows[k]
  <2>1. n \in Nat \ {0} /\ index' = Applied(x, n)
    BY <1>0, <1>7, <1>8 DEF Commit
  <2> QED BY <1>0, <1>7, <2>1, AppliedIs
<1>10. Built'
  <2>1. index' \in Indexes
    BY <1>0, <1>7, <1>9, AppliedIs
  <2> QED BY <2>1, IndexesAreBuilt DEF Built
<1>11. ASSUME Behind, Recent' PROVE FirstEdit'
  <2>1. Recent /\ index.applied = made /\ made >= 1 /\ FirstEdit
    BY <1>0, <1>1, <1>2, <1>11 DEF EditingInv
  <2>2. PICK first : first = log[1]
    OBVIOUS
  <2>3. first \in LogRows /\ first.kind \in workload.kinds
    BY <1>0, <1>11, <2>2 DEF Typed, EditingInv
  <2>4. first.key \in Keys /\ first.kind \in Kinds
    BY <2>3 DEF LogRows
  <2>5. PICK row : row = index.rows[first.key]
    OBVIOUS
  <2>6. row \in IndexRows /\ row.at <= made /\ row.at \in Nat /\ row.object \in [Cols -> Int] \cup {Gone}
    BY <1>0, <2>1, <2>4, <2>5, IndexIs DEF Indexes, IndexRows, IndexLevel
  <2>7. /\ row.object # Gone => row.at >= 1
        /\ first.kind = "create" => row.object # Gone
        /\ first.kind = "delete" => row.object = Gone
    BY <2>1, <2>2, <2>5 DEF FirstEdit
  <2>8. ~({"create", "delete"} \subseteq workload.kinds)
    BY <1>11 DEF EditingInv, EditsAlone, Behind
  <2>9. PICK new : new = index'.rows[first.key]
    OBVIOUS
  <2>10. /\ new.object # Gone => new.at >= 1
         /\ first.kind = "create" => new.object # Gone
         /\ first.kind = "delete" => new.object = Gone
    <3>1. CASE first.key # x.key
      <4>1. new = row
        BY <1>9, <2>4, <2>5, <2>9, <3>1
      <4> QED BY <2>7, <4>1
    <3>2. CASE first.key = x.key
      <4>1. new = Delta(row, x, n)
        BY <1>9, <2>4, <2>5, <2>9, <3>2
      <4>2. Newer(row, n)
        BY <1>0, <1>8, <2>6 DEF Newer
      <4>3. new.object = Edited(row.object, x, n) /\ (new.object # Gone => new.at = n)
        BY <1>7, <1>9, <2>6, <4>1, <4>2, DeltaIs
      <4>4. ~(first.kind = "create" /\ x.kind = "delete") /\ ~(first.kind = "delete" /\ x.kind = "create")
        BY <1>7, <2>3, <2>8
      <4>5. /\ first.kind = "create" => Edited(row.object, x, n) # Gone
            /\ first.kind = "delete" => Edited(row.object, x, n) = Gone
        BY <1>7, <1>9, <2>4, <2>6, <2>7, <4>4, FirstStays
      <4> QED BY <1>9, <4>3, <4>5
    <3> QED BY <3>1, <3>2
  <2>11. log'[1] = first
    BY <1>4, <1>11, <2>2
  <2> QED BY <2>9, <2>10, <2>11 DEF FirstEdit
<1> QED BY <1>2, <1>3, <1>4, <1>5, <1>10, <1>11 DEF EditingInv

LEMMA EditingAppends ==
    ASSUME EditingInv, StoreInv, IndexTyped, NEW a \in Actors, AppendOnly(a)
    PROVE  EditingInv'
<1>1. IndexLevel' /\ (Recent' <=> Recent) /\ UNCHANGED <<workload, index>>
  BY AppendLevels DEF EditingInv, AppendOnly
<1>2. ~Recent /\ ~Recent'
  BY <1>1 DEF EditingInv, EditingFrame, AppendOnly
<1>3. UNCHANGED workload /\ Behind' = Behind /\ actor' = [actor EXCEPT ![a] = Idle] /\ Built'
  BY <1>1 DEF AppendOnly, Step, Behind, Built, EditingInv
<1>4. /\ \A n \in DOMAIN log' : log'[n].folded = 0
      /\ Behind => 1 \in DOMAIN log' /\ log'[1] = log[1]
  BY GrownLog DEF EditingInv
<1>5. \A b \in Actors : EditingFrame(actor[b])'
  <2>1. ASSUME NEW g, EditingFrame(g) PROVE EditingFrame(g)'
    <3>1. made \in Nat /\ made' = made + 1
      BY StoreFacts, AppendStep
    <3> QED BY <1>1, <1>2, <1>3, <1>4, <2>1, <3>1, EditingOthers
  <2>2. EditingFrame(Idle)
    BY RebuildPc DEF EditingFrame
  <2>3. \A b \in Actors : \E g : actor'[b] = g /\ EditingFrame(g)
    BY <1>3, <2>2, StoreFacts DEF EditingInv
  <2> QED BY <2>1, <2>3 DEF EditingFrame
<1> QED BY <1>1, <1>2, <1>3, <1>4, <1>5 DEF EditingInv

\* The first edit, replayed on a row that has it, changes no object.
LEMMA FirstAgain ==
    ASSUME Typed(log), IndexTyped, Built, FirstEdit, 1 \in DOMAIN log
    PROVE  /\ \A k \in Keys : Applied(log[1], 1).rows[k].object = index.rows[k].object
           /\ \A row : row = Applied(log[1], 1).rows[log[1].key] =>
                 /\ row.object # Gone => row.at >= 1
                 /\ log[1].kind = "create" => row.object # Gone
                 /\ log[1].kind = "delete" => row.object = Gone
<1>1. PICK e : e = log[1]
  OBVIOUS
<1>2. e \in LogRows /\ IsEdit(e)
  BY <1>1 DEF Typed, LogRows, IsEdit
<1>3. PICK row : row = index.rows[e.key]
  OBVIOUS
<1>4. e.key \in Keys /\ e.kind \in Kinds /\ e.col \in Cols
  BY <1>2 DEF IsEdit
<1>5. row \in IndexRows /\ row.at \in Nat /\ row.object \in [Cols -> Int] \cup {Gone}
  BY <1>3, <1>4, IndexIs DEF Indexes, IndexRows
<1>6. /\ row.object # Gone => row.at >= 1
      /\ e.kind = "create" => row.object # Gone
      /\ e.kind = "delete" => row.object = Gone
  BY <1>1, <1>3 DEF FirstEdit
<1>7. PICK new : new = Delta(row, e, 1)
  OBVIOUS
<1>8. new.object = row.object /\ (new.object # Gone => new.at >= 1)
  <2>1. CASE row.object = Gone
    <3>1. Edited(row.object, e, 1) = Gone
      BY <1>4, <1>6, <2>1 DEF Edited, Kinds
    <3> QED BY <1>2, <1>5, <1>7, <2>1, <3>1, DeltaIs
  <2>2. CASE row.object # Gone
    <3>1. ~Newer(row, 1)
      BY <1>5, <1>6, <2>2 DEF Newer
    <3>3. Edited(row.object, e, 1) # Gone
      <4>1. PICK first \in Kinds : first = "create"
        BY DEF Kinds
      <4>2. e.kind # "delete"
        BY <1>6, <2>2
      <4> QED BY <1>2, <1>5, <2>2, <4>1, <4>2, FirstStays
    <3> QED BY <1>2, <1>5, <1>6, <1>7, <2>2, <3>1, <3>3, DeltaIs
  <2> QED BY <2>1, <2>2
<1>9. \A k \in Keys : Applied(e, 1).rows[k] = IF k = e.key THEN new ELSE index.rows[k]
  BY <1>2, <1>3, <1>7, AppliedIs
<1> QED BY <1>1, <1>3, <1>4, <1>6, <1>8, <1>9

\* The first edit, replayed on the row as it was found.
LEMMA FirstTime ==
    ASSUME Typed(log), IndexTyped, Built, 1 \in DOMAIN log, index.applied = 0,
           \A k \in Keys : index.rows[k].at <= index.applied
    PROVE  \A row : row = Applied(log[1], 1).rows[log[1].key] =>
              /\ row.object # Gone => row.at >= 1
              /\ log[1].kind = "create" => row.object # Gone
              /\ log[1].kind = "delete" => row.object = Gone
<1>1. PICK e : e = log[1]
  OBVIOUS
<1>2. e \in LogRows /\ IsEdit(e)
  BY <1>1 DEF Typed, LogRows, IsEdit
<1>3. PICK row : row = index.rows[e.key]
  OBVIOUS
<1>4. e.key \in Keys /\ e.kind \in Kinds /\ e.col \in Cols
  BY <1>2 DEF IsEdit
<1>5. row \in IndexRows /\ row.at \in Nat /\ row.at <= 0
  BY <1>3, <1>4, IndexIs DEF Indexes, IndexRows
<1>6. PICK new : new = Delta(row, e, 1)
  OBVIOUS
<1>7. new = Applied(e, 1).rows[e.key]
  BY <1>2, <1>3, <1>4, <1>6, AppliedIs
<1>8. Newer(row, 1)
  BY <1>5 DEF Newer
<1>9. new.object = Edited(row.object, e, 1) /\ (new.object # Gone => new.at = 1)
  BY <1>2, <1>5, <1>6, <1>8, DeltaIs
<1>10. e.kind = "create" => Edited(row.object, e, 1) # Gone
  <2>1. [c \in Cols |-> 1] \in [Cols -> Int]
    OBVIOUS
  <2>2. [c \in Cols |-> 1] # Gone
    BY <1>4, <2>1, GoneIsNone
  <2> QED BY <2>2 DEF Edited
<1>11. e.kind = "delete" => Edited(row.object, e, 1) = Gone
  BY DEF Edited
<1> QED BY <1>1, <1>7, <1>9, <1>10, <1>11

LEMMA EditingCatchesUp ==
    ASSUME EditingInv, StoreInv, IndexTyped, NEW a \in Actors, CatchUp(a)
    PROVE  EditingInv'
<1>0. /\ UNCHANGED <<workload, log, versions, made>>
      /\ Typed(log) /\ DOMAIN log \subseteq 1..made /\ made \in Nat /\ Base \in Objects
      /\ EditingFrame(actor[a]) /\ IndexLevel /\ Built /\ actor[a].pc = "catch up"
  BY StoreFacts DEF CatchUp, EditingInv
<1>a. made \in Nat /\ DOMAIN log \subseteq 1..made /\ Typed(log) /\ Base \in Objects
  BY StoreFacts
<1>1. PICK owed : owed = actor[a].owed
  OBVIOUS
<1>2. PICK n : n = First(DOMAIN owed)
  OBVIOUS
<1>3. /\ index' = Applied(owed[n], n)
      /\ actor' = [actor EXCEPT ![a] = [pc |-> "catch up", edit |-> actor[a].edit,
                                        owed |-> [m \in DOMAIN owed \ {n} |-> owed[m]]]]
  BY <1>0, <1>1, <1>2 DEF CatchUp, Step, EditingInv, EditsAlone
<1>4. /\ DOMAIN owed # {} /\ \A m \in DOMAIN owed : m \in Nat /\ IsEdit(owed[m])
      /\ DOMAIN owed \subseteq 1..made
      /\ Recent => Behind /\ DOMAIN owed = {1} /\ owed[1] = log[1]
  BY <1>0, <1>1 DEF CatchUp, EditingFrame, IndexTyped, IndexFrame
<1>5. n \in DOMAIN owed
  <2>1. \E m \in DOMAIN owed : \A k \in DOMAIN owed : m <= k
    BY <1>4, LeastMember
  <2> QED BY <1>2, <2>1 DEF First
<1>6. PICK f : f = [pc |-> "catch up", edit |-> actor[a].edit,
                    owed |-> [m \in DOMAIN owed \ {n} |-> owed[m]]]
  OBVIOUS
<1>7. /\ f.pc = "catch up" /\ f.edit = actor[a].edit /\ DOMAIN f.owed = DOMAIN owed \ {n}
  BY <1>6
<1>8. Latest' = Latest /\ Base' = Base /\ Behind' = Behind
  BY <1>0 DEF Latest, Base, Behind
<1>9. \A b \in Actors : actor'[b] = IF b = a THEN f ELSE actor[b]
  BY <1>3, <1>6, StoreFacts
<1>10. index.applied \in Nat /\ index.applied <= made /\ \A k \in Keys : index.rows[k].at <= index.applied
  BY <1>0, IndexIs DEF IndexLevel, Indexes
<1>11. index' \in Indexes /\ index'.version = index.version
       /\ index'.applied = IF n > index.applied THEN n ELSE index.applied
  BY <1>0, <1>3, <1>4, <1>5, AppliedIs
<1>12. Built' /\ (Recent' <=> Recent)
  BY <1>0, <1>8, <1>11, IndexesAreBuilt DEF Recent, Built
<1>13. f.edit.kind \in workload.kinds
  BY <1>0, <1>7 DEF EditingFrame
<1>14. n \in Nat /\ n <= made /\ IsEdit(owed[n])
  <2>1. n \in 1..made
    BY <1>4, <1>5
  <2>2. IsEdit(owed[n])
    BY <1>4, <1>5
  <2> QED BY <1>a, <2>1, <2>2
<1>15. /\ index'.applied <= made
       /\ \A k \in Keys : index'.rows[k].at <= index'.applied
       /\ n > index.applied =>
            \A k \in Keys : index'.rows[k].object =
               IF k = owed[n].key THEN Edited(index.rows[k].object, owed[n], n) ELSE index.rows[k].object
  BY <1>0, <1>3, <1>10, <1>14, Replayed
<1>16. CASE ~Recent
  <2>1. IndexLevel'
    BY <1>0, <1>12, <1>15, <1>16 DEF IndexLevel
  <2>2. \A b \in Actors : EditingFrame(actor[b])'
    <3>1. ASSUME NEW g, EditingFrame(g) PROVE EditingFrame(g)'
      BY <1>0, <1>8, <1>12, <1>16, <3>1, EditingOthers
    <3>2. EditingFrame(f)
      BY <1>4, <1>7, <1>13, <1>16 DEF EditingFrame
    <3>3. \A b \in Actors : \E g : actor'[b] = g /\ EditingFrame(g)
      BY <1>9, <3>2 DEF EditingInv
    <3> QED BY <3>1, <3>3 DEF EditingFrame
  <2> QED BY <1>0, <1>8, <1>12, <1>16, <2>1, <2>2 DEF EditingInv
<1>17. CASE Recent
  <2>1. Behind /\ n = 1 /\ owed[n] = log[1] /\ DOMAIN f.owed = {} /\ made >= 1 /\ 1 \in DOMAIN log
    BY <1>0, <1>4, <1>5, <1>7, <1>14, <1>17 DEF EditingInv
  <2>2. index.applied = made \/ (index.applied = 0 /\ made = 1)
    BY <1>17 DEF EditingInv
  <2>3. index'.applied = made
    BY <1>10, <1>11, <2>1, <2>2
  <2>4. IndexHas(Through(log, 0, index.applied, Base))
    BY <1>0, <1>17 DEF IndexLevel
  <2>5. PICK o \in Objects : o = Through(log, 0, index.applied, Base)
    BY <1>0, <1>10, ThroughIs
  <2>6. ASSUME index.applied = made
        PROVE  /\ FirstEdit'
               /\ \A k \in Keys : index'.rows[k].object = Through(log, 0, made, Base)[k]
    <3>1. FirstEdit
      BY <1>17, <2>1, <2>6 DEF EditingInv
    <3>2. \A k \in Keys : index'.rows[k].object = index.rows[k].object
      BY <1>0, <1>3, <2>1, <3>1, FirstAgain
    <3>3. FirstEdit'
      BY <1>0, <1>3, <2>1, <3>1, FirstAgain DEF FirstEdit
    <3>4. \A k \in Keys : index'.rows[k].object = Through(log, 0, made, Base)[k]
      BY <2>4, <2>6, <3>2 DEF IndexHas
    <3> QED BY <3>3, <3>4
  <2>7. ASSUME index.applied = 0, made = 1
        PROVE  /\ FirstEdit'
               /\ \A k \in Keys : index'.rows[k].object = Through(log, 0, made, Base)[k]
    <3>1. FirstEdit'
      BY <1>0, <1>3, <1>10, <2>1, <2>7, FirstTime DEF FirstEdit
    <3>2. \A k \in Keys : index'.rows[k].object =
             IF k = log[1].key THEN Edited(index.rows[k].object, log[1], 1) ELSE index.rows[k].object
      BY <1>15, <2>1, <2>7
    <3>3. \A m \in Live(log) : m > 0 => 1 <= m
      <4>1. \A m \in Live(log) : m \in 1..made
        BY <1>a DEF Live
      <4> QED BY <1>a, <4>1
    <3>4. 1 \in Live(log)
      BY <2>1 DEF Live, EditingInv
    <3>5. Through(log, 0, 1, Base) = Do(log, 1, o)
      <4>1. o = Through(log, 0, 0, Base)
        BY <2>5, <2>7
      <4>2. Through(log, 0, 1, Base) = Do(log, 1, Through(log, 0, 0, Base))
        BY <1>a, <3>3, <3>4, NextEdit
      <4> QED BY <4>1, <4>2
    <3>6. Do(log, 1, o) = [o EXCEPT ![log[1].key] = Edited(@, log[1], 1)]
      BY <3>4 DEF Do
    <3>7. \A k \in Keys : Do(log, 1, o)[k] = IF k = log[1].key THEN Edited(o[k], log[1], 1) ELSE o[k]
      <4>1. log[1].key \in Keys
        BY <1>0, <2>1 DEF Typed, LogRows
      <4> QED BY <3>6, <4>1 DEF Objects
    <3>8. \A k \in Keys : index'.rows[k].object = Through(log, 0, made, Base)[k]
      BY <2>4, <2>5, <2>7, <3>2, <3>5, <3>7 DEF IndexHas
    <3> QED BY <3>1, <3>8
  <2>8. IndexLevel' /\ FirstEdit'
    <3>1. FirstEdit' /\ \A k \in Keys : index'.rows[k].object = Through(log, 0, made, Base)[k]
      BY <2>2, <2>6, <2>7
    <3> QED BY <1>0, <1>8, <1>15, <2>3, <3>1 DEF IndexLevel, IndexHas
  <2>9. \A b \in Actors : EditingFrame(actor[b])'
    <3>1. ASSUME NEW b \in Actors \ {a} PROVE EditingFrame(actor[b])'
      <4>1. PICK g : g = actor[b]
        OBVIOUS
      <4>2. EditingFrame(g) /\ g.pc # "append"
        BY <1>17, <4>1 DEF EditingInv, EditingFrame
      <4>3. EditingFrame(g)'
        BY <1>0, <1>8, <1>12, <2>3, <4>2, EditingOthers
      <4> QED BY <1>9, <4>1, <4>3 DEF EditingFrame
    <3>2. EditingFrame(f)'
      BY <1>0, <1>7, <1>13, <2>1, <2>3 DEF EditingFrame
    <3>3. EditingFrame(actor[a])'
      BY <1>9, <3>2 DEF EditingFrame
    <3> QED BY <3>1, <3>3
  <2> QED BY <1>0, <1>8, <1>12, <2>3, <2>8, <2>9 DEF EditingInv
<1> QED BY <1>16, <1>17

LEMMA EditingStep ==
    ASSUME EditingInv, StoreInv, IndexTyped, [StoreNext]_vars
    PROVE  EditingInv'
<1>0. Latest \in Nat /\ made \in Nat
  BY StoreFacts
<1>1. CASE UNCHANGED vars
  <2>1. UNCHANGED <<workload, log, versions, index, actor, made>>
    BY <1>1 DEF vars
  <2>2. Latest' = Latest /\ Base' = Base
    BY <2>1 DEF Latest, Base
  <2>3. Recent' = Recent /\ Built' = Built /\ Behind' = Behind /\ FirstEdit' = FirstEdit
    BY <2>1, <2>2 DEF Recent, Built, Behind, FirstEdit
  <2>4. IndexLevel'
    BY <2>1, <2>2, <2>3 DEF IndexLevel, IndexHas, EditingInv
  <2>5. ASSUME NEW b \in Actors PROVE EditingFrame(actor[b])'
    <3>1. EditingFrame(actor[b])
      BY DEF EditingInv
    <3> QED BY <2>1, <2>3, <3>1 DEF EditingFrame
  <2> QED BY <2>1, <2>3, <2>4, <2>5 DEF EditingInv
<1>2. CASE Upload
  <2>1. /\ Latest' = Latest + 1 /\ UNCHANGED <<workload, log, index, made, actor>>
    BY <1>2, VersionStep DEF Upload
  <2>2. ~Recent' /\ Built' /\ Behind' = Behind
    BY <1>0, <2>1 DEF Recent, IndexTyped, Built, EditingInv, Behind
  <2>3. IndexLevel'
    BY <2>1, <2>2 DEF IndexLevel, EditingInv
  <2>4. ASSUME NEW b \in Actors PROVE EditingFrame(actor[b])'
    <3>1. EditingFrame(actor[b])
      BY DEF EditingInv
    <3> QED BY <2>1, <2>2, <3>1 DEF EditingFrame
  <2> QED BY <2>1, <2>2, <2>3, <2>4 DEF EditingInv
<1>3. ASSUME NEW a \in Actors PROVE ~(Publish(a) \/ Mark(a) \/ Prune(a))
  BY DEF Publish, Mark, Prune, EditingInv, EditingFrame
<1>4. ASSUME NEW a \in Actors, Reads(a) PROVE EditingInv'
  <2>1. EditingFrame(actor[a]) /\ ~workload.faults /\ workload.ops \cap {"rebuild", "fold"} = {} /\ Built
    BY DEF EditingInv, EditsAlone
  <2>2. ~(StartRebuild(a) \/ PinBase(a) \/ PinEdits(a) \/ Replace(a) \/ RebuildFails(a) \/ StartFold(a)
            \/ FoldBase(a) \/ FoldEdits(a) \/ StaleBase(a) \/ Abandon(a) \/ CommitFails(a))
    BY <2>1 DEF StartRebuild, PinBase, PinEdits, Replace, RebuildFails, StartFold, Calls,
                FoldBase, FoldEdits, StaleBase, Abandon, CommitFails, EditingFrame
  <2>3. ~Plan(a)
    BY DEF Plan, Prunable, EditingInv
  <2>4. ASSUME NEW f, actor' = [actor EXCEPT ![a] = f], EditingFrame(f),
               UNCHANGED <<workload, log, versions, index, made>>
        PROVE  EditingInv'
    BY <2>4, EditingRead
  <2>5. ASSUME NEW f, f.pc \in {"idle", "scan"} PROVE EditingFrame(f)
    BY <2>5 DEF EditingFrame
  <2>6. CASE ScanBase(a)
    <3>1. PICK f : f = [pc |-> "scan", rows |-> ScanRows, view |-> View, live |-> Live(log)]
      OBVIOUS
    <3>2. f.pc = "scan"
      BY <3>1
    <3>3. EditingFrame(f)
      BY <2>5, <3>2
    <3> QED BY <2>4, <2>6, <3>1, <3>3 DEF ScanBase, Step
  <2>7. CASE ScanEdits(a)
    <3>1. PICK f : f = Idle
      OBVIOUS
    <3>2. f.pc = "idle"
      BY <3>1, RebuildPc
    <3>3. EditingFrame(f)
      BY <2>5, <3>2
    <3> QED BY <2>4, <2>7, <3>1, <3>3 DEF ScanEdits, Step
  <2>8. ASSUME NEW e \in Edits, Act(a, e) PROVE EditingInv'
    <3>1. PICK f : f = [pc |-> "check", edit |-> e]
      OBVIOUS
    <3>2. f.pc = "check" /\ f.edit.kind \in workload.kinds
      BY <3>1 DEF Edits
    <3>3. EditingFrame(f)
      BY <3>2 DEF EditingFrame
    <3> QED BY <2>4, <2>8, <3>1, <3>3 DEF Act, Step
  <2>9. Current => Recent /\ index.applied = made
    <3>1. MaxSeq = made
      BY StoreFacts
    <3>2. Recent => index.applied <= made /\ index.applied \in Nat
      BY IndexIs DEF EditingInv, IndexLevel, Indexes
    <3> QED BY <1>0, <3>1, <3>2 DEF Current, Recent
  <2>10. CASE Check(a)
    <3>1. actor[a].pc = "check" /\ actor[a].edit.kind \in workload.kinds
      BY <2>1, <2>10 DEF Check, EditingFrame
    <3>2. CASE Current
      <4>1. PICK f : f = [pc |-> "commit", edit |-> actor[a].edit]
        OBVIOUS
      <4>2. f.pc = "commit" /\ f.edit = actor[a].edit
        BY <4>1
      <4>3. EditingFrame(f)
        BY <2>9, <3>1, <3>2, <4>2 DEF EditingFrame
      <4> QED BY <2>1, <2>4, <2>10, <3>2, <4>1, <4>3 DEF Check, Step
    <3>3. CASE ~Current
      <4>1. PICK f : f = [pc |-> "catch up", edit |-> actor[a].edit, owed |-> Owed]
        OBVIOUS
      <4>2. f.pc = "catch up" /\ f.edit = actor[a].edit /\ f.owed = Owed
        BY <4>1
      <4>3. DOMAIN Owed \subseteq 1..made
        BY StoreFacts DEF Owed, Pending, Live
      <4>4. ASSUME Recent PROVE Behind /\ DOMAIN Owed = {1} /\ Owed[1] = log[1]
        <5>1. index.applied # made
          BY <1>0, <3>3, <4>4, StoreFacts DEF Current, Recent
        <5>2. Behind /\ index.applied = 0 /\ made = 1 /\ 1 \in DOMAIN log
          BY <4>4, <5>1 DEF EditingInv
        <5>3. DOMAIN log = {1}
          BY <5>2, StoreFacts
        <5>4. Live(log) = {1}
          BY <5>3 DEF Live, EditingInv
        <5>5. Pending = {1}
          BY <4>4, <5>2, <5>4 DEF Pending, Recent
        <5> QED BY <5>2, <5>5 DEF Owed
      <4>5. EditingFrame(f)
        BY <3>1, <4>2, <4>3, <4>4 DEF EditingFrame
      <4> QED BY <2>1, <2>4, <2>10, <3>3, <4>1, <4>5 DEF Check, Step
    <3> QED BY <3>2, <3>3
  <2>11. CASE Recheck(a)
    <3>1. /\ actor[a].pc = "catch up" /\ actor[a].edit.kind \in workload.kinds
          /\ Recent => index.applied = made
      BY <2>1, <2>11 DEF Recheck, EditingFrame
    <3>2. Recent => Current
      <4> SUFFICES ASSUME Recent PROVE Current
        OBVIOUS
      <4>1. index.applied >= MaxSeq
        <5>1. MaxSeq = made /\ index.applied = made
          BY <3>1, StoreFacts
        <5> QED BY <1>0, <5>1
      <4> QED BY <4>1 DEF Current, Recent
    <3>3. PICK f : f = [pc |-> IF Current THEN "commit" ELSE "append", edit |-> actor[a].edit]
      OBVIOUS
    <3>4. f.pc = (IF Current THEN "commit" ELSE "append") /\ f.edit = actor[a].edit
      BY <3>3
    <3>5. EditingFrame(f)
      <4>1. CASE Current
        BY <2>9, <3>1, <3>4, <4>1 DEF EditingFrame
      <4>2. CASE ~Current
        BY <3>1, <3>2, <3>4, <4>2 DEF EditingFrame
      <4> QED BY <4>1, <4>2
    <3> QED BY <2>4, <2>11, <3>3, <3>5 DEF Recheck, Step
  <2> QED BY <1>4, <2>2, <2>3, <2>6, <2>7, <2>8, <2>10, <2>11, EditingCatchesUp DEF Reads
<1> QED BY <1>1, <1>2, <1>3, <1>4, EditingCommits, EditingAppends, StepIs

-----------------------------------------------------------------------------
\* One of these holds, as the mix of calls has it.
MixInv == AloneInv \/ NoEditInv \/ UnindexedInv \/ EditingInv

\* store.py, rules 1 and 2: where calls are made one at a time, where nobody
\* edits, where nothing is indexed and where edits meet edits only, an index
\* that passes for level with the log answers as the log does.
THEOREM IndexAlwaysHonest == StoreSpec => [](HonestMix(workload) => IndexIsHonest)
<1> DEFINE Inv == StoreInv /\ IndexTyped /\ (HonestMix(workload) => MixInv)
<1>1. StoreInit => Inv
  <2> SUFFICES ASSUME StoreInit PROVE Inv
    OBVIOUS
  <2>1. StoreInv /\ IndexTyped
    BY StoreStarts, IndexStarts
  <2>2. HonestMix(workload) => MixInv
    BY <2>1, AloneStarts, NoEditStarts, UnindexedStarts, EditingStarts DEF HonestMix, MixInv, EditsAlone
  <2> QED BY <2>1, <2>2
<1>2. Inv /\ [StoreNext]_vars => Inv'
  <2> SUFFICES ASSUME Inv, [StoreNext]_vars PROVE Inv'
    OBVIOUS
  <2>1. StoreInv' /\ IndexTyped'
    BY StoreStep, IndexStep
  <2>2. UNCHANGED workload
    <3>1. Upload => UNCHANGED workload
      BY DEF Upload
    <3>2. (\E a \in Actors : Publish(a)) => UNCHANGED workload
      BY DEF Publish
    <3> QED BY <3>1, <3>2, StepIs, VersionsKept DEF vars
  <2>3. MixInv => MixInv'
    BY AloneStep, NoEditStep, UnindexedStep, EditingStep DEF MixInv
  <2> QED BY <2>1, <2>2, <2>3 DEF HonestMix, EditsAlone
<1>3. Inv => (HonestMix(workload) => IndexIsHonest)
  <2> SUFFICES ASSUME Inv, MixInv PROVE IndexIsHonest
    OBVIOUS
  <2>1. CASE AloneInv \/ EditingInv
    BY <2>1, LevelIsHonest, HasIsHonest DEF AloneInv, EditingInv
  <2>2. CASE NoEditInv
    BY <2>2, HasIsHonest DEF NoEditInv
  <2>3. CASE UnindexedInv
    BY <2>3 DEF UnindexedInv, IndexIsHonest, Current
  <2> QED BY <2>1, <2>2, <2>3 DEF MixInv
<1> QED BY <1>1, <1>2, <1>3, PTL DEF StoreSpec
=============================================================================
