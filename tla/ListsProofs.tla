---------------------------- MODULE ListsProofs ----------------------------
(***************************************************************************)
(* The lists of list.h for any elements and any number of lists: their     *)
(* links agree in both directions and no macro follows NULL.               *)
(***************************************************************************)
EXTENDS Lists, CListProofs, FiniteSetTheorems, SequenceTheorems, WellFoundedInduction

(***************************************************************************)
(* Walks.  The loops of the macros compute a sequence recursively; what    *)
(* they visit is proved by least counterexample.                           *)
(***************************************************************************)
Less == {p \in Nat \X Nat : p[1] < p[2]}

\* Every set of numbers that is not empty has a least one.
LEMMA LeastOf == \A T \in SUBSET Nat : T # {} => \E x \in T : \A y \in T : x <= y
<1>1. IsWellFoundedOn(Less, Nat)
  BY NatLessThanWellFounded, Zenon DEF OpToRel, Less
<1> SUFFICES ASSUME NEW T \in SUBSET Nat, T # {}
             PROVE  \E x \in T : \A y \in T : x <= y
  OBVIOUS
<1>2. \E x \in T : \A y \in T : <<y, x>> \notin Less
  BY <1>1, WFMin
<1>3. \A x, y \in Nat : <<y, x>> \notin Less => x <= y
  BY DEF Less
<1> QED
  BY <1>2, <1>3

\* The least number is the one Min chooses.
LEMMA MinIs ==
    ASSUME NEW T \in SUBSET Nat, T # {}
    PROVE  Min(T) \in T /\ \A x \in T : Min(T) <= x
BY LeastOf DEF Min

\* g[i] is the link that i steps from first lead to.
Steps(nx, first, n, g) ==
    g = [i \in 0..n |-> IF i = 0 THEN first ELSE Follow(nx, g[i-1])]

\* Links can be followed for any number of steps.
LEMMA StepsExist ==
    ASSUME NEW nx, NEW first, NEW n \in Nat
    PROVE  \E g : Steps(nx, first, n, g)
<1> DEFINE T == {k \in Nat : ~\E g : Steps(nx, first, k, g)}
<1> SUFFICES ASSUME T # {} PROVE FALSE
  OBVIOUS
<1>1. PICK k \in T : \A j \in T : k <= j
  BY LeastOf
<1>2. CASE k = 0
  <2> DEFINE g == [i \in 0..0 |-> first]
  <2>1. Steps(nx, first, 0, g)
    BY DEF Steps
  <2> QED
    BY <1>1, <1>2, <2>1
<1>3. CASE k # 0
  <2>1. k - 1 \in Nat /\ k - 1 \notin T
    BY <1>1, <1>3
  <2>2. PICK g : Steps(nx, first, k - 1, g)
    BY <2>1
  <2> DEFINE h == [i \in 0..k |-> IF i = k THEN Follow(nx, g[k-1]) ELSE g[i]]
  <2>3. \A i \in 0..k : h[i] = IF i = 0 THEN first ELSE Follow(nx, h[i-1])
    <3> SUFFICES ASSUME NEW i \in 0..k
                 PROVE  h[i] = IF i = 0 THEN first ELSE Follow(nx, h[i-1])
      OBVIOUS
    <3>1. CASE i = k
      BY <1>3, <3>1
    <3>2. CASE i # k
      <4>1. i \in 0..(k - 1)
        BY <3>2
      <4>2. g[i] = IF i = 0 THEN first ELSE Follow(nx, g[i-1])
        BY <2>2, <4>1 DEF Steps
      <4> QED
        BY <1>3, <3>2, <4>1, <4>2
    <3> QED
      BY <3>1, <3>2
  <2>4. Steps(nx, first, k, h)
    BY <2>3 DEF Steps
  <2> QED
    BY <1>1, <2>4
<1> QED
  BY <1>2, <1>3

\* A walk is as long as it takes to come to stop.
WalkOf(g, n, stop) ==
    LET ends == {i \in 1..n : g[i] = stop}
    IN  [i \in 1..(IF ends = {} THEN n + 1 ELSE Min(ends)) |-> g[i-1]]

\* Walk is a walk along the links.
LEMMA WalkSteps ==
    ASSUME NEW nx, NEW first, first # NULL, NEW stop, Cardinality(DOMAIN nx) \in Nat
    PROVE  \E g : /\ Steps(nx, first, Cardinality(DOMAIN nx), g)
                  /\ Walk(nx, first, stop) = WalkOf(g, Cardinality(DOMAIN nx), stop)
<1> DEFINE g == CHOOSE g : Steps(nx, first, Cardinality(DOMAIN nx), g)
<1>1. Steps(nx, first, Cardinality(DOMAIN nx), g)
  BY StepsExist
<1>2. Walk(nx, first, stop) = WalkOf(g, Cardinality(DOMAIN nx), stop)
  BY DEF Walk, WalkOf, Steps
<1> QED
  BY <1>1, <1>2

\* What a walk p over the elements S is.
Visits(p, S, nx, first, stop) ==
    /\ p \in Seq(S) /\ Len(p) \in Nat \ {0} /\ DOMAIN p = 1..Len(p)
    /\ p[1] = first /\ nx[p[Len(p)]] = stop
    /\ \A i \in 1..(Len(p) - 1) : p[i + 1] = nx[p[i]]
    /\ \A i \in 1..Len(p) : p[i] \in S
    /\ \A i, j \in 1..Len(p) : i # j => p[i] # p[j]
    /\ \A e \in S : \E i \in 1..Len(p) : p[i] = e

\* A walk visits each element once, in the order of the links.
LEMMA WalkVisits ==
    ASSUME NEW E, IsFiniteSet(E), NULL \notin E, NEW nx \in [E -> E \cup {NULL}],
           NEW S \in SUBSET E, NEW first, NEW stop \in {first, NULL},
           Runs(first, nx, stop, S)
    PROVE  Visits(Walk(nx, first, stop), S, nx, first, stop)
<1> DEFINE n == Cardinality(E)
<1>1. n \in Nat /\ DOMAIN nx = E /\ first \in S /\ first # NULL
  BY FS_CardinalityType DEF Runs
<1>2. PICK g : Steps(nx, first, n, g) /\ Walk(nx, first, stop) = WalkOf(g, n, stop)
  BY <1>1, WalkSteps
<1> HIDE DEF n
<1>3. /\ DOMAIN g = 0..n /\ g[0] = first
      /\ \A i \in 1..n : g[i] = Follow(nx, g[i-1])
  BY <1>1, <1>2 DEF Steps
<1> DEFINE Free(i) == \A j \in 1..i : g[j] # stop
<1>4. \A i \in 0..n : Free(i) => g[i] \in S
  <2> DEFINE T == {i \in 0..n : Free(i) /\ g[i] \notin S}
  <2> SUFFICES ASSUME T # {} PROVE FALSE
    OBVIOUS
  <2>1. PICK i \in T : \A j \in T : i <= j
    <3>1. T \in SUBSET Nat
      BY <1>1
    <3> HIDE DEF T
    <3> QED
      BY <3>1, LeastOf
  <2>2. i \in 1..n
    BY <1>1, <1>3, <2>1
  <2>3. i - 1 \in 0..n /\ Free(i - 1) /\ i - 1 \notin T
    BY <1>1, <2>1, <2>2
  <2>4. g[i-1] \in S /\ g[i] = nx[g[i-1]] /\ g[i] # stop
    BY <1>3, <2>1, <2>2, <2>3 DEF Follow
  <2> QED
    BY <2>1, <2>4 DEF Runs
<1>5. \A i \in 1..n : Free(i - 1) => g[i - 1] \in S /\ g[i] = nx[g[i - 1]]
  <2> SUFFICES ASSUME NEW i \in 1..n, Free(i - 1) PROVE g[i - 1] \in S /\ g[i] = nx[g[i - 1]]
    OBVIOUS
  <2>1. g[i - 1] \in S
    BY <1>1, <1>4
  <2> QED
    BY <1>3, <2>1 DEF Follow
<1>6. \A i, j \in 0..n : i < j /\ Free(j) => g[i] # g[j]
  <2> DEFINE T == {i \in 0..n : \E j \in 0..n : i < j /\ Free(j) /\ g[i] = g[j]}
  <2> SUFFICES ASSUME T # {} PROVE FALSE
    OBVIOUS
  <2>1. PICK i \in T : \A j \in T : i <= j
    <3>1. T \in SUBSET Nat
      BY <1>1
    <3> HIDE DEF T
    <3> QED
      BY <3>1, LeastOf
  <2>2. PICK j \in 0..n : i < j /\ Free(j) /\ g[i] = g[j]
    BY <2>1
  <2>3. j \in 1..n /\ Free(j - 1) /\ g[j] # stop /\ j - 1 \in 0..n
    BY <1>1, <2>1, <2>2
  <2>4. g[j - 1] \in S /\ g[j] = nx[g[j - 1]]
    BY <1>5, <2>3
  <2>5. g[j] # first
    BY <2>3, <2>4 DEF Runs
  <2>6. i \in 1..n /\ Free(i - 1) /\ i - 1 \in 0..n /\ i - 1 < j - 1
    BY <1>1, <1>3, <2>1, <2>2, <2>5
  <2>7. g[i - 1] \in S /\ g[i] = nx[g[i - 1]]
    BY <1>5, <2>6
  <2>8. g[i - 1] = g[j - 1]
    BY <2>2, <2>4, <2>7 DEF Runs
  <2>9. i - 1 \in T
    BY <2>3, <2>6, <2>8
  <2> QED
    BY <2>1, <2>6, <2>9
<1> DEFINE ends == {i \in 1..n : g[i] = stop}
<1>7. ends # {}
  <2> SUFFICES ASSUME ends = {} PROVE FALSE
    OBVIOUS
  <2>1. \A i \in 0..n : Free(i)
    BY <1>1
  <2>2. g \in [0..n -> S]
    <3>1. g = [i \in 0..n |-> g[i]]
      BY <1>2 DEF Steps
    <3> QED
      BY <1>4, <2>1, <3>1
  <2>3. IsFiniteSet(S) /\ Cardinality(S) <= n
    BY FS_Subset DEF n
  <2>4. IsFiniteSet(0..n) /\ Cardinality(0..n) = n + 1
    <3>1. 0 \in Int /\ n \in Int /\ ~(0 > n) /\ n - 0 + 1 = n + 1
      BY <1>1
    <3> QED
      BY <3>1, FS_Interval
  <2>5. Cardinality(S) \in Nat /\ Cardinality(S) < Cardinality(0..n)
    BY <1>1, <2>3, <2>4, FS_CardinalityType
  <2> DEFINE D == 0..n
  <2>6. g \in [D -> S] /\ IsFiniteSet(D) /\ Cardinality(S) < Cardinality(D)
    BY <2>2, <2>4, <2>5
  <2> HIDE DEF D
  <2>9. \E x, y \in D : x # y /\ g[x] = g[y]
    BY <2>3, <2>6, FS_PigeonHole
  <2>7. PICK x \in 0..n, y \in 0..n : x # y /\ g[x] = g[y]
    BY <2>9 DEF D
  <2>8. x < y \/ y < x
    BY <1>1, <2>7
  <2> QED
    BY <1>6, <2>1, <2>7, <2>8
<1> DEFINE k == Min(ends)
<1>8. k \in 1..n /\ g[k] = stop /\ Free(k - 1)
  <2>1. ends \in SUBSET Nat
    BY <1>1
  <2>2. k \in ends /\ \A i \in ends : k <= i
    BY <1>7, <2>1, MinIs
  <2>3. ASSUME NEW j \in 1..(k - 1) PROVE g[j] # stop
    <3>1. j \in 1..n /\ ~(k <= j)
      BY <1>1, <2>2
    <3> QED
      BY <2>2, <3>1
  <2> QED
    BY <2>2, <2>3
<1> DEFINE p == Walk(nx, first, stop)
<1>9. p = [i \in 1..k |-> g[i - 1]]
  BY <1>2, <1>7 DEF WalkOf
<1> HIDE DEF p, k, ends
<1>10. \A i \in 1..k : i - 1 \in 0..n /\ Free(i - 1)
  BY <1>1, <1>8
<1>11. /\ DOMAIN p = 1..k /\ p[1] = first
       /\ \A i \in 1..k : p[i] = g[i - 1] /\ p[i] \in S
  <2>1. \A i \in 1..k : p[i] = g[i - 1] /\ g[i - 1] \in S
    BY <1>4, <1>9, <1>10
  <2>2. 1 \in 1..k /\ 1 - 1 = 0
    BY <1>1, <1>8
  <2> QED
    BY <1>3, <1>9, <2>1, <2>2
<1>12. nx[p[k]] = stop
  BY <1>1, <1>5, <1>8, <1>11
<1>13. \A i \in 1..(k - 1) : p[i + 1] = nx[p[i]]
  <2> SUFFICES ASSUME NEW i \in 1..(k - 1) PROVE p[i + 1] = nx[p[i]]
    OBVIOUS
  <2>1. i \in 1..k /\ i + 1 \in 1..k /\ (i + 1) - 1 = i /\ i \in 1..n
    BY <1>1, <1>8
  <2> QED
    BY <1>5, <1>10, <1>11, <2>1
<1>14. \A i, j \in 1..k : i < j => p[i] # p[j]
  <2> SUFFICES ASSUME NEW i \in 1..k, NEW j \in 1..k, i < j PROVE p[i] # p[j]
    OBVIOUS
  <2>1. i - 1 < j - 1
    BY <1>1, <1>8
  <2> QED
    BY <1>6, <1>10, <1>11, <2>1
<1>15. {p[i] : i \in 1..k} = S
  <2> DEFINE R == {p[i] : i \in 1..k}
  <2>1. R \in SUBSET S /\ first \in R
    BY <1>1, <1>8, <1>11
  <2>2. \A e \in R : nx[e] \in R \cup {stop}
    <3> SUFFICES ASSUME NEW i \in 1..k PROVE nx[p[i]] \in R \cup {stop}
      OBVIOUS
    <3>1. CASE i = k
      BY <1>12, <3>1
    <3>2. CASE i # k
      <4>1. i \in 1..(k - 1) /\ i + 1 \in 1..k
        BY <1>1, <1>8, <3>2
      <4> QED
        BY <1>13, <4>1
    <3> QED
      BY <3>1, <3>2
  <2> QED
    BY <2>1, <2>2 DEF Runs
<1> QED
  <2>1. k \in Nat \ {0}
    BY <1>1, <1>8
  <2>2. \A e \in S : \E i \in 1..k : p[i] = e
    BY <1>15
  <2>3. p \in Seq(S) /\ Len(p) = k /\ DOMAIN p = 1..k
    <3>1. p \in [1..k -> S]
      BY <1>9, <1>11
    <3> QED
      BY <2>1, <3>1
  <2>4. \A i, j \in 1..k : i # j => p[i] # p[j]
    <3>1. \A i, j \in 1..k : i # j => i < j \/ j < i
      OBVIOUS
    <3> QED
      BY <1>14, <3>1
  <2>5. \A i \in 1..k : p[i] \in S
    BY <1>11
  <2>6. Visits(p, S, nx, first, stop)
    BY <1>11, <1>12, <1>13, <2>1, <2>2, <2>3, <2>4, <2>5 DEF Visits
  <2> QED
    BY <2>6 DEF p

(***************************************************************************)
(* Sequences, and the walks that see an element more or less.              *)
(***************************************************************************)
\* What InsertAt and RemoveAt do, position by position.
LEMMA InsertAtIs ==
    ASSUME NEW T, NEW s \in Seq(T), NEW i \in 1..(Len(s) + 1), NEW e \in T
    PROVE  /\ InsertAt(s, i, e) \in Seq(T) /\ Len(InsertAt(s, i, e)) = Len(s) + 1
           /\ \A j \in 1..(Len(s) + 1) :
                 InsertAt(s, i, e)[j] = IF j < i THEN s[j] ELSE IF j = i THEN e ELSE s[j - 1]
<1> DEFINE a == SubSeq(s, 1, i-1)
           b == SubSeq(s, i, Len(s))
           c == a \o <<e>>
           d == c \o b
           n == Len(s)
<1>1. n \in Nat /\ i \in 1..(n+1)
  BY LenProperties
<1>2. a \in Seq(T) /\ Len(a) = i - 1 /\ \A j \in 1..(i-1) : a[j] = s[j]
  OBVIOUS
<1>3. b \in Seq(T) /\ Len(b) = n - i + 1 /\ \A j \in 1..(n - i + 1) : b[j] = s[j + i - 1]
  OBVIOUS
<1> HIDE DEF a, b, n
<1>4. c \in Seq(T) /\ Len(c) = i /\ c[i] = e /\ \A j \in 1..(i-1) : c[j] = s[j]
  BY <1>2
<1> HIDE DEF c
<1>5. /\ d \in Seq(T) /\ Len(d) = Len(c) + Len(b)
      /\ \A j \in 1..(Len(c) + Len(b)) : d[j] = IF j <= Len(c) THEN c[j] ELSE b[j - Len(c)]
  BY <1>3, <1>4, ConcatProperties
<1> HIDE DEF d
<1>6. Len(d) = n + 1
  BY <1>1, <1>3, <1>4, <1>5
<1>7. \A j \in 1..(n+1) : d[j] = IF j < i THEN s[j] ELSE IF j = i THEN e ELSE s[j - 1]
  <2> SUFFICES ASSUME NEW j \in 1..(n+1)
               PROVE  d[j] = IF j < i THEN s[j] ELSE IF j = i THEN e ELSE s[j - 1]
    OBVIOUS
  <2>1. d[j] = IF j <= i THEN c[j] ELSE b[j - i]
    BY <1>1, <1>3, <1>4, <1>5, <1>6
  <2>2. CASE j <= i
    BY <1>1, <1>4, <2>1, <2>2
  <2>3. CASE j > i
    <3>1. j - i \in 1..(n - i + 1) /\ (j - i) + i - 1 = j - 1
      BY <1>1, <2>3
    <3> QED
      BY <1>1, <1>3, <2>1, <2>3, <3>1
  <2> QED
    BY <1>1, <2>2, <2>3
<1> QED
  BY <1>5, <1>6, <1>7 DEF InsertAt, a, b, c, d, n

\* The same of taking an element out.
LEMMA RemoveAtIs ==
    ASSUME NEW T, NEW s \in Seq(T), NEW i \in 1..Len(s)
    PROVE  /\ RemoveAt(s, i) \in Seq(T) /\ Len(RemoveAt(s, i)) = Len(s) - 1
           /\ \A j \in 1..(Len(s) - 1) : RemoveAt(s, i)[j] = IF j < i THEN s[j] ELSE s[j + 1]
<1> DEFINE a == SubSeq(s, 1, i-1)
           b == SubSeq(s, i+1, Len(s))
           d == a \o b
           n == Len(s)
<1>1. n \in Nat /\ i \in 1..n
  BY LenProperties
<1>2. a \in Seq(T) /\ Len(a) = i - 1 /\ \A j \in 1..(i-1) : a[j] = s[j]
  OBVIOUS
<1>3. b \in Seq(T) /\ Len(b) = n - i /\ \A j \in 1..(n - i) : b[j] = s[j + i]
  OBVIOUS
<1> HIDE DEF a, b, n
<1>4. /\ d \in Seq(T) /\ Len(d) = Len(a) + Len(b)
      /\ \A j \in 1..(Len(a) + Len(b)) : d[j] = IF j <= Len(a) THEN a[j] ELSE b[j - Len(a)]
  BY <1>2, <1>3, ConcatProperties
<1> HIDE DEF d
<1>5. Len(d) = n - 1
  BY <1>1, <1>2, <1>3, <1>4
<1>6. \A j \in 1..(n-1) : d[j] = IF j < i THEN s[j] ELSE s[j + 1]
  <2> SUFFICES ASSUME NEW j \in 1..(n-1) PROVE d[j] = IF j < i THEN s[j] ELSE s[j + 1]
    OBVIOUS
  <2>1. d[j] = IF j <= i - 1 THEN a[j] ELSE b[j - (i - 1)]
    BY <1>1, <1>2, <1>3, <1>4, <1>5
  <2>2. CASE j < i
    BY <1>1, <1>2, <2>1, <2>2
  <2>3. CASE ~(j < i)
    <3>1. j - (i - 1) \in 1..(n - i) /\ (j - (i - 1)) + i = j + 1
      BY <1>1, <2>3
    <3> QED
      BY <1>1, <1>3, <2>1, <2>3, <3>1
  <2> QED
    BY <1>1, <2>2, <2>3
<1> QED
  BY <1>4, <1>5, <1>6 DEF RemoveAt, a, b, d, n

\* Two walks along the same links: none goes on where the other stops.
LEMMA NotLonger ==
    ASSUME NEW S, NULL \notin S, NEW nx, NEW first, NEW stop \in {first, NULL},
           NEW p, Visits(p, S, nx, first, stop), NEW q, Visits(q, S, nx, first, stop),
           \A i \in (1..Len(p)) \cap (1..Len(q)) : p[i] = q[i]
    PROVE  ~(Len(p) < Len(q))
<1> SUFFICES ASSUME Len(p) < Len(q) PROVE FALSE
  OBVIOUS
<1>0. Len(p) \in Nat \ {0} /\ nx[p[Len(p)]] = stop
  BY DEF Visits
<1>9. /\ Len(q) \in Nat \ {0} /\ q[1] = first
      /\ \A i \in 1..(Len(q) - 1) : q[i + 1] = nx[q[i]]
      /\ \A i \in 1..Len(q) : q[i] \in S
  <2>1. Visits(q, S, nx, first, stop)
    OBVIOUS
  <2> QED
    BY <2>1 DEF Visits
<1>8. \A i, j \in 1..Len(q) : i # j => q[i] # q[j]
  <2> SUFFICES ASSUME NEW i \in 1..Len(q), NEW j \in 1..Len(q), i # j PROVE q[i] # q[j]
    OBVIOUS
  <2>1. Visits(q, S, nx, first, stop)
    OBVIOUS
  <2> QED
    BY <2>1 DEF Visits
<1> DEFINE a == Len(p)
           b == Len(q)
<1>1. a \in Nat \ {0} /\ nx[p[a]] = stop
  BY <1>0
<1>2. /\ b \in Nat \ {0} /\ q[1] = first
      /\ \A i \in 1..(b - 1) : q[i + 1] = nx[q[i]]
      /\ \A i \in 1..b : q[i] \in S
      /\ \A i, j \in 1..b : i # j => q[i] # q[j]
  BY <1>8, <1>9
<1>3. a < b /\ \A i \in (1..a) \cap (1..b) : p[i] = q[i]
  OBVIOUS
<1> HIDE DEF a, b
<1>4. a \in 1..(b - 1) /\ a \in 1..b /\ a + 1 \in 1..b /\ 1 \in 1..b /\ a + 1 # 1 /\ a \in 1..a
  BY <1>1, <1>2, <1>3
<1>5. q[a + 1] = stop /\ q[a + 1] \in S /\ q[a + 1] # q[1]
  BY <1>1, <1>2, <1>3, <1>4
<1> QED
  BY <1>2, <1>5

\* Any walk along the links is the one that the loops make.
LEMMA WalkIs ==
    ASSUME NEW E, IsFiniteSet(E), NULL \notin E, NEW nx \in [E -> E \cup {NULL}],
           NEW S \in SUBSET E, NEW first, NEW stop \in {first, NULL},
           Runs(first, nx, stop, S), NEW p, Visits(p, S, nx, first, stop)
    PROVE  Walk(nx, first, stop) = p
<1> DEFINE q == Walk(nx, first, stop)
<1>1. Visits(q, S, nx, first, stop)
  BY WalkVisits
<1> HIDE DEF q
<1>2. /\ p \in Seq(S) /\ Len(p) \in Nat \ {0} /\ p[1] = first
      /\ \A i \in 1..(Len(p) - 1) : p[i + 1] = nx[p[i]]
  BY DEF Visits
<1>3. /\ q \in Seq(S) /\ Len(q) \in Nat \ {0} /\ q[1] = first
      /\ \A i \in 1..(Len(q) - 1) : q[i + 1] = nx[q[i]]
  <2>1. q \in Seq(S) /\ Len(q) \in Nat \ {0} /\ q[1] = first
    BY <1>1 DEF Visits
  <2>2. \A i \in 1..(Len(q) - 1) : q[i + 1] = nx[q[i]]
    <3> SUFFICES ASSUME NEW i \in 1..(Len(q) - 1) PROVE q[i + 1] = nx[q[i]]
      OBVIOUS
    <3> QED
      BY <1>1 DEF Visits
  <2> QED
    BY <2>1, <2>2
<1>4. \A i \in (1..Len(p)) \cap (1..Len(q)) : p[i] = q[i]
  <2> DEFINE T == {i \in (1..Len(p)) \cap (1..Len(q)) : p[i] # q[i]}
  <2> SUFFICES ASSUME T # {} PROVE FALSE
    OBVIOUS
  <2>1. PICK i \in T : \A j \in T : i <= j
    <3>1. T \in SUBSET Nat
      BY <1>2, <1>3
    <3> HIDE DEF T
    <3> QED
      BY <3>1, LeastOf
  <2>2. i # 1 /\ i \in 1..Len(p) /\ i \in 1..Len(q) /\ p[i] # q[i]
    BY <1>2, <1>3, <2>1
  <2>3. i - 1 \in 1..(Len(p) - 1) /\ i - 1 \in 1..(Len(q) - 1) /\ (i - 1) + 1 = i
    BY <1>2, <1>3, <2>2
  <2>4. p[i] = nx[p[i - 1]] /\ q[i] = nx[q[i - 1]]
    BY <1>2, <1>3, <2>3
  <2>5. i - 1 \in T
    BY <1>2, <1>3, <2>2, <2>3, <2>4
  <2> QED
    BY <1>2, <1>3, <2>1, <2>2, <2>5
<1>5. ~(Len(p) < Len(q)) /\ ~(Len(q) < Len(p))
  <2>1. NULL \notin S
    OBVIOUS
  <2>2. ~(Len(p) < Len(q))
    BY <1>1, <1>4, <2>1, NotLonger
  <2>3. ~(Len(q) < Len(p))
    BY <1>1, <1>4, <2>1, NotLonger
  <2> QED
    BY <2>2, <2>3
<1>6. Len(p) = Len(q)
  BY <1>2, <1>3, <1>5
<1>7. p = q
  BY <1>2, <1>3, <1>4, <1>6, SeqEqual
<1> QED
  BY <1>7 DEF q

\* A walk that sees a new element before its place i.
LEMMA InsertedVisits ==
    ASSUME NEW S, NEW nx, NEW first, NEW stop, NEW p, Visits(p, S, nx, first, stop),
           NEW el, el \notin S, NEW i \in 1..(Len(p) + 1), NEW nx2, NEW stop2,
           nx2[el] = IF i = Len(p) + 1 THEN stop2 ELSE p[i],
           \A j \in 1..Len(p) : nx2[p[j]] = IF j = i - 1 THEN el
                                            ELSE IF j = Len(p) THEN stop2 ELSE p[j + 1]
    PROVE  Visits(InsertAt(p, i, el), S \cup {el}, nx2, IF i = 1 THEN el ELSE first, stop2)
<1> DEFINE q == InsertAt(p, i, el)
           U == S \cup {el}
           n == Len(p)
<1>1. /\ p \in Seq(U) /\ n \in Nat \ {0} /\ p[1] = first
      /\ \A j \in 1..n : p[j] \in S
      /\ \A j, k \in 1..n : j # k => p[j] # p[k]
      /\ \A e \in S : \E j \in 1..n : p[j] = e
  <2>1. p \in Seq(S) /\ S \in SUBSET U
    BY DEF Visits
  <2>2. p \in Seq(U)
    <3> HIDE DEF U
    <3> QED
      BY <2>1
  <2> QED
    BY <2>2 DEF Visits
<1>2. el \in U
  OBVIOUS
<1>3. /\ q \in Seq(U) /\ Len(q) = n + 1
      /\ \A j \in 1..(n + 1) : q[j] = IF j < i THEN p[j] ELSE IF j = i THEN el ELSE p[j - 1]
  <2> HIDE DEF U
  <2> QED
    BY <1>1, <1>2, InsertAtIs
<1>4. /\ i \in 1..(n + 1)
      /\ nx2[el] = IF i = n + 1 THEN stop2 ELSE p[i]
      /\ \A j \in 1..n : nx2[p[j]] = IF j = i - 1 THEN el
                                     ELSE IF j = n THEN stop2 ELSE p[j + 1]
  OBVIOUS
<1>5. DOMAIN q = 1..Len(q)
  BY <1>3
<1> HIDE DEF q, n
<1>6. q[1] = IF i = 1 THEN el ELSE first
  BY <1>1, <1>3, <1>4
<1>7. nx2[q[n + 1]] = stop2
  BY <1>1, <1>3, <1>4
<1>8. ASSUME NEW j \in 1..n PROVE q[j + 1] = nx2[q[j]]
  <2>1. CASE j < i - 1
    <3>1. j + 1 < i /\ j < i /\ j # n /\ j # i - 1 /\ j \in 1..(n + 1) /\ j + 1 \in 1..(n + 1)
      BY <1>1, <1>4, <2>1
    <3>2. q[j] = p[j] /\ q[j + 1] = p[j + 1]
      BY <1>3, <3>1
    <3> QED
      BY <1>4, <3>1, <3>2
  <2>2. CASE j = i - 1
    BY <1>1, <1>3, <1>4, <2>2
  <2>3. CASE j = i
    BY <1>1, <1>3, <1>4, <2>3
  <2>4. CASE j > i
    <3>1. q[j] = p[j - 1] /\ q[j + 1] = p[j] /\ j - 1 \in 1..n /\ (j - 1) + 1 = j
      BY <1>1, <1>3, <1>4, <2>4
    <3> QED
      BY <1>1, <1>4, <2>4, <3>1
  <2> QED
    BY <1>1, <1>4, <2>1, <2>2, <2>3, <2>4
<1>9. \A j \in 1..(n + 1) : q[j] \in U
  BY <1>1, <1>3, <1>4
<1>10. ASSUME NEW j \in 1..(n + 1), NEW k \in 1..(n + 1), j # k PROVE q[j] # q[k]
  <2> DEFINE at(x) == IF x < i THEN x ELSE x - 1
  <2>1. CASE j = i \/ k = i
    BY <1>1, <1>3, <1>4, <1>10, <2>1
  <2>2. CASE j # i /\ k # i
    <3>1. /\ at(j) \in 1..n /\ at(k) \in 1..n /\ at(j) # at(k)
          /\ q[j] = p[at(j)] /\ q[k] = p[at(k)]
      BY <1>1, <1>3, <1>4, <1>10, <2>2
    <3> QED
      BY <1>1, <3>1
  <2> QED
    BY <2>1, <2>2
<1>11. ASSUME NEW e \in U PROVE \E j \in 1..(n + 1) : q[j] = e
  <2>1. CASE e = el
    BY <1>3, <1>4, <2>1
  <2>2. CASE e # el
    <3>1. PICK j \in 1..n : p[j] = e
      BY <1>1, <2>2
    <3>2. CASE j < i
      <4>1. j \in 1..(n + 1)
        BY <1>1
      <4> QED
        BY <1>3, <3>1, <3>2, <4>1
    <3>3. CASE ~(j < i)
      <4>1. j + 1 \in 1..(n + 1) /\ ~(j + 1 < i) /\ j + 1 # i /\ (j + 1) - 1 = j
        BY <1>1, <1>4, <3>3
      <4> QED
        BY <1>3, <3>1, <4>1
    <3> QED
      BY <3>2, <3>3
  <2> QED
    BY <2>1, <2>2
<1>12. Len(q) = n + 1 /\ n + 1 \in Nat \ {0} /\ (n + 1) - 1 = n
  <2>1. Len(q) = n + 1
    BY ONLY <1>3, Zenon
  <2>2. n \in Nat
    BY ONLY <1>1
  <2> QED
    BY ONLY <2>1, <2>2
<1>13. Visits(q, U, nx2, IF i = 1 THEN el ELSE first, stop2)
  BY <1>3, <1>5, <1>6, <1>7, <1>8, <1>9, <1>10, <1>11, <1>12 DEF Visits
<1> QED
  BY <1>13 DEF q

\* A walk that does not see the element at its place i any more.
LEMMA RemovedVisits ==
    ASSUME NEW S, NEW nx, NEW first, NEW stop, NEW p, Visits(p, S, nx, first, stop),
           NEW i \in 1..Len(p), Len(p) > 1, NEW nx2, NEW stop2,
           \A j \in 1..Len(p) \ {i} :
              nx2[p[j]] = IF j = i - 1 THEN IF i = Len(p) THEN stop2 ELSE p[i + 1]
                          ELSE IF j = Len(p) THEN stop2 ELSE p[j + 1]
    PROVE  Visits(RemoveAt(p, i), S \ {p[i]}, nx2, IF i = 1 THEN p[2] ELSE first, stop2)
<1> DEFINE q == RemoveAt(p, i)
           el == p[i]
           U == S \ {el}
           n == Len(p)
<1>1. /\ p \in Seq(S) /\ n \in Nat \ {0} /\ p[1] = first
      /\ \A j \in 1..n : p[j] \in S
      /\ \A j, k \in 1..n : j # k => p[j] # p[k]
      /\ \A e \in S : \E j \in 1..n : p[j] = e
  BY DEF Visits
<1>2. /\ q \in Seq(S) /\ Len(q) = n - 1
      /\ \A j \in 1..(n - 1) : q[j] = IF j < i THEN p[j] ELSE p[j + 1]
  BY <1>1, RemoveAtIs
<1>3. /\ i \in 1..n /\ n > 1
      /\ \A j \in 1..n \ {i} :
            nx2[p[j]] = IF j = i - 1 THEN IF i = n THEN stop2 ELSE p[i + 1]
                        ELSE IF j = n THEN stop2 ELSE p[j + 1]
  OBVIOUS
<1>4. DOMAIN q = 1..Len(q)
  BY <1>2
<1> HIDE DEF q, n
<1> DEFINE at(x) == IF x < i THEN x ELSE x + 1
<1>5. \A j \in 1..(n - 1) : at(j) \in 1..n \ {i} /\ q[j] = p[at(j)] /\ q[j] \in U
  <2> SUFFICES ASSUME NEW j \in 1..(n - 1)
               PROVE  at(j) \in 1..n \ {i} /\ q[j] = p[at(j)] /\ q[j] \in U
    OBVIOUS
  <2>1. at(j) \in 1..n \ {i} /\ q[j] = p[at(j)]
    BY <1>1, <1>2, <1>3
  <2> HIDE DEF at
  <2> QED
    BY <1>1, <1>3, <2>1
<1>6. q[1] = IF i = 1 THEN p[2] ELSE first
  BY <1>1, <1>2, <1>3
<1>7. nx2[q[n - 1]] = stop2
  <2>1. CASE i = n
    <3>1. n - 1 \in 1..(n - 1) /\ n - 1 < i /\ n - 1 \in 1..n \ {i} /\ n - 1 = i - 1
      BY <1>1, <1>3, <2>1
    <3> QED
      BY <1>2, <1>3, <2>1, <3>1
  <2>2. CASE i # n
    <3>1. n - 1 \in 1..(n - 1) /\ ~(n - 1 < i) /\ n \in 1..n \ {i} /\ (n - 1) + 1 = n /\ n # i - 1
      BY <1>1, <1>3, <2>2
    <3> QED
      BY <1>2, <1>3, <3>1
  <2> QED
    BY <2>1, <2>2
<1>8. ASSUME NEW j \in 1..(n - 2) PROVE q[j + 1] = nx2[q[j]]
  <2>0. j \in 1..(n - 1) /\ j + 1 \in 1..(n - 1)
    BY <1>1, <1>3
  <2>1. CASE j < i - 1
    <3>1. j < i /\ j + 1 < i /\ j \in 1..n \ {i} /\ j # i - 1 /\ j # n
      BY <1>1, <1>3, <2>1
    <3>2. q[j] = p[j] /\ q[j + 1] = p[j + 1]
      BY <1>2, <2>0, <3>1
    <3> QED
      BY <1>3, <3>1, <3>2
  <2>2. CASE j = i - 1
    <3>1. q[j] = p[j] /\ q[j + 1] = p[i + 1] /\ j \in 1..n \ {i} /\ i # n
      BY <1>1, <1>2, <1>3, <2>0, <2>2
    <3> QED
      BY <1>3, <2>2, <3>1
  <2>3. CASE j >= i
    <3>1. /\ q[j] = p[j + 1] /\ q[j + 1] = p[(j + 1) + 1] /\ j + 1 \in 1..n \ {i}
          /\ j + 1 # i - 1 /\ j + 1 # n
      BY <1>1, <1>2, <1>3, <2>0, <2>3
    <3> QED
      BY <1>3, <3>1
  <2> QED
    BY <1>1, <1>3, <2>1, <2>2, <2>3
<1>9. ASSUME NEW j \in 1..(n - 1), NEW k \in 1..(n - 1), j # k PROVE q[j] # q[k]
  <2>1. at(j) # at(k)
    BY <1>3, <1>9
  <2> HIDE DEF at
  <2> QED
    BY <1>1, <1>5, <2>1
<1>10. ASSUME NEW e \in U PROVE \E j \in 1..(n - 1) : q[j] = e
  <2>1. PICK j \in 1..n : p[j] = e
    BY <1>1
  <2>2. j # i
    BY <2>1
  <2>3. CASE j < i
    <3>1. j \in 1..(n - 1)
      BY <1>1, <1>3, <2>3
    <3> QED
      BY <1>2, <2>1, <2>3, <3>1
  <2>4. CASE j > i
    <3>1. j - 1 \in 1..(n - 1) /\ ~(j - 1 < i) /\ (j - 1) + 1 = j
      BY <1>1, <1>3, <2>4
    <3> QED
      BY <1>2, <2>1, <3>1
  <2> QED
    BY <1>1, <1>3, <2>2, <2>3, <2>4
<1>11. Len(q) \in Nat \ {0} /\ Len(q) = n - 1 /\ Len(q) - 1 = n - 2
  BY <1>1, <1>2, <1>3
<1>12. \A j \in 1..(n - 1) : q[j] \in U
  BY <1>5
<1>13. q \in Seq(U)
  BY <1>2, <1>4, <1>11, <1>12
<1>14. Visits(q, U, nx2, IF i = 1 THEN p[2] ELSE first, stop2)
  BY <1>4, <1>6, <1>7, <1>8, <1>9, <1>10, <1>11, <1>12, <1>13 DEF Visits
<1> QED
  BY <1>14 DEF q

\* A new element behind the one at place i - 1, which takes over its link.
LEMMA LinkedBehind ==
    ASSUME NEW S, NEW nx, NEW first, NEW stop, NEW p, Visits(p, S, nx, first, stop),
           NEW el, el \notin S, NEW i \in 2..(Len(p) + 1), NEW nx2,
           nx2[p[i - 1]] = el, nx2[el] = nx[p[i - 1]],
           \A e \in S \ {p[i - 1]} : nx2[e] = nx[e]
    PROVE  Visits(InsertAt(p, i, el), S \cup {el}, nx2, first, stop)
<1>1. /\ Len(p) \in Nat \ {0} /\ nx[p[Len(p)]] = stop
      /\ \A j \in 1..(Len(p) - 1) : p[j + 1] = nx[p[j]]
      /\ \A j \in 1..Len(p) : p[j] \in S
      /\ \A j, k \in 1..Len(p) : j # k => p[j] # p[k]
  BY DEF Visits
<1> DEFINE n == Len(p)
<1>2. i \in 1..(n + 1) /\ i # 1 /\ i - 1 \in 1..n
  BY <1>1
<1>3. nx2[el] = IF i = n + 1 THEN stop ELSE p[i]
  <2>1. CASE i = n + 1
    BY <1>1, <2>1
  <2>2. CASE i # n + 1
    <3>1. i - 1 \in 1..(n - 1) /\ (i - 1) + 1 = i
      BY <1>1, <1>2, <2>2
    <3> QED
      BY <1>1, <2>2, <3>1
  <2> QED
    BY <2>1, <2>2
<1>4. ASSUME NEW j \in 1..n
      PROVE  nx2[p[j]] = IF j = i - 1 THEN el ELSE IF j = n THEN stop ELSE p[j + 1]
  <2>1. CASE j = i - 1
    BY <2>1
  <2>2. CASE j # i - 1
    <3>1. p[j] \in S \ {p[i - 1]}
      BY <1>1, <1>2, <2>2
    <3>2. nx2[p[j]] = nx[p[j]]
      BY <3>1
    <3>3. j # n => j \in 1..(n - 1)
      BY <1>1
    <3> QED
      BY <1>1, <2>2, <3>2, <3>3
  <2> QED
    BY <2>1, <2>2
<1> HIDE DEF n
<1>5. Visits(InsertAt(p, i, el), S \cup {el}, nx2, IF i = 1 THEN el ELSE first, stop)
  BY <1>2, <1>3, <1>4, InsertedVisits DEF n
<1> QED
  BY <1>2, <1>5

\* A new element in front of all, to which a circular list then comes back.
LEMMA LinkedInFront ==
    ASSUME NEW S, NEW nx, NEW first, NEW stop, NEW p, Visits(p, S, nx, first, stop),
           NEW el, el \notin S, NEW nx2, nx2[el] = first, NEW stop2,
           nx2[p[Len(p)]] = stop2,
           \A e \in S \ {p[Len(p)]} : nx2[e] = nx[e]
    PROVE  Visits(InsertAt(p, 1, el), S \cup {el}, nx2, el, stop2)
<1>1. /\ Len(p) \in Nat \ {0} /\ p[1] = first
      /\ \A j \in 1..(Len(p) - 1) : p[j + 1] = nx[p[j]]
      /\ \A j \in 1..Len(p) : p[j] \in S
      /\ \A j, k \in 1..Len(p) : j # k => p[j] # p[k]
  BY DEF Visits
<1> DEFINE n == Len(p)
           i == 1
<1>2. i \in 1..(n + 1) /\ i = 1 /\ i # n + 1 /\ n \in 1..n
  BY <1>1
<1>3. nx2[el] = IF i = n + 1 THEN stop2 ELSE p[i]
  BY <1>1, <1>2
<1>4. ASSUME NEW j \in 1..n
      PROVE  nx2[p[j]] = IF j = i - 1 THEN el ELSE IF j = n THEN stop2 ELSE p[j + 1]
  <2>1. CASE j = n
    BY <1>1, <2>1
  <2>2. CASE j # n
    <3>1. p[j] \in S \ {p[n]} /\ j \in 1..(n - 1) /\ j # i - 1
      BY <1>1, <1>2, <2>2
    <3> QED
      BY <1>1, <2>2, <3>1
  <2> QED
    BY <2>1, <2>2
<1> HIDE DEF n, i
<1>5. Visits(InsertAt(p, i, el), S \cup {el}, nx2, IF i = 1 THEN el ELSE first, stop2)
  BY <1>2, <1>3, <1>4, InsertedVisits DEF n
<1> QED
  BY <1>2, <1>5

\* The first element of a list.
LEMMA LinkedAlone ==
    ASSUME NEW el, NEW nx2, NEW stop2, nx2[el] = stop2
    PROVE  Visits(InsertAt(<<>>, 1, el), {el}, nx2, el, stop2)
<1> DEFINE none == <<>>
           U == {el}
           i == 1
           q == InsertAt(none, i, el)
<1>1. none \in Seq(U) /\ Len(none) = 0 /\ i = 1
  OBVIOUS
<1> HIDE DEF none, i
<1>2. i \in 1..(Len(none) + 1) /\ el \in U
  BY <1>1
<1> HIDE DEF U
<1>6. q \in Seq(U) /\ Len(q) = Len(none) + 1 /\ q[i] = el
  <2>1. none \in Seq(U)
    BY <1>1
  <2>2. q \in Seq(U) /\ Len(q) = Len(none) + 1
    BY <2>1, <1>2, InsertAtIs
  <2>3. q[i] = el
    <3>1. i \in 1..(Len(none) + 1)
      BY <1>2
    <3> QED
      BY <2>1, <3>1, <1>2, InsertAtIs
  <2> QED
    BY <2>2, <2>3
<1> HIDE DEF q
<1>3. q \in Seq({el}) /\ Len(q) = 1 /\ q[1] = el
  BY <1>1, <1>6 DEF U
<1>4. DOMAIN q = 1..Len(q)
  BY <1>3
<1>5. Visits(q, {el}, nx2, el, stop2)
  BY <1>3, <1>4 DEF Visits
<1> QED
  BY <1>5 DEF q, none, i

\* The element at place i cut out behind the one before it.
LEMMA CutBehind ==
    ASSUME NEW S, NEW nx, NEW first, NEW stop, NEW p, Visits(p, S, nx, first, stop),
           NEW i \in 2..Len(p), NEW nx2, nx2[p[i - 1]] = nx[p[i]],
           \A e \in S \ {p[i - 1], p[i]} : nx2[e] = nx[e]
    PROVE  Visits(RemoveAt(p, i), S \ {p[i]}, nx2, first, stop)
<1>1. /\ Len(p) \in Nat \ {0} /\ nx[p[Len(p)]] = stop
      /\ \A j \in 1..(Len(p) - 1) : p[j + 1] = nx[p[j]]
      /\ \A j \in 1..Len(p) : p[j] \in S
      /\ \A j, k \in 1..Len(p) : j # k => p[j] # p[k]
  BY DEF Visits
<1> DEFINE n == Len(p)
<1>2. i \in 1..n /\ i # 1 /\ i - 1 \in 1..n /\ n > 1
  BY <1>1
<1>3. ASSUME NEW j \in 1..n \ {i}
      PROVE  nx2[p[j]] = IF j = i - 1 THEN IF i = n THEN stop ELSE p[i + 1]
                         ELSE IF j = n THEN stop ELSE p[j + 1]
  <2>1. CASE j = i - 1
    <3>1. i # n => i \in 1..(n - 1)
      BY <1>1, <1>2
    <3> QED
      BY <1>1, <2>1, <3>1
  <2>2. CASE j # i - 1
    <3>1. p[j] \in S \ {p[i - 1], p[i]}
      BY <1>1, <1>2, <2>2
    <3>2. nx2[p[j]] = nx[p[j]]
      BY <3>1
    <3>3. j # n => j \in 1..(n - 1)
      BY <1>1
    <3> QED
      BY <1>1, <2>2, <3>2, <3>3
  <2> QED
    BY <2>1, <2>2
<1> HIDE DEF n
<1>4. Visits(RemoveAt(p, i), S \ {p[i]}, nx2, IF i = 1 THEN p[2] ELSE first, stop)
  BY <1>2, <1>3, RemovedVisits DEF n
<1> QED
  BY <1>2, <1>4

\* The first element cut off, to the next of which a circular list comes back.
LEMMA CutHead ==
    ASSUME NEW S, NEW nx, NEW first, NEW stop, NEW p, Visits(p, S, nx, first, stop),
           Len(p) # 1, NEW nx2, NEW stop2, nx2[p[Len(p)]] = stop2,
           \A e \in S \ {first, p[Len(p)]} : nx2[e] = nx[e]
    PROVE  Visits(RemoveAt(p, 1), S \ {first}, nx2, nx[first], stop2)
<1>1. /\ Len(p) \in Nat \ {0} /\ p[1] = first
      /\ \A j \in 1..(Len(p) - 1) : p[j + 1] = nx[p[j]]
      /\ \A j \in 1..Len(p) : p[j] \in S
      /\ \A j, k \in 1..Len(p) : j # k => p[j] # p[k]
  BY DEF Visits
<1> DEFINE n == Len(p)
           i == 1
<1>2. i \in 1..n /\ i = 1 /\ n > 1 /\ n \in 1..n /\ 1 \in 1..(n - 1)
  <2>1. n \in Nat \ {0} /\ n # 1
    BY <1>1
  <2> HIDE DEF n
  <2> QED
    BY <2>1
<1>3. ASSUME NEW j \in 1..n \ {i}
      PROVE  nx2[p[j]] = IF j = i - 1 THEN IF i = n THEN stop2 ELSE p[i + 1]
                         ELSE IF j = n THEN stop2 ELSE p[j + 1]
  <2>1. j # i - 1
    BY <1>2
  <2>2. CASE j = n
    BY <1>1, <2>1, <2>2
  <2>3. CASE j # n
    <3>1. p[j] \in S \ {p[1], p[n]} /\ j \in 1..(n - 1)
      BY <1>1, <1>2, <2>3
    <3> QED
      BY <1>1, <2>1, <2>3, <3>1
  <2> QED
    BY <2>2, <2>3
<1>4. p[2] = nx[first] /\ p[i] = first
  BY <1>1, <1>2
<1> HIDE DEF n, i
<1>5. Visits(RemoveAt(p, i), S \ {p[i]}, nx2, IF i = 1 THEN p[2] ELSE first, stop2)
  BY <1>2, <1>3, RemovedVisits DEF n
<1> QED
  BY <1>2, <1>4, <1>5

\* The only element cut off.
LEMMA CutAlone ==
    ASSUME NEW S, NEW nx, NEW first, NEW stop, NEW p, Visits(p, S, nx, first, stop),
           Len(p) = 1
    PROVE  RemoveAt(p, 1) = <<>> /\ S = {first} /\ nx[first] = stop
<1>1. /\ p \in Seq(S) /\ p[1] = first /\ nx[p[1]] = stop /\ 1 \in 1..Len(p)
      /\ \A e \in S : \E i \in 1..Len(p) : p[i] = e
      /\ \A j \in 1..Len(p) : p[j] \in S
  BY DEF Visits
<1>2. RemoveAt(p, 1) \in Seq(S) /\ Len(RemoveAt(p, 1)) = Len(p) - 1
  BY <1>1, RemoveAtIs
<1>3. RemoveAt(p, 1) = <<>>
  BY <1>2
<1> QED
  BY <1>1, <1>3

(***************************************************************************)
(* Simple lists.                                                           *)
(***************************************************************************)
\* A list is one whatever happens to the links of other elements.
LEMMA SimpleKept ==
    ASSUME NEW S, NEW lst, NEW nx, IsSimple(lst, nx, S),
           NEW nx2, \A e \in S : nx2[e] = nx[e]
    PROVE  IsSimple(lst, nx2, S)
<1>1. CASE lst = NULL
  BY <1>1 DEF IsSimple
<1>2. CASE lst # NULL
  <2>1. Runs(lst, nx, NULL, S)
    BY <1>2 DEF IsSimple
  <2>2. \A T \in SUBSET S : lst \in T /\ (\A e \in T : nx2[e] \in T \cup {NULL}) => T = S
    <3> SUFFICES ASSUME NEW T \in SUBSET S, lst \in T, \A e \in T : nx2[e] \in T \cup {NULL}
                 PROVE  T = S
      OBVIOUS
    <3>1. \A e \in T : nx[e] \in T \cup {NULL}
      OBVIOUS
    <3> QED
      BY <2>1, <3>1 DEF Runs
  <2>3. Runs(lst, nx2, NULL, S)
    BY <2>1, <2>2 DEF Runs
  <2> QED
    BY <1>2, <2>3 DEF IsSimple
<1> QED
  BY <1>1, <1>2

\* A new element in front of a list.
LEMMA SimplePushed ==
    ASSUME NEW S, NULL \notin S, NEW lst, NEW nx, IsSimple(lst, nx, S),
           NEW el, el \notin S, el # NULL,
           NEW nx2, nx2[el] = lst, \A e \in S : nx2[e] = nx[e]
    PROVE  IsSimple(el, nx2, S \cup {el})
<1>1. CASE lst = NULL
  BY <1>1 DEF IsSimple, Runs
<1>2. CASE lst # NULL
  <2>1. Runs(lst, nx, NULL, S)
    BY <1>2 DEF IsSimple
  <2>2. \A T \in SUBSET (S \cup {el}) :
            el \in T /\ (\A e \in T : nx2[e] \in T \cup {NULL}) => T = S \cup {el}
    <3> SUFFICES ASSUME NEW T \in SUBSET (S \cup {el}), el \in T,
                        \A e \in T : nx2[e] \in T \cup {NULL}
                 PROVE  T = S \cup {el}
      OBVIOUS
    <3> DEFINE U == T \cap S
    <3>1. lst \in U /\ U \in SUBSET S
      BY <1>2, <2>1 DEF Runs
    <3>2. \A e \in U : nx[e] \in U \cup {NULL}
      BY <2>1 DEF Runs
    <3>3. U = S
      BY <2>1, <3>1, <3>2 DEF Runs
    <3> QED
      BY <3>3
  <2>3. \A e \in S : nx[e] # lst
    BY <1>2, <2>1 DEF Runs
  <2>4. \A e \in S \cup {el} : nx2[e] \in ((S \cup {el}) \ {el}) \cup {NULL}
    BY <2>1 DEF Runs
  <2>5. \A e, f \in S \cup {el} : nx2[e] = nx2[f] => e = f
    BY <2>1, <2>3 DEF Runs
  <2> QED
    BY <2>2, <2>4, <2>5 DEF IsSimple, Runs
<1> QED
  BY <1>1, <1>2

\* What follows the first element of a list.
LEMMA SimplePopped ==
    ASSUME NEW S, NULL \notin S, NEW lst \in S, NEW nx, IsSimple(lst, nx, S),
           NEW nx2, \A e \in S \ {lst} : nx2[e] = nx[e]
    PROVE  IsSimple(nx[lst], nx2, S \ {lst})
<1> DEFINE U == S \ {lst}
<1>1. Runs(lst, nx, NULL, S)
  BY DEF IsSimple
<1>2. nx[lst] \in U \cup {NULL}
  BY <1>1 DEF Runs
<1>3. ASSUME NEW T \in SUBSET U, nx[lst] \in T \cup {NULL}, \A e \in T : nx2[e] \in T \cup {NULL}
      PROVE  T = U
  <2> DEFINE V == T \cup {lst}
  <2>1. V \in SUBSET S /\ lst \in V /\ \A e \in V : nx[e] \in V \cup {NULL}
    BY <1>3
  <2>2. V = S
    BY <1>1, <2>1 DEF Runs
  <2> QED
    BY <2>2, <1>3
<1>4. CASE nx[lst] = NULL
  <2>1. {lst} \in SUBSET S /\ \A e \in {lst} : nx[e] \in {lst} \cup {NULL}
    BY <1>4
  <2>2. {lst} = S
    BY <1>1, <2>1 DEF Runs
  <2> QED
    BY <1>4, <2>2 DEF IsSimple
<1>5. CASE nx[lst] # NULL
  <2>1. \A e \in U : nx2[e] \in (U \ {nx[lst]}) \cup {NULL}
    BY <1>1 DEF Runs
  <2>2. \A e, f \in U : nx2[e] = nx2[f] => e = f
    BY <1>1 DEF Runs
  <2>3. Runs(nx[lst], nx2, NULL, U)
    BY <1>2, <1>3, <1>5, <2>1, <2>2 DEF Runs
  <2> QED
    BY <1>5, <2>3 DEF IsSimple
<1> QED
  BY <1>4, <1>5

\* An element cut out behind another one.
LEMMA SimpleCut ==
    ASSUME NEW S, NULL \notin S, NEW lst, NEW nx, IsSimple(lst, nx, S),
           NEW before \in S, NEW el \in S, nx[before] = el,
           NEW nx2, nx2[before] = nx[el], \A e \in S \ {before, el} : nx2[e] = nx[e]
    PROVE  el # lst /\ before # el /\ IsSimple(lst, nx2, S \ {el})
<1> DEFINE U == S \ {el}
<1>1. Runs(lst, nx, NULL, S)
  BY DEF IsSimple
<1>2. el # lst /\ lst # NULL
  BY <1>1 DEF Runs
<1>3. before # el
  <2> SUFFICES ASSUME before = el PROVE FALSE
    OBVIOUS
  <2>1. U \in SUBSET S /\ lst \in U
    BY <1>1, <1>2 DEF Runs
  <2>2. \A e \in U : nx[e] \in U \cup {NULL}
    BY <1>1 DEF Runs
  <2> QED
    BY <1>1, <2>1, <2>2 DEF Runs
<1>4. nx[el] \in U \cup {NULL}
  BY <1>1, <1>3 DEF Runs
<1>5. ASSUME NEW T \in SUBSET U, lst \in T, \A e \in T : nx2[e] \in T \cup {NULL}
      PROVE  T = U
  <2>1. CASE before \in T
    <3> DEFINE V == T \cup {el}
    <3>1. V \in SUBSET S /\ lst \in V
      BY <1>5
    <3>2. nx[el] \in V \cup {NULL}
      BY <1>5, <2>1
    <3>3. \A e \in V : nx[e] \in V \cup {NULL}
      BY <1>5, <3>2
    <3>4. V = S
      BY <1>1, <3>1, <3>3 DEF Runs
    <3> QED
      BY <1>5, <3>4
  <2>2. CASE before \notin T
    <3>1. T \in SUBSET S /\ \A e \in T : nx[e] \in T \cup {NULL}
      BY <1>5, <2>2
    <3>2. T = S
      BY <1>1, <1>5, <3>1 DEF Runs
    <3> QED
      BY <2>2, <3>2
  <2> QED
    BY <2>1, <2>2
<1>6. \A e \in U : nx2[e] \in (U \ {lst}) \cup {NULL}
  <2> SUFFICES ASSUME NEW e \in U PROVE nx2[e] \in (U \ {lst}) \cup {NULL}
    OBVIOUS
  <2>1. CASE e = before
    BY <1>1, <1>4, <2>1 DEF Runs
  <2>2. CASE e # before
    BY <1>1, <2>2 DEF Runs
  <2> QED
    BY <2>1, <2>2
<1>7. \A e, f \in U : nx2[e] = nx2[f] => e = f
  BY <1>1 DEF Runs
<1>8. Runs(lst, nx2, NULL, U)
  BY <1>1, <1>2, <1>5, <1>6, <1>7 DEF Runs
<1> QED
  BY <1>2, <1>3, <1>8 DEF IsSimple

\* A new element behind one of a list.
LEMMA SimpleAfter ==
    ASSUME NEW S, NULL \notin S, NEW lst, NEW nx, IsSimple(lst, nx, S),
           NEW before \in S, NEW el, el \notin S, el # NULL,
           NEW nx2, nx2[before] = el, nx2[el] = nx[before],
           \A e \in S \ {before} : nx2[e] = nx[e]
    PROVE  IsSimple(lst, nx2, S \cup {el})
<1> DEFINE U == S \cup {el}
<1>1. Runs(lst, nx, NULL, S) /\ lst # NULL /\ lst # el
  BY DEF IsSimple, Runs
<1>2. ASSUME NEW T \in SUBSET U, lst \in T, \A e \in T : nx2[e] \in T \cup {NULL}
      PROVE  T = U
  <2> DEFINE V == T \cap S
  <2>1. V \in SUBSET S /\ lst \in V
    BY <1>1, <1>2 DEF Runs
  <2>2. \A e \in V : nx[e] \in V \cup {NULL}
    <3> SUFFICES ASSUME NEW e \in V PROVE nx[e] \in V \cup {NULL}
      OBVIOUS
    <3>1. nx[e] \in T \cup {NULL}
      <4>1. CASE e = before
        BY <1>2, <4>1
      <4>2. CASE e # before
        BY <1>2, <4>2
      <4> QED
        BY <4>1, <4>2
    <3> QED
      BY <1>1, <3>1 DEF Runs
  <2>3. V = S
    BY <1>1, <2>1, <2>2 DEF Runs
  <2>4. nx2[before] \in T \cup {NULL}
    BY <1>2, <2>3
  <2> QED
    BY <2>3, <2>4, <1>2
<1>3. \A e \in U : nx2[e] \in (U \ {lst}) \cup {NULL}
  <2> SUFFICES ASSUME NEW e \in U PROVE nx2[e] \in (U \ {lst}) \cup {NULL}
    OBVIOUS
  <2>1. CASE e = before
    BY <1>1, <2>1
  <2>2. CASE e # before
    BY <1>1, <2>2 DEF Runs
  <2> QED
    BY <2>1, <2>2
<1>4. \A e, f \in U : nx2[e] = nx2[f] => e = f
  <2> SUFFICES ASSUME NEW e \in U, NEW f \in U, nx2[e] = nx2[f] PROVE e = f
    OBVIOUS
  <2>1. \A g \in S : nx[g] # el
    BY <1>1 DEF Runs
  <2>2. CASE e \in S \ {before} /\ f \in S \ {before}
    BY <1>1, <2>2 DEF Runs
  <2>3. CASE e = before \/ f = before
    BY <2>1, <2>3
  <2>4. CASE e = el \/ f = el
    BY <1>1, <2>1, <2>4 DEF Runs
  <2> QED
    BY <2>2, <2>3, <2>4
<1>5. Runs(lst, nx2, NULL, U)
  BY <1>1, <1>2, <1>3, <1>4 DEF Runs
<1> QED
  BY <1>1, <1>5 DEF IsSimple

(***************************************************************************)
(* Double lists.                                                           *)
(***************************************************************************)
\* The second link of a list is the inverse of the first.
LEMMA DoubleLinks ==
    ASSUME NEW S, NULL \notin S, NEW lst, NEW pv, NEW nx, IsDouble(lst, pv, nx, S)
    PROVE  /\ lst = NULL => S = {}
           /\ lst # NULL => lst \in S /\ pv[lst] = NULL
           /\ \A e \in S : /\ e # lst => pv[e] \in S /\ nx[pv[e]] = e
                           /\ nx[e] # NULL => nx[e] \in S /\ nx[e] # lst /\ pv[nx[e]] = e
                           /\ nx[e] # e
<1>1. CASE lst = NULL
  BY <1>1 DEF IsDouble, IsSimple
<1>2. CASE lst # NULL
  <2>1. Runs(lst, nx, NULL, S)
    BY <1>2 DEF IsDouble, IsSimple
  <2>2. lst \in S /\ pv[lst] = NULL
    BY <2>1 DEF IsDouble, Runs
  <2>3. \A e \in S : e # lst => pv[e] \in S /\ nx[pv[e]] = e
    BY DEF IsDouble
  <2>4. \A e \in S : nx[e] # NULL => nx[e] \in S /\ nx[e] # lst
    BY <2>1 DEF Runs
  <2>5. \A e \in S : nx[e] # NULL => pv[nx[e]] = e
    BY <2>1, <2>3, <2>4 DEF Runs
  <2>6. \A e \in S : nx[e] # e
    <3> SUFFICES ASSUME NEW e \in S, nx[e] = e PROVE FALSE
      OBVIOUS
    <3>1. e # lst /\ e # NULL
      BY <2>4
    <3>2. \A f \in S : nx[f] = e => f = e
      BY <2>1 DEF Runs
    <3>3. \A f \in S \ {e} : nx[f] \in (S \ {e}) \cup {NULL}
      BY <2>4, <3>2
    <3>4. S \ {e} = S
      BY <2>1, <2>2, <3>1, <3>3 DEF Runs
    <3> QED
      BY <3>4
  <2> QED
    BY <1>2, <2>2, <2>3, <2>4, <2>5, <2>6
<1> QED
  BY <1>1, <1>2

\* A list is one whatever happens to the links of other elements.
LEMMA DoubleKept ==
    ASSUME NEW S, NEW lst, NEW pv, NEW nx, IsDouble(lst, pv, nx, S),
           NEW pv2, NEW nx2, \A e \in S : pv2[e] = pv[e] /\ nx2[e] = nx[e]
    PROVE  IsDouble(lst, pv2, nx2, S)
BY SimpleKept DEF IsDouble

\* dlist_push_head of a new element.
LEMMA DPushDouble ==
    ASSUME NEW E, NULL \notin E, NEW pv, NEW nx, IsLinks(pv, nx, E),
           NEW S \in SUBSET E, NEW lst, IsDouble(lst, pv, nx, S), NEW el \in E \ S
    PROVE  LET r == DPush(Ring(lst, pv, nx), el) IN
           /\ Left(E, S, pv, nx, el, r)
           /\ IsDouble(r.list, r.prev, r.next, S \cup {el})
<1> DEFINE pv2 == [e \in E |-> IF e = el THEN NULL ELSE IF e = lst THEN el ELSE pv[e]]
           nx2 == [nx EXCEPT ![el] = lst]
           r == DPush(Ring(lst, pv, nx), el)
<1>1. (lst = NULL /\ S = {}) \/ (lst \in S /\ lst # el)
  BY DoubleLinks
<1>2. r.list = el /\ r.prev = pv2 /\ r.next = nx2 /\ r.fault = FALSE
  <2> DEFINE a == Ring(lst, pv, nx)
             pv3 == [e \in DOMAIN a.prev |-> IF e = el THEN NULL
                                            ELSE IF e = a.list THEN el ELSE a.prev[e]]
             nx3 == [a.next EXCEPT ![el] = a.list]
  <2>1. a.list = lst /\ a.prev = pv /\ a.next = nx /\ a.fault = FALSE /\ DOMAIN a.prev = E
    BY DEF Ring, IsLinks
  <2>2. pv3 = pv2 /\ nx3 = nx2
    <3> HIDE DEF a
    <3> QED
      BY <2>1
  <2>3. r = [a EXCEPT !.list = el, !.next = nx3, !.prev = pv3]
    BY DEF DPush
  <2>4. r.list = el /\ r.prev = pv3 /\ r.next = nx3 /\ r.fault = a.fault
    <3> HIDE DEF pv3, nx3
    <3> QED
      BY <2>3 DEF Ring
  <2> QED
    BY <2>1, <2>2, <2>4
<1>3. /\ pv2 \in [E -> E \cup {NULL}] /\ nx2 \in [E -> E \cup {NULL}]
      /\ nx2[el] = lst /\ pv2[el] = NULL
      /\ \A e \in E \ {el} : nx2[e] = nx[e]
      /\ \A e \in E \ {el} : pv2[e] = IF e = lst THEN el ELSE pv[e]
  BY <1>1 DEF IsLinks
<1> HIDE DEF pv2, nx2, r
<1>4. Left(E, S, pv, nx, el, r)
  BY <1>1, <1>2, <1>3 DEF Left, IsLinks
<1>5. IsSimple(el, nx2, S \cup {el})
  BY <1>3, SimplePushed DEF IsDouble
<1>6. ASSUME NEW e \in S \cup {el}
      PROVE  IF pv2[e] = NULL THEN e = el ELSE pv2[e] \in S \cup {el} /\ nx2[pv2[e]] = e
  <2>1. CASE e = el
    BY <1>3, <2>1
  <2>2. CASE e # el /\ e = lst
    BY <1>1, <1>3, <2>2
  <2>3. CASE e # el /\ e # lst
    BY <1>3, <2>3, DoubleLinks
  <2> QED
    BY <2>1, <2>2, <2>3
<1>7. IsDouble(el, pv2, nx2, S \cup {el})
  BY <1>5, <1>6 DEF IsDouble
<1> QED
  BY <1>2, <1>4, <1>7 DEF r

\* dlist_delete_head.
LEMMA DDeleteHeadDouble ==
    ASSUME NEW E, NULL \notin E, NEW pv, NEW nx, IsLinks(pv, nx, E),
           NEW S \in SUBSET E, NEW lst \in S, IsDouble(lst, pv, nx, S)
    PROVE  LET r == DDeleteHead(Ring(lst, pv, nx), lst) IN
           /\ Left(E, S, pv, nx, lst, r)
           /\ IsDouble(r.list, r.prev, r.next, S \ {lst})
<1> DEFINE r == DDeleteHead(Ring(lst, pv, nx), lst)
           U == S \ {lst}
           after == nx[lst]
<1>1. /\ lst # NULL /\ lst \in E /\ pv[lst] = NULL /\ after # lst
      /\ after \in U \cup {NULL}
      /\ \A e \in U : pv[e] \in S /\ nx[pv[e]] = e
  BY DoubleLinks
<1>2. CASE after = NULL
  <2>1. r = [list |-> NULL, prev |-> pv, next |-> nx, fault |-> FALSE]
    BY <1>1, <1>2 DEF DDeleteHead, SSingleton, IsEmpty, Ring
  <2>2. IsSimple(NULL, nx, U)
    BY <1>2, SimplePopped DEF IsDouble
  <2>3. U = {}
    BY <2>2 DEF IsSimple
  <2>4. IsDouble(NULL, pv, nx, U)
    BY <2>2, <2>3 DEF IsDouble
  <2> QED
    BY <2>1, <2>4 DEF Left, IsLinks
<1>3. CASE after # NULL
  <2> DEFINE pv2 == [pv EXCEPT ![after] = NULL, ![lst] = NULL]
             nx2 == [nx EXCEPT ![lst] = NULL]
  <2>1. r = [list |-> after, prev |-> pv2, next |-> nx2, fault |-> FALSE]
    BY <1>1, <1>3 DEF DDeleteHead, SSingleton, IsEmpty, Ring
  <2>2. /\ pv2 \in [E -> E \cup {NULL}] /\ nx2 \in [E -> E \cup {NULL}]
        /\ pv2[after] = NULL
        /\ \A e \in E \ {lst} : nx2[e] = nx[e]
        /\ \A e \in E \ {lst, after} : pv2[e] = pv[e]
    BY <1>1, <1>3 DEF IsLinks
  <2> HIDE DEF pv2, nx2, r
  <2>3. Left(E, S, pv, nx, lst, r)
    BY <1>1, <1>3, <2>1, <2>2 DEF Left, IsLinks
  <2>4. IsSimple(after, nx2, U)
    BY <2>2, SimplePopped DEF IsDouble
  <2>5. ASSUME NEW e \in U
        PROVE  IF pv2[e] = NULL THEN e = after ELSE pv2[e] \in U /\ nx2[pv2[e]] = e
    <3>1. CASE e = after
      BY <2>2, <3>1
    <3>2. CASE e # after
      <4>1. pv[e] # lst
        BY <1>1, <3>2
      <4> QED
        BY <1>1, <2>2, <3>2, <4>1
    <3> QED
      BY <3>1, <3>2
  <2>6. IsDouble(after, pv2, nx2, U)
    BY <2>4, <2>5 DEF IsDouble
  <2> QED
    BY <2>1, <2>3, <2>6 DEF r
<1> QED
  BY <1>2, <1>3

\* dlist_delete_el of any element of the list.
LEMMA DDeleteDouble ==
    ASSUME NEW E, NULL \notin E, NEW pv, NEW nx, IsLinks(pv, nx, E),
           NEW S \in SUBSET E, NEW lst, IsDouble(lst, pv, nx, S), NEW el \in S
    PROVE  LET r == DDelete(Ring(lst, pv, nx), el) IN
           /\ Left(E, S, pv, nx, el, r)
           /\ IsDouble(r.list, r.prev, r.next, S \ {el})
<1> DEFINE r == DDelete(Ring(lst, pv, nx), el)
           U == S \ {el}
           before == pv[el]
           after == nx[el]
<1>1. CASE lst = el
  <2>1. r = DDeleteHead(Ring(lst, pv, nx), lst)
    BY <1>1 DEF DDelete, Ring
  <2> QED
    BY <1>1, <2>1, DDeleteHeadDouble
<1>2. CASE lst # el
  <2> DEFINE nx2 == [nx EXCEPT ![before] = after, ![el] = NULL]
             pv2 == [e \in E |-> IF e = el THEN NULL ELSE IF e = after THEN before ELSE pv[e]]
  <2>1. /\ before \in S /\ nx[before] = el /\ before # el /\ after # el /\ before # NULL
        /\ after # NULL => after \in U /\ after # lst /\ pv[after] = el
        /\ lst \in E
    BY <1>2, DoubleLinks
  <2>2. r = [list |-> lst, prev |-> pv2, next |-> nx2, fault |-> FALSE]
    BY <1>2, <2>1 DEF DDelete, Ring, IsLinks
  <2>3. /\ pv2 \in [E -> E \cup {NULL}] /\ nx2 \in [E -> E \cup {NULL}]
        /\ nx2[before] = after
        /\ \A e \in E \ {el, before} : nx2[e] = nx[e]
        /\ \A e \in E \ {el} : pv2[e] = IF e = after THEN before ELSE pv[e]
    BY <1>2, <2>1 DEF IsLinks
  <2>4. Left(E, S, pv, nx, el, r)
    <3> HIDE DEF pv2, nx2, r, before, after
    <3>1. \A e \in E \ (S \cup {el}) : pv2[e] = pv[e] /\ nx2[e] = nx[e]
      BY <2>1, <2>3
    <3> QED
      BY <2>1, <2>2, <2>3, <3>1 DEF Left, IsLinks
  <2> HIDE DEF pv2, nx2, r
  <2>5. IsSimple(lst, nx2, U)
    BY <2>1, <2>3, SimpleCut DEF IsDouble
  <2>6. ASSUME NEW e \in U
        PROVE  IF pv2[e] = NULL THEN e = lst ELSE pv2[e] \in U /\ nx2[pv2[e]] = e
    <3>1. CASE e = after
      BY <2>1, <2>3, <3>1
    <3>2. CASE e # after /\ pv[e] = NULL
      BY <2>3, <3>2, DoubleLinks
    <3>3. CASE e # after /\ pv[e] # NULL
      <4>1. pv[e] \in S /\ nx[pv[e]] = e
        BY <3>3 DEF IsDouble
      <4>2. pv[e] # el /\ pv[e] # before
        BY <2>1, <3>3, <4>1
      <4> QED
        BY <2>3, <3>3, <4>1, <4>2
    <3> QED
      BY <3>1, <3>2, <3>3
  <2>7. IsDouble(lst, pv2, nx2, U)
    BY <2>5, <2>6 DEF IsDouble
  <2> QED
    BY <2>2, <2>4, <2>7 DEF r
<1> QED
  BY <1>1, <1>2

(***************************************************************************)
(* Circular lists.                                                         *)
(***************************************************************************)
\* A new element pushed in front of any element c of the ring, whose list then
\* becomes any of its elements: r is what clist_push_head and the ordered
\* insertion make of it.
LEMMA PushedInFront ==
    ASSUME NEW E, NULL \notin E, NEW pv, NEW nx, IsLinks(pv, nx, E),
           NEW S \in SUBSET E, NEW lst, IsRing(lst, pv, nx, S), NEW el \in E \ S,
           NEW c \in S \cup {NULL}, c = NULL => lst = NULL,
           NEW r, r.list \in S \cup {el},
           r.prev = PushTail(Ring(c, pv, nx), el).prev,
           r.next = PushTail(Ring(c, pv, nx), el).next,
           r.fault = PushTail(Ring(c, pv, nx), el).fault
    PROVE  Left(E, S, pv, nx, el, r) /\ IsRing(r.list, r.prev, r.next, S \cup {el})
<1> DEFINE q == PushTail(Ring(c, pv, nx), el)
<1>1. IsRing(c, pv, nx, S)
  BY RingLinks, RingFromAnywhere
<1>2. Left(E, S, pv, nx, el, q) /\ IsRing(q.list, q.prev, q.next, S \cup {el})
  BY <1>1, PushTailKeeps
<1>3. r.prev = q.prev /\ r.next = q.next /\ r.fault = q.fault
  OBVIOUS
<1> HIDE DEF q
<1>4. IsRing(r.list, q.prev, q.next, S \cup {el})
  BY <1>2, RingLinks, RingFromAnywhere
<1>5. Left(E, S, pv, nx, el, r)
  BY <1>2, <1>3 DEF Left
<1> QED
  BY <1>3, <1>4, <1>5

\* clist_push_head of a new element.
LEMMA CPushKeeps ==
    ASSUME NEW E, NULL \notin E, NEW pv, NEW nx, IsLinks(pv, nx, E),
           NEW S \in SUBSET E, NEW lst, IsRing(lst, pv, nx, S), NEW el \in E \ S
    PROVE  LET r == CPush(Ring(lst, pv, nx), el) IN
           /\ Left(E, S, pv, nx, el, r)
           /\ IsRing(r.list, r.prev, r.next, S \cup {el})
<1> DEFINE q == PushTail(Ring(lst, pv, nx), el)
           r == CPush(Ring(lst, pv, nx), el)
<1>1. r.list = el /\ r.prev = q.prev /\ r.next = q.next /\ r.fault = q.fault
  BY DEF CPush, PushTail, Ring, Faulted
<1>2. lst \in S \cup {NULL}
  BY RingLinks
<1> HIDE DEF r
<1>3. Left(E, S, pv, nx, el, r) /\ IsRing(r.list, r.prev, r.next, S \cup {el})
  BY <1>1, <1>2, PushedInFront
<1> QED
  BY <1>3 DEF r

\* A ring is a walk from its list back to it.
LEMMA RingRuns ==
    ASSUME NEW S, NEW lst, lst # NULL, NEW pv, NEW nx, IsRing(lst, pv, nx, S)
    PROVE  Runs(lst, nx, lst, S)
<1>1. lst \in S /\ Linked(pv, nx, S) /\ Reaches(lst, nx, S)
  BY DEF IsRing
<1>2. \A e, f \in S : nx[e] = nx[f] => e = f
  BY <1>1 DEF Linked
<1>3. \A e \in S : nx[e] \in (S \ {lst}) \cup {lst}
  BY <1>1 DEF Linked
<1>4. \A T \in SUBSET S : lst \in T /\ (\A e \in T : nx[e] \in T \cup {lst}) => T = S
  BY <1>1 DEF Reaches
<1> QED
  BY <1>1, <1>2, <1>3, <1>4 DEF Runs

\* The first place of a walk that a test picks.
LEMMA FirstStop ==
    ASSUME NEW S, NEW p, NEW nx, NEW first, NEW stop, Visits(p, S, nx, first, stop),
           NEW T, T \in SUBSET DOMAIN p, T # {}
    PROVE  /\ Min(T) \in T /\ p[Min(T)] \in S
           /\ IF Min(T) = 1 THEN p[Min(T)] = first
              ELSE p[Min(T) - 1] \in S /\ nx[p[Min(T) - 1]] = p[Min(T)]
<1>1. PICK k \in Nat \ {0} :
        /\ DOMAIN p = 1..k /\ p[1] = first
        /\ \A i \in 1..(k - 1) : p[i + 1] = nx[p[i]]
        /\ \A i \in 1..k : p[i] \in S
  BY DEF Visits
<1>2. T \in SUBSET Nat
  BY <1>1
<1> DEFINE m == Min(T)
<1>3. m \in T
  BY <1>2, MinIs
<1> HIDE DEF m
<1>4. m \in 1..k
  BY <1>1, <1>3
<1>5. CASE m = 1
  BY <1>1, <1>3, <1>4, <1>5 DEF m
<1>6. CASE m # 1
  <2>1. m - 1 \in 1..(k - 1) /\ m - 1 \in 1..k /\ (m - 1) + 1 = m
    BY <1>1, <1>4, <1>6
  <2>2. p[m] = nx[p[m - 1]] /\ p[m - 1] \in S /\ p[m] \in S
    BY <1>1, <1>4, <2>1
  <2> QED
    BY <1>3, <1>6, <2>2 DEF m
<1> QED
  BY <1>5, <1>6

\* clist_insert_ordered of a new element: the loop always finds its place.
LEMMA CInsertOrderedKeeps ==
    ASSUME NEW E, NULL \notin E, IsFiniteSet(E), NEW pv, NEW nx, IsLinks(pv, nx, E),
           NEW S \in SUBSET E, NEW lst, IsRing(lst, pv, nx, S), NEW el \in E \ S
    PROVE  LET r == CInsertOrdered(Ring(lst, pv, nx), el) IN
           /\ Left(E, S, pv, nx, el, r)
           /\ IsRing(r.list, r.prev, r.next, S \cup {el})
<1> DEFINE a == Ring(lst, pv, nx)
           r == CInsertOrdered(a, el)
           path  == Walk(nx, lst, lst)
           stops == {i \in DOMAIN path : ~Greater(el, path[i])}
           c == path[Min(stops)]
<1>0. a.list = lst /\ a.prev = pv /\ a.next = nx
  BY DEF Ring
<1>1. CASE lst = NULL \/ ~Greater(el, lst)
  <2>1. r = CPush(a, el)
    BY <1>0, <1>1 DEF CInsertOrdered, IsEmpty
  <2> QED
    BY <2>1, CPushKeeps
<1>2. CASE lst # NULL /\ Greater(el, lst) /\ Greater(el, pv[lst])
  <2>1. r = PushTail(a, el)
    BY <1>0, <1>2 DEF CInsertOrdered, IsEmpty
  <2> QED
    BY <2>1, PushTailKeeps
<1>3. CASE lst # NULL /\ Greater(el, lst) /\ ~Greater(el, pv[lst])
  <2>1. lst \in S /\ pv[lst] \in S
    BY <1>3, RingLinks DEF Linked
  <2>2. Visits(path, S, nx, lst, lst)
    BY <1>3, RingRuns, WalkVisits DEF IsLinks
  <2>3. stops # {}
    <3> HIDE DEF path
    <3>1. \E i \in DOMAIN path : path[i] = pv[lst]
      BY <2>1, <2>2 DEF Visits
    <3> QED
      BY <1>3, <3>1
  <2>4. c \in S
    <3>1. stops \in SUBSET DOMAIN path
      OBVIOUS
    <3> HIDE DEF path, stops
    <3> QED
      BY <2>2, <2>3, <3>1, FirstStop
  <2>5. r = [CPush([a EXCEPT !.list = c], el) EXCEPT !.list = lst]
    BY <1>0, <1>3 DEF CInsertOrdered, IsEmpty
  <2> HIDE DEF c, r, path, stops
  <2>6. c # NULL
    BY <2>4
  <2> DEFINE q == PushTail(Ring(c, pv, nx), el)
             b == [a EXCEPT !.list = c]
             q2 == PushTail(b, el)
  <2>7. b.list = c /\ b.prev = pv /\ b.next = nx /\ b.fault = FALSE
    BY DEF Ring
  <2>8. r.list = lst /\ r.prev = q2.prev /\ r.next = q2.next /\ r.fault = q2.fault
    BY <2>5, <2>6 DEF CPush, PushTail, Ring, Faulted, IsEmpty
  <2>9. q2.prev = q.prev /\ q2.next = q.next /\ q2.fault = q.fault
    BY <2>6 DEF PushTail, Ring, Faulted, IsEmpty
  <2>10. r.prev = q.prev /\ r.next = q.next /\ r.fault = q.fault /\ r.list \in S \cup {el}
    BY <2>1, <2>8, <2>9
  <2> HIDE DEF q2, b
  <2>11. Left(E, S, pv, nx, el, r) /\ IsRing(r.list, r.prev, r.next, S \cup {el})
    BY <2>4, <2>6, <2>10, PushedInFront
  <2> QED
    BY <2>11 DEF r
<1> QED
  BY <1>1, <1>2, <1>3

(***************************************************************************)
(* The macros of simple lists, which leave prev alone.                     *)
(***************************************************************************)
\* What the links of the elements of a simple list are.
LEMMA SimpleLinks ==
    ASSUME NEW S, NEW lst, NEW nx, IsSimple(lst, nx, S)
    PROVE  /\ lst = NULL => S = {}
           /\ lst # NULL => lst \in S /\ Runs(lst, nx, NULL, S)
           /\ \A e \in S : nx[e] \in (S \ {lst}) \cup {NULL}
BY DEF IsSimple, Runs

\* list_push_head of a new element.
LEMMA SPushSimple ==
    ASSUME NEW E, NULL \notin E, NEW pv, NEW nx, IsLinks(pv, nx, E),
           NEW S \in SUBSET E, NEW lst, IsSimple(lst, nx, S), NEW el \in E \ S
    PROVE  LET r == SPush(Ring(lst, pv, nx), el) IN
           /\ Left(E, S, pv, nx, el, r)
           /\ IsSimple(r.list, r.next, S \cup {el})
<1> DEFINE r == SPush(Ring(lst, pv, nx), el)
           nx2 == [nx EXCEPT ![el] = lst]
<1>1. r.list = el /\ r.prev = pv /\ r.next = nx2 /\ r.fault = FALSE
  BY DEF SPush, Ring
<1>2. lst \in E \cup {NULL} /\ el # NULL
  BY SimpleLinks
<1>3. /\ nx2 \in [E -> E \cup {NULL}] /\ nx2[el] = lst
      /\ \A e \in E \ {el} : nx2[e] = nx[e]
  BY <1>2 DEF IsLinks
<1> HIDE DEF r, nx2
<1>4. IsSimple(el, nx2, S \cup {el})
  BY <1>2, <1>3, SimplePushed
<1>5. Left(E, S, pv, nx, el, r)
  BY <1>1, <1>3 DEF Left, IsLinks
<1> QED
  BY <1>1, <1>4, <1>5 DEF r

\* list_pop_head of a list that is not empty.
LEMMA SPopSimple ==
    ASSUME NEW E, NULL \notin E, NEW pv, NEW nx, IsLinks(pv, nx, E),
           NEW S \in SUBSET E, NEW lst \in S, IsSimple(lst, nx, S)
    PROVE  LET r == SPop(Ring(lst, pv, nx)) IN
           /\ Left(E, S, pv, nx, lst, r)
           /\ IsSimple(r.list, r.next, S \ {lst})
<1> DEFINE r == SPop(Ring(lst, pv, nx))
           nx2 == [nx EXCEPT ![lst] = NULL]
<1>1. lst # NULL /\ nx[lst] \in E \cup {NULL}
  BY SimpleLinks
<1>2. IF nx[lst] = NULL
      THEN r.list = NULL /\ r.prev = pv /\ r.next = nx /\ r.fault = FALSE
      ELSE r.list = nx[lst] /\ r.prev = pv /\ r.next = nx2 /\ r.fault = FALSE
  BY <1>1 DEF SPop, SDeleteHead, SSingleton, IsEmpty, Ring
<1>3. /\ nx2 \in [E -> E \cup {NULL}]
      /\ \A e \in E \ {lst} : nx2[e] = nx[e]
  BY DEF IsLinks
<1> HIDE DEF r, nx2
<1>4. IsSimple(nx[lst], nx, S \ {lst}) /\ IsSimple(nx[lst], nx2, S \ {lst})
  BY <1>3, SimplePopped
<1>5. Left(E, S, pv, nx, lst, r)
  BY <1>1, <1>2, <1>3 DEF Left, IsLinks
<1> QED
  BY <1>2, <1>4, <1>5 DEF r

\* list_delete_el, given the element before the one to delete.
LEMMA SDeleteSimple ==
    ASSUME NEW E, NULL \notin E, NEW pv, NEW nx, IsLinks(pv, nx, E),
           NEW S \in SUBSET E, NEW lst, IsSimple(lst, nx, S), NEW el \in S,
           NEW before, IF before = NULL THEN el = lst ELSE before \in S /\ nx[before] = el
    PROVE  LET r == SDelete(Ring(lst, pv, nx), before, el) IN
           /\ Left(E, S, pv, nx, el, r)
           /\ IsSimple(r.list, r.next, S \ {el})
<1> DEFINE r == SDelete(Ring(lst, pv, nx), before, el)
<1>1. nx[el] \in E \cup {NULL} /\ lst \in S /\ el \in E
  BY SimpleLinks
<1>2. CASE before = NULL
  <2> DEFINE nx2 == [nx EXCEPT ![el] = NULL]
  <2>1. r.list = nx[el] /\ r.prev = pv /\ r.next = nx2 /\ r.fault = FALSE
    BY <1>2 DEF SDelete, Ring
  <2>2. nx2 \in [E -> E \cup {NULL}] /\ \A e \in E \ {el} : nx2[e] = nx[e]
    BY DEF IsLinks
  <2> HIDE DEF r, nx2
  <2>3. IsSimple(nx[lst], nx2, S \ {lst})
    BY <1>2, <2>2, SimplePopped
  <2>4. Left(E, S, pv, nx, el, r)
    BY <1>1, <2>1, <2>2 DEF Left, IsLinks
  <2> QED
    BY <1>2, <2>1, <2>3, <2>4 DEF r
<1>3. CASE before # NULL
  <2> DEFINE nx2 == [nx EXCEPT ![before] = nx[el], ![el] = NULL]
  <2>1. el # lst /\ before # el /\ before \in S /\ nx[before] = el
    <3> DEFINE nx3 == [nx EXCEPT ![before] = nx[el]]
    <3>1. before \in S /\ nx[before] = el
      BY <1>3
    <3>2. nx3[before] = nx[el] /\ \A e \in S \ {before, el} : nx3[e] = nx[e]
      BY <3>1 DEF IsLinks
    <3> HIDE DEF nx3
    <3>3. NULL \notin S
      OBVIOUS
    <3>4. el # lst /\ before # el /\ IsSimple(lst, nx3, S \ {el})
      BY <3>1, <3>2, <3>3, SimpleCut
    <3> QED
      BY <3>1, <3>4
  <2>2. r.list = lst /\ r.prev = pv /\ r.next = nx2 /\ r.fault = FALSE
    BY <1>3, <2>1 DEF SDelete, Ring
  <2>3. /\ nx2 \in [E -> E \cup {NULL}] /\ nx2[before] = nx[el]
        /\ \A e \in E \ {el, before} : nx2[e] = nx[e]
    BY <1>1, <2>1 DEF IsLinks
  <2> HIDE DEF r, nx2
  <2>4. IsSimple(lst, nx2, S \ {el})
    BY <2>1, <2>3, SimpleCut
  <2>5. Left(E, S, pv, nx, el, r)
    BY <1>1, <2>1, <2>2, <2>3 DEF Left, IsLinks
  <2> QED
    BY <2>2, <2>4, <2>5 DEF r
<1> QED
  BY <1>2, <1>3

\* list_insert_after an element, or at the head.
LEMMA SInsertAfterSimple ==
    ASSUME NEW E, NULL \notin E, NEW pv, NEW nx, IsLinks(pv, nx, E),
           NEW S \in SUBSET E, NEW lst, IsSimple(lst, nx, S), NEW el \in E \ S,
           NEW before \in S \cup {NULL}
    PROVE  LET r == SInsertAfter(Ring(lst, pv, nx), before, el) IN
           /\ Left(E, S, pv, nx, el, r)
           /\ IsSimple(r.list, r.next, S \cup {el})
<1> DEFINE r == SInsertAfter(Ring(lst, pv, nx), before, el)
<1>1. CASE before = NULL
  <2>1. r = SPush(Ring(lst, pv, nx), el)
    BY <1>1 DEF SInsertAfter
  <2> QED
    BY <2>1, SPushSimple
<1>2. CASE before # NULL
  <2> DEFINE nx2 == [nx EXCEPT ![el] = nx[before], ![before] = el]
  <2>1. before \in S /\ lst \in S /\ before # el /\ nx[before] \in E \cup {NULL} /\ el # NULL
    BY <1>2, SimpleLinks
  <2>2. r.list = lst /\ r.prev = pv /\ r.next = nx2 /\ r.fault = FALSE
    BY <1>2 DEF SInsertAfter, Ring
  <2>3. /\ nx2 \in [E -> E \cup {NULL}] /\ nx2[before] = el /\ nx2[el] = nx[before]
        /\ \A e \in E \ {el, before} : nx2[e] = nx[e]
    BY <2>1 DEF IsLinks
  <2> HIDE DEF r, nx2
  <2>4. IsSimple(lst, nx2, S \cup {el})
    BY <2>1, <2>3, SimpleAfter
  <2>5. Left(E, S, pv, nx, el, r)
    BY <2>1, <2>2, <2>3 DEF Left, IsLinks
  <2> QED
    BY <2>2, <2>4, <2>5 DEF r
<1> QED
  BY <1>1, <1>2

\* list_insert_ordered into a list that is empty or has an element that is not
\* smaller.
LEMMA SInsertOrderedSimple ==
    ASSUME NEW E, NULL \notin E, IsFiniteSet(E), NEW pv, NEW nx, IsLinks(pv, nx, E),
           NEW S \in SUBSET E, NEW lst, IsSimple(lst, nx, S), NEW el \in E \ S,
           lst = NULL \/ \E e \in S : ~Greater(el, e)
    PROVE  LET r == SInsertOrdered(Ring(lst, pv, nx), el) IN
           /\ Left(E, S, pv, nx, el, r)
           /\ IsSimple(r.list, r.next, S \cup {el})
<1> DEFINE a == Ring(lst, pv, nx)
           r == SInsertOrdered(a, el)
           path  == Walk(nx, lst, NULL)
           stops == {i \in DOMAIN path : ~Greater(el, path[i])}
           before == IF Min(stops) = 1 THEN NULL ELSE path[Min(stops) - 1]
<1>0. a.list = lst /\ a.next = nx
  BY DEF Ring
<1>1. CASE lst = NULL
  <2>1. r = SPush(a, el)
    BY <1>0, <1>1 DEF SInsertOrdered, IsEmpty
  <2> QED
    BY <2>1, SPushSimple
<1>2. CASE lst # NULL
  <2>1. Visits(path, S, nx, lst, NULL)
    BY <1>2, SimpleLinks, WalkVisits DEF IsLinks
  <2>2. stops # {}
    <3> HIDE DEF path
    <3>1. \A e \in S : \E i \in DOMAIN path : path[i] = e
      BY <2>1 DEF Visits
    <3> QED
      BY <1>2, <3>1
  <2>3. before \in S \cup {NULL}
    <3>1. stops \in SUBSET DOMAIN path
      OBVIOUS
    <3> HIDE DEF path, stops
    <3> QED
      BY <2>1, <2>2, <3>1, FirstStop
  <2>4. r = SInsertAfter(a, before, el)
    BY <1>0, <1>2, <2>2 DEF SInsertOrdered, IsEmpty
  <2> HIDE DEF before
  <2> QED
    BY <2>3, <2>4, SInsertAfterSimple
<1> QED
  BY <1>1, <1>2

(***************************************************************************)
(* Any kind of list.                                                       *)
(***************************************************************************)
\* The element that the client finds before el.
LEMMA BeforeIs ==
    ASSUME ListsInv, NULL \notin Elems, IsFiniteSet(Elems), kind = "simple",
           NEW l \in Names, NEW el \in Mine(l)
    PROVE  IF Before(l, el) = NULL THEN el = list[l]
           ELSE Before(l, el) \in Mine(l) /\ next[Before(l, el)] = el
<1> DEFINE path == Walk(next, list[l], NULL)
           T == {j \in DOMAIN path : path[j] = el}
<1>1. IsSimple(list[l], next, Mine(l)) /\ Mine(l) \in SUBSET Elems
      /\ next \in [Elems -> Elems \cup {NULL}]
  BY DEF ListsInv, IsList, Mine, TypeOK, Link
<1>2. Runs(list[l], next, NULL, Mine(l))
  BY <1>1, SimpleLinks
<1>3. Visits(path, Mine(l), next, list[l], NULL)
  BY <1>1, <1>2, WalkVisits
<1>4. path = Contents(l)
  BY DEF Contents
<1>5. Before(l, el) = IF Min(T) = 1 THEN NULL ELSE path[Min(T) - 1]
  BY <1>4 DEF Before
<1> HIDE DEF path
<1>6. T \in SUBSET DOMAIN path /\ T # {}
  BY <1>3 DEF Visits
<1>7. /\ Min(T) \in T
      /\ IF Min(T) = 1 THEN path[Min(T)] = list[l]
         ELSE /\ path[Min(T) - 1] \in Mine(l)
              /\ next[path[Min(T) - 1]] = path[Min(T)]
  <2> HIDE DEF T
  <2> QED
    BY <1>3, <1>6, FirstStop
<1>8. path[Min(T)] = el
  BY <1>7
<1> HIDE DEF T
<1> QED
  BY <1>1, <1>5, <1>7, <1>8

\* A list is one whatever happens to the links of other elements.
LEMMA ListKept ==
    ASSUME NEW k, NEW S, NEW lst, NEW pv, NEW nx, IsList(k, lst, pv, nx, S),
           NEW pv2, NEW nx2, \A e \in S : pv2[e] = pv[e] /\ nx2[e] = nx[e]
    PROVE  IsList(k, lst, pv2, nx2, S)
<1>1. k = "simple" => IsSimple(lst, nx2, S)
  BY SimpleKept DEF IsList
<1>2. k = "double" => IsDouble(lst, pv2, nx2, S)
  BY DoubleKept DEF IsList
<1>3. k = "circular" => IsRing(lst, pv2, nx2, S)
  BY RingKept DEF IsList
<1> QED
  BY <1>1, <1>2, <1>3 DEF IsList

\* The links of what is on no list or on another one are as they were.
OthersKept(l, el) == \A e \in Elems \ (Mine(l) \cup {el}) : next'[e] = next[e]

\* A macro that leaves list l with el, or without it, keeps all the lists.
LEMMA DoneKeeps ==
    ASSUME ListsInv, NULL \notin Elems, NULL \notin Names,
           NEW l \in Names, NEW el \in Elems, where[el] \in {NULL, l},
           NEW place \in {NULL, l}, NEW call, NEW r,
           Left(Elems, Mine(l), prev, next, el, r),
           IsList(kind, r.list, r.prev, r.next,
                  IF place = NULL THEN Mine(l) \ {el} ELSE Mine(l) \cup {el}),
           Done(l, r, el, place, call)
    PROVE  ListsInv' /\ OthersKept(l, el)
<1>1. /\ list' = [list EXCEPT ![l] = r.list]
      /\ prev' = r.prev /\ next' = r.next /\ fault' = r.fault
      /\ where' = [where EXCEPT ![el] = place] /\ kind' = kind
  BY DEF Done
<1>2. TypeOK'
  BY <1>1 DEF ListsInv, TypeOK, Link, Left, IsLinks
<1>3. /\ where \in [Elems -> Names \cup {NULL}] /\ list \in [Names -> Link]
      /\ place # NULL => place = l
  BY DEF ListsInv, TypeOK
<1>4. \A e \in Elems : where'[e] = IF e = el THEN place ELSE where[e]
  BY <1>1, <1>3
<1>5. ASSUME NEW m \in Names
      PROVE  IsList(kind', list'[m], prev', next', Mine(m)')
  <2>1. CASE m = l
    <3>1. Mine(l)' = IF place = NULL THEN Mine(l) \ {el} ELSE Mine(l) \cup {el}
      BY <1>3, <1>4 DEF Mine
    <3>2. list'[l] = r.list
      BY <1>1, <1>3
    <3> QED
      BY <1>1, <2>1, <3>1, <3>2
  <2>2. CASE m # l
    <3>1. Mine(m)' = Mine(m)
      BY <1>3, <1>4, <2>2 DEF Mine
    <3>2. list'[m] = list[m]
      BY <1>1, <1>3, <2>2
    <3>3. \A e \in Mine(m) : e \in Elems \ (Mine(l) \cup {el})
      BY <2>2 DEF Mine
    <3>4. \A e \in Mine(m) : r.prev[e] = prev[e] /\ r.next[e] = next[e]
      BY <3>3 DEF Left
    <3>5. IsList(kind, list[m], prev, next, Mine(m))
      BY DEF ListsInv
    <3>6. IsList(kind, list[m], r.prev, r.next, Mine(m))
      BY <3>4, <3>5, ListKept
    <3> QED
      BY <1>1, <3>1, <3>2, <3>6
  <2> QED
    BY <2>1, <2>2
<1>6. OthersKept(l, el)
  BY <1>1 DEF OthersKept, Left
<1> QED
  BY <1>2, <1>5, <1>6 DEF ListsInv

(***************************************************************************)
(* The calls.                                                              *)
(***************************************************************************)
\* What the invariant says of one list.
LEMMA OfOneList ==
    ASSUME ListsInv, NEW l \in Names
    PROVE  /\ NULL \notin Elems /\ NULL \notin Names /\ IsFiniteSet(Elems)
           /\ IsLinks(prev, next, Elems)
           /\ Mine(l) \in SUBSET Elems
           /\ \A el \in Elems : /\ where[el] = NULL => el \in Elems \ Mine(l)
                                /\ where[el] = l => el \in Mine(l)
           /\ kind \in {"simple", "double", "circular"}
           /\ kind = "simple" => IsSimple(list[l], next, Mine(l))
           /\ kind = "double" => IsDouble(list[l], prev, next, Mine(l))
           /\ kind = "circular" => IsRing(list[l], prev, next, Mine(l))
           /\ list[l] \in Mine(l) \cup {NULL}
<1>1. IsList(kind, list[l], prev, next, Mine(l)) /\ TypeOK
  BY DEF ListsInv
<1>2. list[l] \in Mine(l) \cup {NULL}
  BY <1>1, SimpleLinks DEF IsList, TypeOK, IsDouble, IsRing
<1>3. NULL \notin Elems /\ NULL \notin Names /\ IsFiniteSet(Elems)
  BY ElemsAssumption
<1> QED
  BY <1>1, <1>2, <1>3 DEF IsList, TypeOK, Link, IsLinks, Mine

\* The calls that insert at the head ...
LEMMA PushHeadKeeps ==
    ASSUME ListsInv, NEW l \in Names, NEW el \in Elems, PushHead(l, el)
    PROVE  ListsInv' /\ OthersKept(l, el)
<1> DEFINE r == CASE kind = "simple" -> SPush(RingOf(l), el)
                  [] kind = "double" -> DPush(RingOf(l), el)
                  [] kind = "circular" -> CPush(RingOf(l), el)
           S == Mine(l)
<1>1. Done(l, r, el, l, "push_head") /\ where[el] = NULL
  BY DEF PushHead, MayInsert
<1>2. RingOf(l) = Ring(list[l], prev, next)
  BY DEF RingOf
<1>3. /\ Left(Elems, S, prev, next, el, r)
      /\ IsList(kind, r.list, r.prev, r.next, S \cup {el})
  <2>1. CASE kind = "simple"
    <3>1. r = SPush(Ring(list[l], prev, next), el)
      BY <1>2, <2>1
    <3> HIDE DEF r
    <3> QED
      BY <1>1, <2>1, <3>1, OfOneList, SPushSimple DEF IsList
  <2>2. CASE kind = "double"
    <3>1. r = DPush(Ring(list[l], prev, next), el)
      BY <1>2, <2>2
    <3> HIDE DEF r
    <3> QED
      BY <1>1, <2>2, <3>1, OfOneList, DPushDouble DEF IsList
  <2>3. CASE kind = "circular"
    <3>1. r = CPush(Ring(list[l], prev, next), el)
      BY <1>2, <2>3
    <3> HIDE DEF r
    <3> QED
      BY <1>1, <2>3, <3>1, OfOneList, CPushKeeps DEF IsList
  <2> QED
    BY <2>1, <2>2, <2>3, OfOneList
<1> HIDE DEF r, S
<1>4. l # NULL
  BY OfOneList
<1> QED
  BY <1>1, <1>3, <1>4, OfOneList, DoneKeeps DEF S

\* ... at the tail ...
LEMMA PushTailCKeeps ==
    ASSUME ListsInv, NEW l \in Names, NEW el \in Elems, PushTailC(l, el)
    PROVE  ListsInv' /\ OthersKept(l, el)
<1> DEFINE r == PushTail(Ring(list[l], prev, next), el)
           S == Mine(l)
<1>1. Done(l, r, el, l, "push_tail") /\ where[el] = NULL /\ kind = "circular"
  BY DEF PushTailC, MayInsert, RingOf
<1>2. Left(Elems, S, prev, next, el, r) /\ IsRing(r.list, r.prev, r.next, S \cup {el})
  BY <1>1, OfOneList, PushTailKeeps
<1> HIDE DEF r, S
<1>3. IsList(kind, r.list, r.prev, r.next, S \cup {el})
  BY <1>1, <1>2 DEF IsList
<1>4. l # NULL
  BY OfOneList
<1> QED
  BY <1>1, <1>2, <1>3, <1>4, OfOneList, DoneKeeps DEF S

\* ... after an element ...
LEMMA InsertAfterKeeps ==
    ASSUME ListsInv, NEW l \in Names, NEW el \in Elems,
           NEW before \in Elems \cup {NULL}, InsertAfter(l, before, el)
    PROVE  ListsInv' /\ OthersKept(l, el)
<1> DEFINE r == SInsertAfter(Ring(list[l], prev, next), before, el)
           S == Mine(l)
<1>1. /\ Done(l, r, el, l, "insert_after") /\ where[el] = NULL /\ kind = "simple"
      /\ before \in S \cup {NULL}
  BY DEF InsertAfter, MayInsert, RingOf, Mine
<1>2. Left(Elems, S, prev, next, el, r) /\ IsSimple(r.list, r.next, S \cup {el})
  BY <1>1, OfOneList, SInsertAfterSimple
<1> HIDE DEF r, S
<1>3. IsList(kind, r.list, r.prev, r.next, S \cup {el})
  BY <1>1, <1>2 DEF IsList
<1>4. l # NULL
  BY OfOneList
<1> QED
  BY <1>1, <1>2, <1>3, <1>4, OfOneList, DoneKeeps DEF S

\* ... and in order.
LEMMA InsertOrderedKeeps ==
    ASSUME ListsInv, NEW l \in Names, NEW el \in Elems, InsertOrdered(l, el)
    PROVE  ListsInv' /\ OthersKept(l, el)
<1> DEFINE r == IF kind = "simple" THEN SInsertOrdered(Ring(list[l], prev, next), el)
                                   ELSE CInsertOrdered(Ring(list[l], prev, next), el)
           S == Mine(l)
<1>1. Done(l, r, el, l, "insert_ordered") /\ where[el] = NULL /\ kind # "double"
  BY DEF InsertOrdered, MayInsert, RingOf
<1>2. /\ Left(Elems, S, prev, next, el, r)
      /\ IsList(kind, r.list, r.prev, r.next, S \cup {el})
  <2>1. CASE kind = "simple"
    <3>1. r = SInsertOrdered(Ring(list[l], prev, next), el)
      BY <2>1
    <3>2. list[l] = NULL \/ \E e \in S : ~Greater(el, e)
      BY <2>1 DEF InsertOrdered, Mine
    <3> HIDE DEF r
    <3> QED
      BY <1>1, <2>1, <3>1, <3>2, OfOneList, SInsertOrderedSimple DEF IsList
  <2>2. CASE kind = "circular"
    <3>1. r = CInsertOrdered(Ring(list[l], prev, next), el)
      BY <2>2
    <3> HIDE DEF r
    <3> QED
      BY <1>1, <2>2, <3>1, OfOneList, CInsertOrderedKeeps DEF IsList
  <2> QED
    BY <1>1, <2>1, <2>2, OfOneList
<1> HIDE DEF r, S
<1>3. l # NULL
  BY OfOneList
<1> QED
  BY <1>1, <1>2, <1>3, OfOneList, DoneKeeps DEF S

\* The call that deletes an element ...
LEMMA DeleteElementKeeps ==
    ASSUME ListsInv, NEW l \in Names, NEW el \in Elems, DeleteElement(l, el)
    PROVE  ListsInv' /\ OthersKept(l, el)
<1> DEFINE r == CASE kind = "simple" -> SDelete(RingOf(l), Before(l, el), el)
                  [] kind = "double" -> DDelete(RingOf(l), el)
                  [] kind = "circular" -> DeleteEl(RingOf(l), el)
           S == Mine(l)
<1>1. Done(l, r, el, NULL, "delete_el") /\ where[el] = l /\ el \in S
  BY DEF DeleteElement, MayDelete, Mine
<1>2. RingOf(l) = Ring(list[l], prev, next)
  BY DEF RingOf
<1>3. Left(Elems, S, prev, next, el, r) /\ IsList(kind, r.list, r.prev, r.next, S \ {el})
  <2>1. CASE kind = "simple"
    <3> DEFINE before == Before(l, el)
    <3>1. r = SDelete(Ring(list[l], prev, next), before, el)
      BY <1>2, <2>1
    <3>2. IF before = NULL THEN el = list[l] ELSE before \in S /\ next[before] = el
      BY <1>1, <2>1, OfOneList, BeforeIs
    <3> HIDE DEF r, before
    <3> QED
      BY <1>1, <2>1, <3>1, <3>2, OfOneList, SDeleteSimple DEF IsList
  <2>2. CASE kind = "double"
    <3>1. r = DDelete(Ring(list[l], prev, next), el)
      BY <1>2, <2>2
    <3> HIDE DEF r
    <3> QED
      BY <1>1, <2>2, <3>1, OfOneList, DDeleteDouble DEF IsList
  <2>3. CASE kind = "circular"
    <3>1. r = DeleteEl(Ring(list[l], prev, next), el)
      BY <1>2, <2>3
    <3> HIDE DEF r
    <3> QED
      BY <1>1, <2>3, <3>1, OfOneList, DeleteElKeeps DEF IsList
  <2> QED
    BY <2>1, <2>2, <2>3, OfOneList
<1> HIDE DEF r, S
<1> QED
  BY <1>1, <1>3, OfOneList, DoneKeeps DEF S

\* ... and the one that takes the head.
LEMMA TakeHeadKeeps ==
    ASSUME ListsInv, NEW l \in Names, TakeHead(l)
    PROVE  ListsInv' /\ OthersKept(l, list[l])
<1> DEFINE r == CASE kind = "simple" -> SPop(RingOf(l))
                  [] kind = "double" -> DDeleteHead(RingOf(l), list[l])
                  [] kind = "circular" -> PopHead(RingOf(l))
           S == Mine(l)
           el == list[l]
<1>1. Done(l, r, el, NULL, "pop_head") /\ el # NULL
  BY DEF TakeHead
<1>2. RingOf(l) = Ring(el, prev, next) /\ RingOf(l).list = el
  BY DEF RingOf, Ring
<1>3. el \in S /\ el \in Elems /\ where[el] = l
  BY <1>1, OfOneList DEF Mine
<1>4. Left(Elems, S, prev, next, el, r) /\ IsList(kind, r.list, r.prev, r.next, S \ {el})
  <2>1. CASE kind = "simple"
    <3>1. r = SPop(Ring(el, prev, next))
      BY <1>2, <2>1
    <3> HIDE DEF r
    <3> QED
      BY <1>3, <2>1, <3>1, OfOneList, SPopSimple DEF IsList
  <2>2. CASE kind = "double"
    <3>1. r = DDeleteHead(Ring(el, prev, next), el)
      BY <1>2, <2>2
    <3> HIDE DEF r
    <3> QED
      BY <1>3, <2>2, <3>1, OfOneList, DDeleteHeadDouble DEF IsList
  <2>3. CASE kind = "circular"
    <3>1. r = DeleteEl(Ring(el, prev, next), el)
      BY <1>2, <2>3 DEF PopHead
    <3> HIDE DEF r
    <3> QED
      BY <1>3, <2>3, <3>1, OfOneList, DeleteElKeeps DEF IsList
  <2> QED
    BY <2>1, <2>2, <2>3, OfOneList
<1> HIDE DEF r, S, el
<1>5. ListsInv' /\ OthersKept(l, el)
  BY <1>1, <1>3, <1>4, OfOneList, DoneKeeps DEF S
<1> QED
  BY <1>5 DEF el

\* The lists start empty.
LEMMA ListsInit == Init => ListsInv
<1> SUFFICES ASSUME Init PROVE ListsInv
  OBVIOUS
<1>1. TypeOK
  BY DEF Init, TypeOK, Link
<1>2. ASSUME NEW l \in Names PROVE IsList(kind, list[l], prev, next, Mine(l))
  <2>1. list[l] = NULL /\ Mine(l) = {}
    BY ElemsAssumption DEF Init, Mine
  <2> QED
    BY <2>1 DEF IsList, IsDouble, IsSimple, IsRing
<1> QED
  BY <1>1, <1>2 DEF ListsInv

\* Whatever the clients call, the lists stay lists of the elements that the
\* clients put on them, and no macro follows NULL or fails its KASSERT.
THEOREM ListsInvariant == Spec => []ListsInv
<1>1. ListsInv /\ [Next]_vars => ListsInv'
  <2> SUFFICES ASSUME ListsInv, [Next]_vars PROVE ListsInv'
    OBVIOUS
  <2>1. ASSUME NEW l \in Names, TakeHead(l) PROVE ListsInv'
    BY <2>1, TakeHeadKeeps
  <2>2. ASSUME NEW l \in Names, Length(l) PROVE ListsInv'
    BY <2>2 DEF Length, ListsInv, TypeOK, IsList, Mine
  <2>3. ASSUME NEW l \in Names, NEW el \in Elems, PushHead(l, el) PROVE ListsInv'
    BY <2>3, PushHeadKeeps
  <2>4. ASSUME NEW l \in Names, NEW el \in Elems, PushTailC(l, el) PROVE ListsInv'
    BY <2>4, PushTailCKeeps
  <2>5. ASSUME NEW l \in Names, NEW el \in Elems, InsertOrdered(l, el) PROVE ListsInv'
    BY <2>5, InsertOrderedKeeps
  <2>6. ASSUME NEW l \in Names, NEW el \in Elems, DeleteElement(l, el) PROVE ListsInv'
    BY <2>6, DeleteElementKeeps
  <2>7. ASSUME NEW l \in Names, NEW el \in Elems, NEW before \in Elems \cup {NULL},
               InsertAfter(l, before, el)
        PROVE  ListsInv'
    BY <2>7, InsertAfterKeeps
  <2>8. CASE UNCHANGED vars
    BY <2>8 DEF vars, ListsInv, TypeOK, IsList, Mine
  <2> QED
    BY <2>1, <2>2, <2>3, <2>4, <2>5, <2>6, <2>7, <2>8 DEF Next
<1> QED
  BY <1>1, ListsInit, PTL DEF Spec

\* The links of the elements of a list are each other's inverse, and a walk
\* over the list visits its elements and no other.
THEOREM ListsLinkedBothWays == Spec => []LinkedBothWays
<1>1. ListsInv => LinkedBothWays
  <2> SUFFICES ASSUME ListsInv, NEW l \in Names
               PROVE  /\ kind = "circular" => IsRing(list[l], prev, next, Mine(l))
                      /\ kind = "double" =>
                           \A e \in Mine(l) :
                              /\ IF prev[e] = NULL THEN list[l] = e ELSE next[prev[e]] = e
                              /\ next[e] # NULL => prev[next[e]] = e
                      /\ {Contents(l)[i] : i \in DOMAIN Contents(l)} = Mine(l)
    BY DEF LinkedBothWays, Mine
  <2>1. kind = "double" =>
          \A e \in Mine(l) : /\ IF prev[e] = NULL THEN list[l] = e ELSE next[prev[e]] = e
                             /\ next[e] # NULL => prev[next[e]] = e
    <3> SUFFICES ASSUME kind = "double", NEW e \in Mine(l)
                 PROVE  /\ IF prev[e] = NULL THEN list[l] = e ELSE next[prev[e]] = e
                        /\ next[e] # NULL => prev[next[e]] = e
      OBVIOUS
    <3>1. IsDouble(list[l], prev, next, Mine(l)) /\ NULL \notin Mine(l)
      BY OfOneList
    <3> QED
      BY <3>1, DoubleLinks DEF IsDouble
  <2>2. {Contents(l)[i] : i \in DOMAIN Contents(l)} = Mine(l)
    <3> DEFINE stop == IF kind = "circular" THEN list[l] ELSE NULL
               p == Contents(l)
    <3>1. p = Walk(next, list[l], stop)
      BY DEF Contents
    <3>2. CASE list[l] = NULL
      <4>1. p = <<>>
        BY <3>1, <3>2 DEF Walk
      <4>2. Mine(l) = {}
        BY <3>2, OfOneList DEF IsRing, IsDouble, IsSimple
      <4> QED
        BY <4>1, <4>2
    <3>3. CASE list[l] # NULL
      <4>1. Runs(list[l], next, stop, Mine(l))
        BY <3>3, OfOneList, RingRuns DEF IsDouble, IsSimple
      <4>2. Visits(Walk(next, list[l], stop), Mine(l), next, list[l], stop)
        BY <4>1, OfOneList, WalkVisits DEF IsLinks
      <4> HIDE DEF p, stop
      <4> QED
        <5>1. Visits(p, Mine(l), next, list[l], stop)
          BY <3>1, <4>2 DEF p
        <5>2. /\ DOMAIN p = 1..Len(p) /\ \A i \in 1..Len(p) : p[i] \in Mine(l)
              /\ \A e \in Mine(l) : \E i \in 1..Len(p) : p[i] = e
          BY <5>1 DEF Visits
        <5> QED
          BY <5>2 DEF p
    <3> QED
      BY <3>2, <3>3
  <2> QED
    BY <2>1, <2>2, OfOneList
<1> QED
  BY <1>1, ListsInvariant, PTL

(***************************************************************************)
(* The lists as sequences.                                                 *)
(***************************************************************************)
\* p is what a list of S, whose variable is lst, holds in order.
Spells(k, lst, nx, S, p) ==
    IF lst = NULL THEN S = {} /\ p = <<>>
    ELSE Visits(p, S, nx, lst, IF k = "circular" THEN lst ELSE NULL)

\* A list can be walked up to its end.
LEMMA ListRuns ==
    ASSUME NEW k \in {"simple", "double", "circular"}, NEW S, NEW lst, lst # NULL,
           NEW pv, NEW nx, IsList(k, lst, pv, nx, S)
    PROVE  Runs(lst, nx, IF k = "circular" THEN lst ELSE NULL, S)
<1>1. CASE k = "simple"
  BY <1>1 DEF IsList, IsSimple
<1>2. CASE k = "double"
  BY <1>2 DEF IsList, IsDouble, IsSimple
<1>3. CASE k = "circular"
  BY <1>3, RingRuns DEF IsList
<1> QED
  BY <1>1, <1>2, <1>3

\* An empty list has no elements.
LEMMA ListEmpty ==
    ASSUME NEW k \in {"simple", "double", "circular"}, NEW S, NEW pv, NEW nx,
           IsList(k, NULL, pv, nx, S)
    PROVE  S = {}
BY DEF IsList, IsDouble, IsSimple, IsRing

\* The walk over a list is one over its elements ...
LEMMA ListSpelled ==
    ASSUME NEW E, IsFiniteSet(E), NULL \notin E, NEW S \in SUBSET E,
           NEW pv, NEW nx \in [E -> E \cup {NULL}],
           NEW k \in {"simple", "double", "circular"}, NEW lst, IsList(k, lst, pv, nx, S)
    PROVE  Spells(k, lst, nx, S, Walk(nx, lst, IF k = "circular" THEN lst ELSE NULL))
<1> DEFINE stop == IF k = "circular" THEN lst ELSE NULL
<1>1. CASE lst = NULL
  <2>1. Walk(nx, lst, stop) = <<>>
    BY <1>1 DEF Walk
  <2>2. S = {}
    BY <1>1, ListEmpty
  <2> QED
    BY <1>1, <2>1, <2>2 DEF Spells
<1>2. CASE lst # NULL
  <2>1. Runs(lst, nx, stop, S)
    BY <1>2, ListRuns
  <2>2. stop \in {lst, NULL}
    OBVIOUS
  <2> HIDE DEF stop
  <2>3. Visits(Walk(nx, lst, stop), S, nx, lst, stop)
    BY <2>1, <2>2, WalkVisits
  <2> QED
    BY <1>2, <2>3 DEF Spells, stop
<1> QED
  BY <1>1, <1>2

\* ... and there is no other.
LEMMA SpelledOnce ==
    ASSUME NEW E, IsFiniteSet(E), NULL \notin E, NEW S \in SUBSET E,
           NEW pv, NEW nx \in [E -> E \cup {NULL}],
           NEW k \in {"simple", "double", "circular"}, NEW lst, IsList(k, lst, pv, nx, S),
           NEW p, Spells(k, lst, nx, S, p)
    PROVE  Walk(nx, lst, IF k = "circular" THEN lst ELSE NULL) = p
<1> DEFINE stop == IF k = "circular" THEN lst ELSE NULL
<1>1. CASE lst = NULL
  BY <1>1 DEF Walk, Spells
<1>2. CASE lst # NULL
  <2>1. Runs(lst, nx, stop, S)
    BY <1>2, ListRuns
  <2>2. stop \in {lst, NULL} /\ Visits(p, S, nx, lst, stop)
    BY <1>2 DEF Spells
  <2> HIDE DEF stop
  <2>3. Walk(nx, lst, stop) = p
    BY <2>1, <2>2, WalkIs
  <2> QED
    BY <2>3 DEF stop
<1> QED
  BY <1>1, <1>2

\* What a list of S holds, as a sequence p that starts with lst.
Orders(p, S, lst) ==
    /\ p \in Seq(S) /\ Len(p) \in Nat /\ DOMAIN p = 1..Len(p)
    /\ p = <<>> <=> lst = NULL
    /\ lst # NULL => Len(p) # 0 /\ p[1] = lst
    /\ \A i \in 1..Len(p) : p[i] \in S
    /\ \A i, j \in 1..Len(p) : i # j => p[i] # p[j]
    /\ \A e \in S : \E i \in 1..Len(p) : p[i] = e

\* Every list that spells p is ordered by it.
LEMMA SpelledIs ==
    ASSUME NEW k, NEW S, NULL \notin S, NEW lst, NEW nx, NEW p, Spells(k, lst, nx, S, p)
    PROVE  Orders(p, S, lst)
<1>1. CASE lst = NULL
  BY <1>1 DEF Spells, Orders
<1>2. CASE lst # NULL
  <2>1. /\ p \in Seq(S) /\ Len(p) \in Nat \ {0} /\ DOMAIN p = 1..Len(p) /\ p[1] = lst
        /\ \A i \in 1..Len(p) : p[i] \in S
        /\ \A i, j \in 1..Len(p) : i # j => p[i] # p[j]
        /\ \A e \in S : \E i \in 1..Len(p) : p[i] = e
    BY <1>2 DEF Spells, Visits
  <2>2. p # <<>>
    BY <2>1
  <2> QED
    BY <1>2, <2>1, <2>2 DEF Orders
<1> QED
  BY <1>1, <1>2

\* A push at the head of a list that ends in NULL.
LEMMA HeadSpelled ==
    ASSUME NEW k, k # "circular", NEW S, NULL \notin S, NEW lst, NEW nx, NEW p,
           Spells(k, lst, nx, S, p), NEW el, el \notin S, el # NULL,
           NEW nx2, nx2[el] = lst, \A e \in S : nx2[e] = nx[e]
    PROVE  Spells(k, el, nx2, S \cup {el}, InsertAt(p, 1, el))
<1>1. CASE lst = NULL
  <2>1. S = {} /\ p = <<>>
    BY <1>1 DEF Spells
  <2>2. Visits(InsertAt(<<>>, 1, el), {el}, nx2, el, NULL)
    BY <1>1, LinkedAlone
  <2>3. S \cup {el} = {el}
    BY <2>1
  <2> QED
    BY <2>1, <2>2, <2>3 DEF Spells
<1>2. CASE lst # NULL
  <2>1. Visits(p, S, nx, lst, NULL)
    BY <1>2 DEF Spells
  <2>2. p[Len(p)] \in S /\ nx[p[Len(p)]] = NULL
    BY <2>1 DEF Visits
  <2>3. nx2[p[Len(p)]] = NULL /\ \A e \in S \ {p[Len(p)]} : nx2[e] = nx[e]
    BY <2>2
  <2>4. Visits(InsertAt(p, 1, el), S \cup {el}, nx2, el, NULL)
    BY <2>1, <2>3, LinkedInFront
  <2> QED
    BY <2>4 DEF Spells
<1> QED
  BY <1>1, <1>2

\* A new element behind another one of any list.
LEMMA BehindSpelled ==
    ASSUME NEW k, NEW S, NULL \notin S, NEW lst, lst # NULL, NEW nx, NEW p,
           Spells(k, lst, nx, S, p), NEW el, el \notin S,
           NEW i \in 2..(Len(p) + 1), NEW nx2,
           nx2[p[i - 1]] = el, nx2[el] = nx[p[i - 1]],
           \A e \in S \ {p[i - 1]} : nx2[e] = nx[e]
    PROVE  Spells(k, lst, nx2, S \cup {el}, InsertAt(p, i, el))
<1> DEFINE stop == IF k = "circular" THEN lst ELSE NULL
<1>1. Visits(p, S, nx, lst, stop)
  BY DEF Spells
<1> HIDE DEF stop
<1>2. Visits(InsertAt(p, i, el), S \cup {el}, nx2, lst, stop)
  BY <1>1, LinkedBehind
<1> QED
  BY <1>2 DEF Spells, stop

\* The head of a list that ends in NULL deleted.
LEMMA HeadCutSpelled ==
    ASSUME NEW k, k # "circular", NEW S, NULL \notin S, NEW lst \in S, NEW nx, NEW p,
           Spells(k, lst, nx, S, p), NEW nx2, \A e \in S \ {lst} : nx2[e] = nx[e]
    PROVE  Spells(k, nx[lst], nx2, S \ {lst}, RemoveAt(p, 1))
<1>1. Visits(p, S, nx, lst, NULL)
  BY DEF Spells
<1>2. CASE Len(p) = 1
  <2>1. RemoveAt(p, 1) = <<>> /\ S = {lst} /\ nx[lst] = NULL
    BY <1>1, <1>2, CutAlone
  <2> QED
    BY <2>1 DEF Spells
<1>3. CASE Len(p) # 1
  <2>1. /\ Len(p) \in Nat \ {0} /\ p[1] = lst /\ nx[p[Len(p)]] = NULL
        /\ \A i \in 1..(Len(p) - 1) : p[i + 1] = nx[p[i]]
        /\ \A i \in 1..Len(p) : p[i] \in S
        /\ \A i, j \in 1..Len(p) : i # j => p[i] # p[j]
    BY <1>1 DEF Visits
  <2> DEFINE n == Len(p)
  <2>2. n \in 1..n /\ 1 \in 1..n /\ n # 1 /\ 1 \in 1..(n - 1) /\ 1 + 1 \in 1..n
    <3>1. n \in Nat \ {0} /\ n # 1
      BY <1>3, <2>1
    <3> HIDE DEF n
    <3> QED
      BY <3>1
  <2>3. p[n] \in S \ {lst} /\ nx[lst] \in S
    BY <2>1, <2>2
  <2>4. nx2[p[n]] = NULL /\ \A e \in S \ {lst, p[n]} : nx2[e] = nx[e]
    BY <2>1, <2>3
  <2>5. Visits(RemoveAt(p, 1), S \ {lst}, nx2, nx[lst], NULL)
    BY <1>1, <1>3, <2>4, CutHead
  <2> QED
    BY <2>3, <2>5 DEF Spells
<1> QED
  BY <1>2, <1>3

\* An element that is not the head deleted.
LEMMA BehindCutSpelled ==
    ASSUME NEW k, NEW S, NULL \notin S, NEW lst, lst # NULL, NEW nx, NEW p,
           Spells(k, lst, nx, S, p), NEW i \in 2..Len(p), NEW nx2,
           nx2[p[i - 1]] = nx[p[i]], \A e \in S \ {p[i - 1], p[i]} : nx2[e] = nx[e]
    PROVE  Spells(k, lst, nx2, S \ {p[i]}, RemoveAt(p, i))
<1> DEFINE stop == IF k = "circular" THEN lst ELSE NULL
<1>1. Visits(p, S, nx, lst, stop)
  BY DEF Spells
<1> HIDE DEF stop
<1>2. Visits(RemoveAt(p, i), S \ {p[i]}, nx2, lst, stop)
  BY <1>1, CutBehind
<1> QED
  BY <1>2 DEF Spells, stop

(***************************************************************************)
(* What the macros make of the sequences.                                  *)
(***************************************************************************)
\* The links back of a ring go to the place before.
LEMMA RingBack ==
    ASSUME NEW S, NULL \notin S, NEW lst, lst # NULL, NEW pv, NEW nx, IsRing(lst, pv, nx, S),
           NEW p, Visits(p, S, nx, lst, lst)
    PROVE  /\ pv[lst] = p[Len(p)]
           /\ \A i \in 2..Len(p) : pv[p[i]] = p[i - 1]
<1>1. Linked(pv, nx, S)
  BY DEF IsRing
<1>2. /\ Len(p) \in Nat \ {0} /\ nx[p[Len(p)]] = lst
      /\ \A i \in 1..(Len(p) - 1) : p[i + 1] = nx[p[i]]
      /\ \A i \in 1..Len(p) : p[i] \in S
  BY DEF Visits
<1> DEFINE n == Len(p)
<1>3. pv[lst] = p[n]
  <2>1. p[n] \in S /\ nx[p[n]] = lst
    BY <1>2
  <2> HIDE DEF n
  <2> QED
    BY <1>1, <2>1 DEF Linked
<1>4. ASSUME NEW i \in 2..n PROVE pv[p[i]] = p[i - 1]
  <2>1. i - 1 \in 1..(n - 1) /\ i - 1 \in 1..n /\ (i - 1) + 1 = i
    BY <1>2
  <2>2. p[i - 1] \in S /\ p[i] = nx[p[i - 1]]
    BY <1>2, <2>1
  <2> QED
    BY <1>1, <2>2 DEF Linked
<1> QED
  BY <1>3, <1>4

\* The links that a push in front of the element c of a ring leaves.
LEMMA TailLinks ==
    ASSUME NEW E, NULL \notin E, NEW pv, NEW nx, IsLinks(pv, nx, E),
           NEW S \in SUBSET E, Linked(pv, nx, S), NEW c \in S, NEW el \in E \ S,
           NEW r, r = PushTail(Ring(c, pv, nx), el)
    PROVE  /\ r.list = c /\ pv[c] \in S
           /\ r.next[pv[c]] = el /\ r.next[el] = c
           /\ \A e \in S \ {pv[c]} : r.next[e] = nx[e]
<1>1. c # NULL /\ pv[c] \in S /\ pv[c] # NULL /\ pv[c] # el
  BY DEF Linked
<1> DEFINE nx2 == [nx EXCEPT ![el] = c, ![pv[c]] = el]
<1>2. r.list = c /\ r.next = nx2
  BY <1>1 DEF PushTail, Ring, IsEmpty
<1>3. nx2[pv[c]] = el /\ nx2[el] = c /\ \A e \in S \ {pv[c]} : nx2[e] = nx[e]
  BY <1>1 DEF IsLinks
<1> HIDE DEF nx2
<1> QED
  BY <1>1, <1>2, <1>3

\* clist_push_tail puts the element behind all.
LEMMA PushTailSpelled ==
    ASSUME NEW E, NULL \notin E, NEW pv, NEW nx, IsLinks(pv, nx, E),
           NEW S \in SUBSET E, NEW lst, IsRing(lst, pv, nx, S), NEW el \in E \ S,
           NEW p, Spells("circular", lst, nx, S, p), NEW i, i = Len(p) + 1,
           NEW r, r = PushTail(Ring(lst, pv, nx), el)
    PROVE  Spells("circular", r.list, r.next, S \cup {el}, InsertAt(p, i, el))
<1>1. CASE lst = NULL
  <2>1. S = {} /\ p = <<>>
    BY <1>1 DEF Spells
  <2>2. r.list = el /\ r.next = [nx EXCEPT ![el] = el]
    BY <1>1 DEF PushTail, Ring, IsEmpty
  <2>3. r.next[el] = el /\ el # NULL
    BY <2>2 DEF IsLinks
  <2>4. Visits(InsertAt(<<>>, 1, el), {el}, r.next, el, el)
    BY <2>3, LinkedAlone
  <2>5. S \cup {el} = {el} /\ i = 1
    BY <2>1
  <2> QED
    BY <1>1, <2>1, <2>2, <2>3, <2>4, <2>5 DEF Spells
<1>2. CASE lst # NULL
  <2>1. Visits(p, S, nx, lst, lst) /\ NULL \notin S
    BY <1>2 DEF Spells
  <2>2. lst \in S /\ Linked(pv, nx, S)
    BY <1>2 DEF IsRing
  <2>3. pv[lst] = p[Len(p)]
    <3>1. p[Len(p)] \in S /\ nx[p[Len(p)]] = lst
      BY <2>1 DEF Visits
    <3> DEFINE e == p[Len(p)]
    <3> HIDE DEF e
    <3>2. e \in S /\ nx[e] = lst
      BY <3>1 DEF e
    <3> QED
      BY <2>2, <3>2 DEF Linked, e
  <2>4. /\ Len(p) \in Nat \ {0} /\ nx[p[Len(p)]] = lst
    BY <2>1 DEF Visits
  <2>5. /\ r.list = lst /\ r.next[pv[lst]] = el /\ r.next[el] = lst
        /\ \A e \in S \ {pv[lst]} : r.next[e] = nx[e]
    BY <2>2, TailLinks
  <2>6. i \in 2..(Len(p) + 1) /\ i - 1 = Len(p)
    <3> DEFINE n == Len(p)
    <3>1. n \in Nat \ {0} /\ i = n + 1
      BY <2>4
    <3> HIDE DEF n
    <3>2. i \in 2..(n + 1) /\ i - 1 = n
      BY <3>1
    <3> QED
      BY <3>2 DEF n
  <2>7. /\ r.next[p[i - 1]] = el /\ r.next[el] = nx[p[i - 1]]
        /\ \A e \in S \ {p[i - 1]} : r.next[e] = nx[e]
    BY <2>3, <2>4, <2>5, <2>6
  <2>8. Spells("circular", lst, r.next, S \cup {el}, InsertAt(p, i, el))
    BY <1>2, <2>1, <2>6, <2>7, BehindSpelled
  <2> QED
    BY <2>5, <2>8
<1> QED
  BY <1>1, <1>2

\* clist_push_head puts it in front.
LEMMA CPushSpelled ==
    ASSUME NEW E, NULL \notin E, NEW pv, NEW nx, IsLinks(pv, nx, E),
           NEW S \in SUBSET E, NEW lst, IsRing(lst, pv, nx, S), NEW el \in E \ S,
           NEW p, Spells("circular", lst, nx, S, p),
           NEW r, r = CPush(Ring(lst, pv, nx), el)
    PROVE  Spells("circular", r.list, r.next, S \cup {el}, InsertAt(p, 1, el))
<1> DEFINE q == PushTail(Ring(lst, pv, nx), el)
<1>0. r.list = el /\ r.next = q.next /\ el # NULL
  BY DEF CPush, PushTail, Ring, Faulted
<1>1. CASE lst = NULL
  <2>1. S = {} /\ p = <<>>
    BY <1>1 DEF Spells
  <2>2. q.next = [nx EXCEPT ![el] = el]
    BY <1>1 DEF PushTail, Ring, IsEmpty
  <2>3. r.next[el] = el
    BY <1>0, <2>2 DEF IsLinks
  <2>4. Visits(InsertAt(<<>>, 1, el), {el}, r.next, el, el)
    BY <2>3, LinkedAlone
  <2>5. S \cup {el} = {el}
    BY <2>1
  <2> QED
    BY <1>0, <2>1, <2>4, <2>5 DEF Spells
<1>2. CASE lst # NULL
  <2>1. Visits(p, S, nx, lst, lst) /\ NULL \notin S
    BY <1>2 DEF Spells
  <2>2. lst \in S /\ Linked(pv, nx, S)
    BY <1>2 DEF IsRing
  <2>3. pv[lst] = p[Len(p)]
    <3>1. p[Len(p)] \in S /\ nx[p[Len(p)]] = lst
      BY <2>1 DEF Visits
    <3> DEFINE e == p[Len(p)]
    <3> HIDE DEF e
    <3>2. e \in S /\ nx[e] = lst
      BY <3>1 DEF e
    <3> QED
      BY <2>2, <3>2 DEF Linked, e
  <2>4. /\ q.next[pv[lst]] = el /\ q.next[el] = lst
        /\ \A e \in S \ {pv[lst]} : q.next[e] = nx[e]
    BY <2>2, TailLinks
  <2> HIDE DEF q
  <2>5. /\ r.next[p[Len(p)]] = el /\ r.next[el] = lst
        /\ \A e \in S \ {p[Len(p)]} : r.next[e] = nx[e]
    BY <1>0, <2>3, <2>4
  <2>6. Visits(InsertAt(p, 1, el), S \cup {el}, r.next, el, el)
    BY <2>1, <2>5, LinkedInFront
  <2> QED
    BY <1>0, <2>6 DEF Spells
<1> QED
  BY <1>1, <1>2

\* clist_delete_el takes away the element and no other.
LEMMA DeleteElSpelled ==
    ASSUME NEW E, NULL \notin E, NEW pv, NEW nx, IsLinks(pv, nx, E),
           NEW S \in SUBSET E, NEW lst, IsRing(lst, pv, nx, S),
           NEW p, Spells("circular", lst, nx, S, p), NEW i \in 1..Len(p), NEW el, el = p[i],
           NEW r, r = DeleteEl(Ring(lst, pv, nx), el)
    PROVE  Spells("circular", r.list, r.next, S \ {el}, RemoveAt(p, i))
<1>1. lst # NULL
  BY DEF Spells
<1>2. Visits(p, S, nx, lst, lst) /\ NULL \notin S
  BY <1>1 DEF Spells
<1>3. lst \in S /\ Linked(pv, nx, S)
  BY <1>1 DEF IsRing
<1>4. /\ Len(p) \in Nat \ {0} /\ p[1] = lst
      /\ \A j \in 1..(Len(p) - 1) : p[j + 1] = nx[p[j]]
      /\ \A j \in 1..Len(p) : p[j] \in S
      /\ \A j, k \in 1..Len(p) : j # k => p[j] # p[k]
  BY <1>2 DEF Visits
<1>5. pv[lst] = p[Len(p)] /\ \A j \in 2..Len(p) : pv[p[j]] = p[j - 1]
  BY <1>1, <1>2, RingBack
<1>6. CASE Len(p) = 1
  <2>1. RemoveAt(p, 1) = <<>> /\ S = {lst}
    BY <1>2, <1>6, CutAlone
  <2>2. i = 1 /\ el = lst /\ pv[lst] = lst /\ nx[lst] = lst
    BY <1>3, <1>4, <1>6, <2>1 DEF Linked
  <2>3. r.list = NULL
    BY <1>1, <2>2 DEF DeleteEl, Ring, IsEmpty, IsSingleton
  <2> QED
    BY <2>1, <2>2, <2>3 DEF Spells
<1>7. CASE Len(p) # 1
  <2> DEFINE n == Len(p)
  <2>1. n \in Nat \ {0} /\ n # 1 /\ i \in 1..n
    BY <1>4, <1>7
  <2>2. 1 \in 1..(n - 1) /\ 1 \in 1..n /\ 1 + 1 \in 1..n /\ n \in 1..n /\ (i # 1 => i \in 2..n /\ i - 1 \in 1..n)
    <3> HIDE DEF n
    <3> QED
      BY <2>1
  <2>3. nx[lst] # lst /\ p[n] # lst /\ p[n] \in S /\ nx[lst] \in S
    BY <1>4, <2>1, <2>2
  <2>4. el \in S /\ pv[el] \in S /\ nx[el] \in S /\ el # NULL /\ pv[el] # NULL /\ nx[el] # NULL
    BY <1>3, <1>4 DEF Linked
  <2>5. r.next = [nx EXCEPT ![pv[el]] = nx[el]] /\ r.list = IF lst = el THEN nx[el] ELSE lst
    <3> HIDE DEF n
    <3> QED
      BY <1>1, <2>3, <2>4 DEF DeleteEl, Ring, IsEmpty, IsSingleton
  <2>6. r.next[pv[el]] = nx[el] /\ \A e \in S \ {pv[el]} : r.next[e] = nx[e]
    BY <2>4, <2>5 DEF IsLinks
  <2>7. CASE i = 1
    <3>1. el = lst /\ r.list = nx[lst] /\ nx[lst] # NULL
      BY <1>4, <2>4, <2>5, <2>7
    <3>2. r.next[p[n]] = nx[lst] /\ \A e \in S \ {lst, p[n]} : r.next[e] = nx[e]
      BY <1>5, <2>6, <3>1
    <3>3. Visits(RemoveAt(p, 1), S \ {lst}, r.next, nx[lst], nx[lst])
      BY <1>2, <1>7, <3>2, CutHead
    <3> QED
      BY <2>7, <3>1, <3>3 DEF Spells
  <2>8. CASE i # 1
    <3>1. i \in 2..n /\ i - 1 \in 1..n
      BY <2>2, <2>8
    <3>2. el # lst /\ pv[el] = p[i - 1]
      <4>1. p[i] # p[1]
        BY <1>4, <2>1, <2>2, <2>8
      <4> QED
        BY <1>4, <1>5, <3>1, <4>1
    <3>3. /\ r.next[p[i - 1]] = nx[p[i]]
          /\ \A e \in S \ {p[i - 1], p[i]} : r.next[e] = nx[e]
      BY <2>6, <3>2
    <3>4. Spells("circular", lst, r.next, S \ {p[i]}, RemoveAt(p, i))
      BY <1>1, <1>2, <3>1, <3>3, BehindCutSpelled
    <3> QED
      BY <2>5, <3>2, <3>4
  <2> QED
    BY <2>7, <2>8
<1> QED
  BY <1>6, <1>7

\* The place of the element whose link leads to the one at place i.
LEMMA PlaceBefore ==
    ASSUME NEW S, NULL \notin S, NEW lst, NEW nx, NEW p, Visits(p, S, nx, lst, NULL),
           NEW i \in 1..Len(p), NEW b \in S, nx[b] = p[i]
    PROVE  i \in 2..Len(p) /\ p[i - 1] = b
<1>1. /\ Len(p) \in Nat \ {0} /\ nx[p[Len(p)]] = NULL
      /\ \A j \in 1..(Len(p) - 1) : p[j + 1] = nx[p[j]]
      /\ \A j \in 1..Len(p) : p[j] \in S
      /\ \A j, k \in 1..Len(p) : j # k => p[j] # p[k]
      /\ \A e \in S : \E j \in 1..Len(p) : p[j] = e
  BY DEF Visits
<1> DEFINE n == Len(p)
<1>2. PICK j \in 1..n : p[j] = b
  BY <1>1
<1>3. j # n
  <2>1. p[i] \in S
    BY <1>1
  <2> QED
    BY <1>1, <1>2, <2>1
<1>4. n \in Nat \ {0} /\ j \in 1..n /\ i \in 1..n
  BY <1>1
<1>5. p[j + 1] = p[i] /\ j + 1 \in 1..n
  <2>1. j \in 1..(n - 1) /\ j + 1 \in 1..n
    <3> HIDE DEF n
    <3> QED
      BY <1>3, <1>4
  <2> QED
    BY <1>1, <1>2, <2>1
<1>6. j + 1 = i
  BY <1>1, <1>5
<1>7. i \in 2..n /\ i - 1 = j
  <2> HIDE DEF n
  <2> QED
    BY <1>4, <1>6
<1> QED
  BY <1>2, <1>7

\* list_push_head puts the element in front.
LEMMA SPushSpelled ==
    ASSUME NEW E, NULL \notin E, NEW pv, NEW nx, IsLinks(pv, nx, E),
           NEW S \in SUBSET E, NEW lst, NEW el \in E \ S,
           NEW p, Spells("simple", lst, nx, S, p),
           NEW r, r = SPush(Ring(lst, pv, nx), el)
    PROVE  Spells("simple", r.list, r.next, S \cup {el}, InsertAt(p, 1, el))
<1>1. r.list = el /\ r.next = [nx EXCEPT ![el] = lst]
  BY DEF SPush, Ring
<1>2. r.next[el] = lst /\ \A e \in S : r.next[e] = nx[e]
  BY <1>1 DEF IsLinks
<1>3. el # NULL /\ NULL \notin S /\ "simple" # "circular" /\ el \notin S
  OBVIOUS
<1>4. Spells("simple", el, r.next, S \cup {el}, InsertAt(p, 1, el))
  BY <1>2, <1>3, HeadSpelled
<1> QED
  BY <1>1, <1>4

\* dlist_push_head does too.
LEMMA DPushSpelled ==
    ASSUME NEW E, NULL \notin E, NEW pv, NEW nx, IsLinks(pv, nx, E),
           NEW S \in SUBSET E, NEW lst, NEW el \in E \ S,
           NEW p, Spells("double", lst, nx, S, p),
           NEW r, r = DPush(Ring(lst, pv, nx), el)
    PROVE  Spells("double", r.list, r.next, S \cup {el}, InsertAt(p, 1, el))
<1>1. r.list = el /\ r.next = [nx EXCEPT ![el] = lst]
  BY DEF DPush, Ring
<1>2. r.next[el] = lst /\ \A e \in S : r.next[e] = nx[e]
  BY <1>1 DEF IsLinks
<1>3. el # NULL /\ NULL \notin S /\ "double" # "circular" /\ el \notin S
  OBVIOUS
<1>4. Spells("double", el, r.next, S \cup {el}, InsertAt(p, 1, el))
  BY <1>2, <1>3, HeadSpelled
<1> QED
  BY <1>1, <1>4

\* list_insert_after puts it behind the element named.
LEMMA SBehindSpelled ==
    ASSUME NEW E, NULL \notin E, NEW pv, NEW nx, IsLinks(pv, nx, E),
           NEW S \in SUBSET E, NEW lst, lst # NULL, NEW el \in E \ S,
           NEW p, Spells("simple", lst, nx, S, p),
           NEW i \in 2..(Len(p) + 1), NEW before \in S, before = p[i - 1],
           NEW r, r = SInsertAfter(Ring(lst, pv, nx), before, el)
    PROVE  Spells("simple", r.list, r.next, S \cup {el}, InsertAt(p, i, el))
<1>1. before # NULL /\ before # el /\ NULL \notin S /\ before \in E
  OBVIOUS
<1>2. r.list = lst /\ r.next = [nx EXCEPT ![el] = nx[before], ![before] = el]
  BY <1>1 DEF SInsertAfter, Ring
<1>3. /\ r.next[before] = el /\ r.next[el] = nx[before]
      /\ \A e \in S \ {before} : r.next[e] = nx[e]
  BY <1>1, <1>2 DEF IsLinks
<1>4. /\ r.next[p[i - 1]] = el /\ r.next[el] = nx[p[i - 1]]
      /\ \A e \in S \ {p[i - 1]} : r.next[e] = nx[e]
  BY <1>3
<1>5. Spells("simple", lst, r.next, S \cup {el}, InsertAt(p, i, el))
  BY <1>1, <1>4, BehindSpelled
<1> QED
  BY <1>2, <1>5

\* list_pop_head takes away the first.
LEMMA SPopSpelled ==
    ASSUME NEW E, NULL \notin E, NEW pv, NEW nx, IsLinks(pv, nx, E),
           NEW S \in SUBSET E, NEW lst \in S,
           NEW p, Spells("simple", lst, nx, S, p),
           NEW r, r = SPop(Ring(lst, pv, nx))
    PROVE  Spells("simple", r.list, r.next, S \ {lst}, RemoveAt(p, 1))
<1>1. lst # NULL /\ NULL \notin S /\ "simple" # "circular"
  OBVIOUS
<1>2. r.list = nx[lst] /\ (r.next = nx \/ r.next = [nx EXCEPT ![lst] = NULL])
  BY <1>1 DEF SPop, SDeleteHead, SSingleton, IsEmpty, Ring
<1>3. \A e \in S \ {lst} : r.next[e] = nx[e]
  BY <1>2 DEF IsLinks
<1> QED
  BY <1>1, <1>2, <1>3, HeadCutSpelled

\* dlist_delete_head does too.
LEMMA DDeleteHeadSpelled ==
    ASSUME NEW E, NULL \notin E, NEW pv, NEW nx, IsLinks(pv, nx, E),
           NEW S \in SUBSET E, NEW lst \in S,
           NEW p, Spells("double", lst, nx, S, p),
           NEW r, r = DDeleteHead(Ring(lst, pv, nx), lst)
    PROVE  Spells("double", r.list, r.next, S \ {lst}, RemoveAt(p, 1))
<1>1. lst # NULL /\ NULL \notin S /\ "double" # "circular"
  OBVIOUS
<1>2. r.list = nx[lst] /\ (r.next = nx \/ r.next = [nx EXCEPT ![lst] = NULL])
  BY <1>1 DEF DDeleteHead, SSingleton, IsEmpty, Ring
<1>3. \A e \in S \ {lst} : r.next[e] = nx[e]
  BY <1>2 DEF IsLinks
<1> QED
  BY <1>1, <1>2, <1>3, HeadCutSpelled

\* list_delete_el takes away the element and no other.
LEMMA SDeleteSpelled ==
    ASSUME NEW E, NULL \notin E, NEW pv, NEW nx, IsLinks(pv, nx, E),
           NEW S \in SUBSET E, NEW lst, lst # NULL,
           NEW p, Spells("simple", lst, nx, S, p), NEW i \in 1..Len(p), NEW el, el = p[i],
           NEW before, IF before = NULL THEN el = lst ELSE before \in S /\ nx[before] = el,
           NEW r, r = SDelete(Ring(lst, pv, nx), before, el)
    PROVE  Spells("simple", r.list, r.next, S \ {el}, RemoveAt(p, i))
<1>1. NULL \notin S /\ "simple" # "circular"
  OBVIOUS
<1>2. Visits(p, S, nx, lst, NULL)
  BY DEF Spells
<1>3. /\ el \in S /\ p[1] = lst /\ 1 \in 1..Len(p) /\ lst \in S
      /\ \A j, k \in 1..Len(p) : j # k => p[j] # p[k]
  BY <1>2 DEF Visits
<1>4. CASE before = NULL
  <2>1. i = 1 /\ el = lst
    BY <1>3, <1>4
  <2>2. r.list = nx[lst] /\ r.next = [nx EXCEPT ![lst] = NULL]
    BY <1>4, <2>1 DEF SDelete, Ring
  <2>3. \A e \in S \ {lst} : r.next[e] = nx[e]
    BY <2>2 DEF IsLinks
  <2>4. Spells("simple", nx[lst], r.next, S \ {lst}, RemoveAt(p, 1))
    BY <1>1, <1>3, <2>3, HeadCutSpelled
  <2> QED
    BY <2>1, <2>2, <2>4
<1>5. CASE before # NULL
  <2>1. before \in S /\ nx[before] = p[i]
    BY <1>5
  <2>2. i \in 2..Len(p) /\ p[i - 1] = before
    BY <1>1, <1>2, <2>1, PlaceBefore
  <2>3. el # lst /\ before # el
    <3>1. i \in 1..Len(p) /\ i # 1 /\ i - 1 \in 1..Len(p) /\ i - 1 # i
      BY <2>2
    <3> QED
      BY <1>3, <2>2, <3>1
  <2>4. r.list = lst /\ r.next = [nx EXCEPT ![before] = nx[el], ![el] = NULL]
    BY <1>5, <2>3 DEF SDelete, Ring
  <2>5. /\ r.next[p[i - 1]] = nx[p[i]]
        /\ \A e \in S \ {p[i - 1], p[i]} : r.next[e] = nx[e]
    BY <1>3, <2>1, <2>2, <2>3, <2>4 DEF IsLinks
  <2>6. Spells("simple", lst, r.next, S \ {p[i]}, RemoveAt(p, i))
    BY <1>1, <2>2, <2>5, BehindCutSpelled
  <2> QED
    BY <2>4, <2>6
<1> QED
  BY <1>4, <1>5

\* dlist_delete_el does too.
LEMMA DDeleteSpelled ==
    ASSUME NEW E, NULL \notin E, NEW pv, NEW nx, IsLinks(pv, nx, E),
           NEW S \in SUBSET E, NEW lst, lst # NULL, IsDouble(lst, pv, nx, S),
           NEW p, Spells("double", lst, nx, S, p), NEW i \in 1..Len(p), NEW el, el = p[i],
           NEW r, r = DDelete(Ring(lst, pv, nx), el)
    PROVE  Spells("double", r.list, r.next, S \ {el}, RemoveAt(p, i))
<1>1. NULL \notin S /\ "double" # "circular"
  OBVIOUS
<1>2. Visits(p, S, nx, lst, NULL)
  BY DEF Spells
<1>3. /\ el \in S /\ p[1] = lst /\ 1 \in 1..Len(p) /\ lst \in S
      /\ \A j, k \in 1..Len(p) : j # k => p[j] # p[k]
  BY <1>2 DEF Visits
<1>4. CASE lst = el
  <2>1. i = 1
    BY <1>3, <1>4
  <2>2. r = DDeleteHead(Ring(lst, pv, nx), lst)
    BY <1>4 DEF DDelete, Ring
  <2>3. Spells("double", r.list, r.next, S \ {lst}, RemoveAt(p, 1))
    BY <1>3, <2>2, DDeleteHeadSpelled
  <2> QED
    BY <1>4, <2>1, <2>3
<1>5. CASE lst # el
  <2>1. pv[el] \in S /\ nx[pv[el]] = el /\ pv[el] # NULL
    BY <1>3, <1>5, DoubleLinks
  <2>2. i \in 2..Len(p) /\ p[i - 1] = pv[el]
    BY <1>1, <1>2, <2>1, PlaceBefore
  <2>3. pv[el] # el
    <3>1. i \in 1..Len(p) /\ i - 1 \in 1..Len(p) /\ i - 1 # i
      BY <2>2
    <3> QED
      BY <1>3, <2>2, <3>1
  <2>4. r.list = lst /\ r.next = [nx EXCEPT ![pv[el]] = nx[el], ![el] = NULL]
    BY <1>5, <2>1 DEF DDelete, Ring
  <2>5. /\ r.next[p[i - 1]] = nx[p[i]]
        /\ \A e \in S \ {p[i - 1], p[i]} : r.next[e] = nx[e]
    BY <1>3, <2>1, <2>2, <2>3, <2>4 DEF IsLinks
  <2>6. Spells("double", lst, r.next, S \ {p[i]}, RemoveAt(p, i))
    BY <1>1, <2>2, <2>5, BehindCutSpelled
  <2> QED
    BY <2>4, <2>6
<1> QED
  BY <1>4, <1>5

\* The place of an element in a sorted list.
InPlace(p, i, el) == \A j \in DOMAIN p : j < i <=> Rank[p[j]] < Rank[el]

\* It is in front of the first one that is not smaller, or behind all.
LEMMA SortedPlace ==
    ASSUME NEW E, Rank \in [E -> Nat], NEW el \in E, NEW n \in Nat, NEW p, DOMAIN p = 1..n,
           \A j \in 1..n : p[j] \in E, Sorted(p), NEW i \in 1..(n + 1),
           \A j \in 1..n : j < i => Greater(el, p[j]),
           i # n + 1 => ~Greater(el, p[i])
    PROVE  InPlace(p, i, el)
<1> SUFFICES ASSUME NEW j \in 1..n PROVE j < i <=> Rank[p[j]] < Rank[el]
  BY DEF InPlace
<1>1. Rank[el] \in Nat /\ Rank[p[j]] \in Nat
  OBVIOUS
<1>2. CASE j < i
  BY <1>1, <1>2 DEF Greater
<1>3. CASE ~(j < i)
  <2>1. i \in 1..n /\ i # n + 1 /\ (i < j \/ i = j)
    BY <1>3
  <2>2. Rank[p[i]] <= Rank[p[j]] /\ Rank[p[i]] \in Nat /\ Rank[el] <= Rank[p[i]]
    <3>1. Rank[p[i]] \in Nat
      BY <2>1
    <3>2. Rank[p[i]] <= Rank[p[j]]
      BY <2>1, <3>1 DEF Sorted
    <3>3. Rank[el] <= Rank[p[i]]
      BY <1>1, <2>1, <3>1 DEF Greater
    <3> QED
      BY <3>1, <3>2, <3>3
  <2> QED
    BY <1>1, <1>3, <2>2
<1> QED
  BY <1>2, <1>3

\* The first place that a test picks of a walk.
LEMMA FirstPlace ==
    ASSUME NEW p, NEW n \in Nat, DOMAIN p = 1..n, NEW el,
           NEW T, T = {i \in DOMAIN p : ~Greater(el, p[i])}, T # {}
    PROVE  /\ Min(T) \in 1..n /\ ~Greater(el, p[Min(T)])
           /\ \A j \in 1..n : j < Min(T) => Greater(el, p[j])
<1>1. T \in SUBSET Nat
  OBVIOUS
<1>2. Min(T) \in T /\ \A j \in T : Min(T) <= j
  BY <1>1, MinIs
<1> DEFINE m == Min(T)
<1>3. m \in T /\ \A j \in T : m <= j
  BY <1>2
<1> HIDE DEF m
<1>4. m \in 1..n /\ ~Greater(el, p[m])
  BY <1>3
<1>5. ASSUME NEW j \in 1..n, j < m PROVE Greater(el, p[j])
  <2>1. ~(m <= j)
    BY <1>4, <1>5
  <2> QED
    BY <1>3, <2>1
<1> QED
  BY <1>4, <1>5 DEF m

\* list_insert_ordered finds the element's place.
LEMMA SInsertOrderedSpelled ==
    ASSUME NEW E, NULL \notin E, Rank \in [E -> Nat], NEW pv, NEW nx, IsLinks(pv, nx, E),
           NEW S \in SUBSET E, NEW lst, NEW el \in E \ S,
           NEW p, p = Walk(nx, lst, NULL), Spells("simple", lst, nx, S, p), Sorted(p),
           lst = NULL \/ \E e \in S : ~Greater(el, e),
           NEW r, r = SInsertOrdered(Ring(lst, pv, nx), el)
    PROVE  \E i \in 1..(Len(p) + 1) :
              /\ InPlace(p, i, el)
              /\ Spells("simple", r.list, r.next, S \cup {el}, InsertAt(p, i, el))
<1>9. /\ Len(p) \in Nat /\ DOMAIN p = 1..Len(p) /\ (p = <<>> <=> lst = NULL)
      /\ lst # NULL => Len(p) # 0 /\ p[1] = lst
      /\ \A i \in 1..Len(p) : p[i] \in S
      /\ \A e \in S : \E i \in 1..Len(p) : p[i] = e
  <2>1. NULL \notin S
    OBVIOUS
  <2>2. Orders(p, S, lst)
    BY <2>1, SpelledIs
  <2> QED
    BY <2>2 DEF Orders
<1> DEFINE a == Ring(lst, pv, nx)
           stops == {i \in DOMAIN p : ~Greater(el, p[i])}
           n == Len(p)
<1>0. a.list = lst /\ a.next = nx
  BY DEF Ring
<1>1. /\ n \in Nat /\ DOMAIN p = 1..n /\ (p = <<>> <=> lst = NULL)
      /\ lst # NULL => n # 0 /\ p[1] = lst
      /\ \A i \in 1..n : p[i] \in S
      /\ \A e \in S : \E i \in 1..n : p[i] = e
  BY <1>9
<1>2. ASSUME r = SPush(a, el), InPlace(p, 1, el)
      PROVE  \E i \in 1..(n + 1) :
              /\ InPlace(p, i, el)
              /\ Spells("simple", r.list, r.next, S \cup {el}, InsertAt(p, i, el))
  <2>1. Spells("simple", r.list, r.next, S \cup {el}, InsertAt(p, 1, el))
    BY <1>2, SPushSpelled
  <2>2. 1 \in 1..(n + 1)
    BY <1>1
  <2> QED
    BY <1>2, <2>1, <2>2
<1>3. CASE lst = NULL
  <2>1. r = SPush(a, el)
    BY <1>0, <1>3 DEF SInsertOrdered, IsEmpty
  <2>2. InPlace(p, 1, el)
    BY <1>1, <1>3 DEF InPlace
  <2> QED
    BY <1>2, <2>1, <2>2
<1>4. CASE lst # NULL
  <2> DEFINE m == Min(stops)
  <2>1. stops # {}
    BY <1>1, <1>4
  <2>2. /\ m \in 1..n /\ ~Greater(el, p[m])
        /\ \A j \in 1..n : j < m => Greater(el, p[j])
    <3>1. stops = {i \in DOMAIN p : ~Greater(el, p[i])} /\ n \in Nat /\ DOMAIN p = 1..n
      BY <1>1
    <3> HIDE DEF n, stops
    <3> QED
      BY <2>1, <3>1, FirstPlace
  <2>3. InPlace(p, m, el)
    <3>1. \A j \in 1..n : p[j] \in E
      BY <1>1
    <3>2. m \in 1..(n + 1)
      BY <1>1, <2>2
    <3> HIDE DEF n, m
    <3> QED
      BY <1>1, <2>2, <3>1, <3>2, SortedPlace
  <2>4. r = SInsertAfter(a, IF m = 1 THEN NULL ELSE p[m - 1], el)
    BY <1>0, <1>4, <2>1 DEF SInsertOrdered, IsEmpty
  <2> HIDE DEF m, stops
  <2>5. CASE m = 1
    <3>1. r = SPush(a, el)
      BY <2>4, <2>5 DEF SInsertAfter
    <3> QED
      BY <1>2, <2>3, <2>5, <3>1
  <2>6. CASE m # 1
    <3>1. m \in 2..(n + 1) /\ m - 1 \in 1..n /\ m \in 1..(n + 1)
      <4> HIDE DEF n
      <4> QED
        BY <1>1, <2>2, <2>6
    <3> DEFINE before == p[m - 1]
    <3>2. before \in S /\ r = SInsertAfter(a, before, el)
      BY <1>1, <2>4, <2>6, <3>1
    <3> HIDE DEF before
    <3>3. before = p[m - 1]
      BY DEF before
    <3>4. Spells("simple", r.list, r.next, S \cup {el}, InsertAt(p, m, el))
      BY <1>4, <3>1, <3>2, <3>3, SBehindSpelled
    <3> QED
      BY <2>3, <3>1, <3>4
  <2> QED
    BY <2>5, <2>6
<1> QED
  BY <1>3, <1>4

\* clist_insert_ordered too, wherever in the ring the place is.
LEMMA CInsertOrderedSpelled ==
    ASSUME NEW E, NULL \notin E, Rank \in [E -> Nat], NEW pv, NEW nx, IsLinks(pv, nx, E),
           NEW S \in SUBSET E, NEW lst, IsRing(lst, pv, nx, S), NEW el \in E \ S,
           NEW p, p = Walk(nx, lst, lst), Spells("circular", lst, nx, S, p), Sorted(p),
           NEW r, r = CInsertOrdered(Ring(lst, pv, nx), el)
    PROVE  \E i \in 1..(Len(p) + 1) :
              /\ InPlace(p, i, el)
              /\ Spells("circular", r.list, r.next, S \cup {el}, InsertAt(p, i, el))
<1>9. /\ Len(p) \in Nat /\ DOMAIN p = 1..Len(p) /\ (p = <<>> <=> lst = NULL)
      /\ lst # NULL => Len(p) # 0 /\ p[1] = lst
      /\ \A i \in 1..Len(p) : p[i] \in S
      /\ \A e \in S : \E i \in 1..Len(p) : p[i] = e
  <2>1. NULL \notin S
    OBVIOUS
  <2>2. Orders(p, S, lst)
    BY <2>1, SpelledIs
  <2> QED
    BY <2>2 DEF Orders
<1> DEFINE a == Ring(lst, pv, nx)
           stops == {i \in DOMAIN p : ~Greater(el, p[i])}
           n == Len(p)
<1>0. a.list = lst /\ a.prev = pv /\ a.next = nx
  BY DEF Ring
<1>1. /\ n \in Nat /\ DOMAIN p = 1..n /\ (p = <<>> <=> lst = NULL)
      /\ lst # NULL => n # 0 /\ p[1] = lst
      /\ \A i \in 1..n : p[i] \in S /\ p[i] \in E
  BY <1>9
<1>2. ASSUME lst # NULL
      PROVE  /\ n \in 1..n /\ pv[lst] = p[n]
             /\ \A i \in 2..n : pv[p[i]] = p[i - 1] /\ nx[p[i - 1]] = p[i]
  <2>1. Visits(p, S, nx, lst, lst)
    BY <1>2 DEF Spells
  <2>2. nx[p[n]] = lst /\ p[n] \in S /\ \A i \in 1..(n - 1) : p[i + 1] = nx[p[i]]
    BY <2>1 DEF Visits
  <2>3. Linked(pv, nx, S)
    BY <1>2 DEF IsRing
  <2>6. pv[lst] = p[n]
    <3> DEFINE e == p[n]
    <3>1. e \in S /\ nx[e] = lst
      BY <2>2
    <3> HIDE DEF e
    <3> QED
      BY <2>3, <3>1 DEF Linked, e
  <2>4. ASSUME NEW i \in 2..n PROVE nx[p[i - 1]] = p[i] /\ pv[p[i]] = p[i - 1]
    <3>1. i - 1 \in 1..(n - 1) /\ (i - 1) + 1 = i /\ i - 1 \in 1..n
      BY <1>1
    <3>2. nx[p[i - 1]] = p[i] /\ p[i - 1] \in S
      BY <1>1, <2>2, <3>1
    <3> QED
      BY <2>3, <3>2 DEF Linked
  <2>5. n \in 1..n
    <3> HIDE DEF n
    <3> QED
      BY <1>1, <1>2
  <2> QED
    BY <2>4, <2>5, <2>6
<1>3. CASE lst = NULL \/ ~Greater(el, lst)
  <2>1. r = CPush(a, el)
    BY <1>0, <1>3 DEF CInsertOrdered, IsEmpty
  <2>2. InPlace(p, 1, el)
    <3>1. CASE lst = NULL
      BY <1>1, <3>1 DEF InPlace
    <3>2. CASE lst # NULL
      <4> DEFINE i == 1
      <4>1. i \in 1..(n + 1) /\ ~Greater(el, p[i]) /\ i = 1
        BY <1>1, <1>3, <3>2
      <4> HIDE DEF n, i
      <4>2. \A j \in 1..n : j < i => Greater(el, p[j])
        BY <1>1, <4>1
      <4>3. \A j \in 1..n : p[j] \in E
        BY <1>1
      <4>4. InPlace(p, i, el)
        BY <1>1, <4>1, <4>2, <4>3, SortedPlace
      <4> QED
        BY <4>1, <4>4
    <3> QED
      BY <3>1, <3>2
  <2>3. Spells("circular", r.list, r.next, S \cup {el}, InsertAt(p, 1, el))
    BY <2>1, CPushSpelled
  <2>4. 1 \in 1..(n + 1)
    BY <1>1
  <2> QED
    BY <2>2, <2>3, <2>4
<1>4. CASE lst # NULL /\ Greater(el, lst) /\ Greater(el, pv[lst])
  <2>1. r = PushTail(a, el)
    BY <1>0, <1>4 DEF CInsertOrdered, IsEmpty
  <2>2. Spells("circular", r.list, r.next, S \cup {el}, InsertAt(p, n + 1, el))
    <3> DEFINE i == n + 1
    <3>1. i = Len(p) + 1
      OBVIOUS
    <3> HIDE DEF i
    <3>2. Spells("circular", r.list, r.next, S \cup {el}, InsertAt(p, i, el))
      BY <2>1, <3>1, PushTailSpelled
    <3> QED
      BY <3>2 DEF i
  <2> HIDE DEF n
  <2>3. ASSUME NEW j \in 1..n PROVE Greater(el, p[j])
    <3>1. Rank[p[j]] \in Nat /\ Rank[p[n]] \in Nat /\ Rank[el] \in Nat /\ Rank[el] > Rank[p[n]]
      BY <1>1, <1>2, <1>4 DEF Greater
    <3>2. Rank[p[j]] <= Rank[p[n]]
      <4>1. j < n \/ j = n
        BY <1>1
      <4>2. j \in DOMAIN p /\ n \in DOMAIN p
        BY <1>1, <1>2, <1>4
      <4> QED
        BY <3>1, <4>1, <4>2 DEF Sorted
    <3> QED
      BY <3>1, <3>2 DEF Greater
  <2>4. n + 1 \in 1..(n + 1)
    BY <1>1
  <2>5. InPlace(p, n + 1, el)
    <3> DEFINE i == n + 1
    <3>1. i \in 1..(n + 1) /\ i = n + 1
      BY <2>4
    <3>2. \A j \in 1..n : p[j] \in E
      BY <1>1
    <3> HIDE DEF i
    <3>3. InPlace(p, i, el)
      BY <1>1, <2>3, <3>1, <3>2, SortedPlace
    <3> QED
      BY <3>1, <3>3
  <2> QED
    BY <2>2, <2>4, <2>5 DEF n
<1>5. CASE lst # NULL /\ Greater(el, lst) /\ ~Greater(el, pv[lst])
  <2> DEFINE m == Min(stops)
             c == p[m]
  <2>1. stops # {}
    BY <1>1, <1>2, <1>5
  <2>2. /\ m \in 1..n /\ ~Greater(el, p[m])
        /\ \A j \in 1..n : j < m => Greater(el, p[j])
    <3>1. stops = {i \in DOMAIN p : ~Greater(el, p[i])} /\ n \in Nat /\ DOMAIN p = 1..n
      BY <1>1
    <3> HIDE DEF n, stops
    <3> QED
      BY <2>1, <3>1, FirstPlace
  <2>3. r = [CPush([a EXCEPT !.list = c], el) EXCEPT !.list = lst]
    BY <1>0, <1>5 DEF CInsertOrdered, IsEmpty
  <2> HIDE DEF m, stops
  <2>4. m \in 1..(n + 1) /\ m # 1 /\ m \in 2..n /\ m \in 2..(n + 1) /\ m # n + 1
    <3>1. m # 1
      BY <1>1, <1>5, <2>2
    <3> HIDE DEF n
    <3> QED
      BY <1>1, <2>2, <3>1
  <2>5. InPlace(p, m, el)
    <3>1. \A j \in 1..n : p[j] \in E
      BY <1>1
    <3> HIDE DEF n, c
    <3> QED
      BY <1>1, <2>2, <2>4, <3>1, SortedPlace
  <2>6. c \in S /\ pv[c] = p[m - 1] /\ nx[p[m - 1]] = c
    <3>1. p[m] \in S
      BY <1>1, <2>2
    <3>2. pv[p[m]] = p[m - 1] /\ nx[p[m - 1]] = p[m]
      BY <1>2, <1>5, <2>4
    <3> QED
      BY <3>1, <3>2
  <2> HIDE DEF c
  <2>7. c # NULL /\ Linked(pv, nx, S)
    BY <1>5, <2>6 DEF IsRing
  <2> DEFINE q == PushTail(Ring(c, pv, nx), el)
             b == [a EXCEPT !.list = c]
             q2 == PushTail(b, el)
  <2>8. b.list = c /\ b.prev = pv /\ b.next = nx /\ b.fault = FALSE
    BY DEF Ring
  <2>9. r.list = lst /\ r.next = q2.next
    BY <2>3, <2>7 DEF CPush, PushTail, Ring, Faulted, IsEmpty
  <2>10. q2.next = q.next
    BY <2>7 DEF PushTail, Ring, Faulted, IsEmpty
  <2> HIDE DEF q2, b
  <2>11. /\ q.next[pv[c]] = el /\ q.next[el] = c
         /\ \A e \in S \ {pv[c]} : q.next[e] = nx[e]
    BY <2>6, <2>7, TailLinks
  <2> HIDE DEF q
  <2>12. /\ r.next[p[m - 1]] = el /\ r.next[el] = nx[p[m - 1]]
         /\ \A e \in S \ {p[m - 1]} : r.next[e] = nx[e]
    BY <2>6, <2>9, <2>10, <2>11
  <2>13. Spells("circular", lst, r.next, S \cup {el}, InsertAt(p, m, el))
    BY <1>5, <2>4, <2>12, BehindSpelled
  <2> QED
    BY <2>4, <2>5, <2>9, <2>13
<1> QED
  BY <1>3, <1>4, <1>5

(***************************************************************************)
(* The lists refine sequences.                                             *)
(***************************************************************************)
Seqs == [l \in Names |-> Contents(l)]

\* A list spells the same whatever happens to the links of other elements.
LEMMA SpelledKept ==
    ASSUME NEW k, NEW S, NULL \notin S, NEW lst, NEW nx, NEW p, Spells(k, lst, nx, S, p),
           NEW nx2, \A e \in S : nx2[e] = nx[e]
    PROVE  Spells(k, lst, nx2, S, p)
<1>1. CASE lst = NULL
  BY <1>1 DEF Spells
<1>2. CASE lst # NULL
  <2> DEFINE stop == IF k = "circular" THEN lst ELSE NULL
  <2>1. Visits(p, S, nx, lst, stop)
    BY <1>2 DEF Spells
  <2> HIDE DEF stop
  <2>2. /\ Len(p) \in Nat \ {0} /\ nx[p[Len(p)]] = stop
        /\ \A i \in 1..(Len(p) - 1) : p[i + 1] = nx[p[i]]
        /\ \A i \in 1..Len(p) : p[i] \in S
    BY <2>1 DEF Visits
  <2>3. nx2[p[Len(p)]] = stop /\ \A i \in 1..(Len(p) - 1) : p[i + 1] = nx2[p[i]]
    <3>1. Len(p) \in 1..Len(p) /\ \A i \in 1..(Len(p) - 1) : i \in 1..Len(p)
      BY <2>2
    <3> QED
      BY <2>2, <3>1
  <2>4. Visits(p, S, nx2, lst, stop)
    BY <2>1, <2>3 DEF Visits
  <2> QED
    BY <1>2, <2>4 DEF Spells, stop
<1> QED
  BY <1>1, <1>2

\* What a list of the clients holds is what it spells.
LEMMA ContentsSpelled ==
    ASSUME ListsInv, NEW l \in Names
    PROVE  Spells(kind, list[l], next, Mine(l), Contents(l))
<1>1. IsList(kind, list[l], prev, next, Mine(l))
  BY DEF ListsInv
<1>2. /\ IsFiniteSet(Elems) /\ NULL \notin Elems /\ Mine(l) \in SUBSET Elems
      /\ next \in [Elems -> Elems \cup {NULL}]
      /\ kind \in {"simple", "double", "circular"}
  BY OfOneList DEF IsLinks
<1>3. Spells(kind, list[l], next, Mine(l),
             Walk(next, list[l], IF kind = "circular" THEN list[l] ELSE NULL))
  BY <1>1, <1>2, ListSpelled
<1> QED
  BY <1>3 DEF Contents

\* ... and after a step too.
LEMMA SpelledNext ==
    ASSUME ListsInv', NEW l \in Names, NEW p, Spells(kind', list'[l], next', Mine(l)', p)
    PROVE  Contents(l)' = p
<1>1. IsList(kind', list'[l], prev', next', Mine(l)') /\ TypeOK'
  BY DEF ListsInv
<1>2. /\ IsFiniteSet(Elems) /\ NULL \notin Elems /\ Mine(l)' \in SUBSET Elems
      /\ next' \in [Elems -> Elems \cup {NULL}]
      /\ kind' \in {"simple", "double", "circular"}
  BY <1>1, ElemsAssumption DEF TypeOK, Link, Mine
<1> DEFINE M == Mine(l)'
<1>3. Walk(next', list'[l], IF kind' = "circular" THEN list'[l] ELSE NULL) = p
  <2> HIDE DEF M
  <2>1. /\ M \in SUBSET Elems /\ IsList(kind', list'[l], prev', next', M)
        /\ Spells(kind', list'[l], next', M, p)
    BY <1>1, <1>2 DEF M
  <2> QED
    BY <1>2, <2>1, SpelledOnce
<1> QED
  BY <1>3 DEF Contents

\* The sequences after a macro that leaves list l as q.
LEMMA DoneSpells ==
    ASSUME ListsInv, ListsInv', NEW l \in Names, NEW el \in Elems, where[el] \in {NULL, l},
           NEW place \in {NULL, l}, NEW call, NEW r, Done(l, r, el, place, call),
           OthersKept(l, el),
           NEW q, Spells(kind, r.list, r.next,
                         IF place = NULL THEN Mine(l) \ {el} ELSE Mine(l) \cup {el}, q)
    PROVE  Seqs' = [Seqs EXCEPT ![l] = q] /\ last' = <<call, el>>
<1>1. /\ list' = [list EXCEPT ![l] = r.list] /\ next' = r.next
      /\ where' = [where EXCEPT ![el] = place] /\ kind' = kind /\ last' = <<call, el>>
  BY DEF Done
<1>2. /\ where \in [Elems -> Names \cup {NULL}] /\ list \in [Names -> Link]
      /\ place # NULL => place = l /\ l # NULL /\ NULL \notin Elems /\ NULL \notin Names
  BY ElemsAssumption DEF ListsInv, TypeOK
<1>3. \A e \in Elems : where'[e] = IF e = el THEN place ELSE where[e]
  BY <1>1, <1>2
<1>4. Contents(l)' = q
  <2>1. Mine(l)' = IF place = NULL THEN Mine(l) \ {el} ELSE Mine(l) \cup {el}
    BY <1>2, <1>3, ElemsAssumption DEF Mine
  <2>2. list'[l] = r.list
    BY <1>1, <1>2
  <2>3. Spells(kind', list'[l], next', Mine(l)', q)
    BY <1>1, <2>1, <2>2
  <2> QED
    BY <2>3, SpelledNext
<1>5. ASSUME NEW m \in Names, m # l PROVE Contents(m)' = Contents(m)
  <2>1. Mine(m)' = Mine(m)
    BY <1>2, <1>3, <1>5, ElemsAssumption DEF Mine
  <2>2. list'[m] = list[m]
    BY <1>1, <1>2, <1>5
  <2>3. \A e \in Mine(m) : next'[e] = next[e]
    <3>1. \A e \in Mine(m) : e \in Elems \ (Mine(l) \cup {el})
      BY <1>5, ElemsAssumption DEF Mine
    <3> QED
      BY <3>1 DEF OthersKept
  <2>4. Spells(kind, list[m], next, Mine(m), Contents(m)) /\ NULL \notin Mine(m)
    BY ContentsSpelled, ElemsAssumption DEF Mine
  <2> DEFINE c == Contents(m)
             M == Mine(m)
  <2> HIDE DEF c, M
  <2>5. Spells(kind, list[m], next, M, c) /\ NULL \notin M /\ \A e \in M : next'[e] = next[e]
    BY <2>3, <2>4 DEF c, M
  <2>6. Spells(kind, list[m], next', M, c)
    BY <2>5, SpelledKept
  <2>7. Spells(kind', list'[m], next', Mine(m)', c)
    BY <1>1, <2>1, <2>2, <2>6 DEF M
  <2>8. Contents(m)' = c
    BY <2>7, SpelledNext
  <2> QED
    BY <2>8 DEF c
<1>6. Seqs' = [Seqs EXCEPT ![l] = q]
  BY <1>4, <1>5 DEF Seqs
<1> QED
  BY <1>1, <1>6

\* What the sequences have to do with the clients' record.
LEMMA SeqsOrder ==
    ASSUME ListsInv
    PROVE  /\ \A l \in Names : Seqs[l] = Contents(l) /\ Orders(Contents(l), Mine(l), list[l])
           /\ \A el \in Elems : where[el] = NULL => Abstract!Unlinked(el)
<1>1. ASSUME NEW l \in Names
      PROVE  Seqs[l] = Contents(l) /\ Orders(Contents(l), Mine(l), list[l])
  <2>1. Spells(kind, list[l], next, Mine(l), Contents(l)) /\ NULL \notin Mine(l)
    BY ContentsSpelled, ElemsAssumption DEF Mine
  <2>2. Orders(Contents(l), Mine(l), list[l])
    BY <2>1, SpelledIs
  <2> QED
    BY <2>2 DEF Seqs
<1>2. ASSUME NEW el \in Elems, where[el] = NULL PROVE Abstract!Unlinked(el)
  <2> SUFFICES ASSUME NEW m \in Names PROVE el \notin Abstract!Elements(m)
    BY DEF Abstract!Unlinked
  <2>1. Abstract!Elements(m) = {Contents(m)[i] : i \in DOMAIN Contents(m)}
    BY DEF Abstract!Elements
  <2>2. /\ DOMAIN Contents(m) = 1..Len(Contents(m))
        /\ \A i \in 1..Len(Contents(m)) : Contents(m)[i] \in Mine(m)
    BY <1>1 DEF Orders
  <2>3. el \notin Mine(m)
    BY <1>2, ElemsAssumption DEF Mine
  <2> QED
    BY <2>1, <2>2, <2>3
<1> QED
  BY <1>1, <1>2

\* An insertion of the lists is one into a sequence.
LEMMA InsertImplements ==
    ASSUME ListsInv, NEW l \in Names, NEW el \in Elems, where[el] = NULL, NEW i,
           Seqs' = [Seqs EXCEPT ![l] = InsertAt(Contents(l), i, el)]
    PROVE  Abstract!Insert(l, i, el)
<1>1. Abstract!Unlinked(el) /\ Seqs[l] = Contents(l)
  BY SeqsOrder
<1>2. Abstract!InsertAt(Seqs[l], i, el) = InsertAt(Contents(l), i, el)
  BY <1>1 DEF InsertAt, Abstract!InsertAt
<1>3. Seqs' = [Seqs EXCEPT ![l] = Abstract!InsertAt(Seqs[l], i, el)]
  BY <1>2
<1> QED
  BY <1>1, <1>3 DEF Abstract!Insert, Seqs

\* The heads ...
LEMMA PushHeadImplements ==
    ASSUME ListsInv, NEW l \in Names, NEW el \in Elems, PushHead(l, el)
    PROVE  Abstract!PushHead(l, el)
<1> DEFINE r == CASE kind = "simple" -> SPush(RingOf(l), el)
                  [] kind = "double" -> DPush(RingOf(l), el)
                  [] kind = "circular" -> CPush(RingOf(l), el)
           S == Mine(l)
           p == Contents(l)
<1>1. Done(l, r, el, l, "push_head") /\ where[el] = NULL
  BY DEF PushHead, MayInsert
<1>2. RingOf(l) = Ring(list[l], prev, next)
  BY DEF RingOf
<1>3. Spells(kind, list[l], next, S, p)
  BY ContentsSpelled
<1> HIDE DEF p
<1>4. Spells(kind, r.list, r.next, S \cup {el}, InsertAt(p, 1, el))
  <2>1. CASE kind = "simple"
    <3>1. r = SPush(Ring(list[l], prev, next), el)
      BY <1>2, <2>1
    <3> HIDE DEF r
    <3> QED
      BY <1>1, <1>3, <2>1, <3>1, OfOneList, SPushSpelled
  <2>2. CASE kind = "double"
    <3>1. r = DPush(Ring(list[l], prev, next), el)
      BY <1>2, <2>2
    <3> HIDE DEF r
    <3> QED
      BY <1>1, <1>3, <2>2, <3>1, OfOneList, DPushSpelled
  <2>3. CASE kind = "circular"
    <3>1. r = CPush(Ring(list[l], prev, next), el)
      BY <1>2, <2>3
    <3> HIDE DEF r
    <3> QED
      BY <1>1, <1>3, <2>3, <3>1, OfOneList, CPushSpelled
  <2> QED
    BY <2>1, <2>2, <2>3, OfOneList
<1> HIDE DEF r, S
<1>5. l # NULL /\ ListsInv' /\ OthersKept(l, el)
  BY OfOneList, PushHeadKeeps
<1>6. Seqs' = [Seqs EXCEPT ![l] = InsertAt(p, 1, el)] /\ last' = <<"push_head", el>>
  BY <1>1, <1>4, <1>5, DoneSpells DEF S
<1>7. Abstract!Insert(l, 1, el)
  BY <1>1, <1>6, InsertImplements DEF p
<1> QED
  BY <1>6, <1>7 DEF Abstract!PushHead

\* ... the tails ...
LEMMA PushTailImplements ==
    ASSUME ListsInv, NEW l \in Names, NEW el \in Elems, PushTailC(l, el)
    PROVE  Abstract!PushTail(l, el)
<1> DEFINE r == PushTail(Ring(list[l], prev, next), el)
           S == Mine(l)
           p == Contents(l)
           i == Len(p) + 1
<1>1. Done(l, r, el, l, "push_tail") /\ where[el] = NULL /\ kind = "circular"
  BY DEF PushTailC, MayInsert, RingOf
<1>2. Spells("circular", list[l], next, S, p)
  BY <1>1, ContentsSpelled
<1>3. i = Len(p) + 1
  OBVIOUS
<1> HIDE DEF p, i
<1>4. Spells("circular", r.list, r.next, S \cup {el}, InsertAt(p, i, el))
  BY <1>1, <1>2, <1>3, OfOneList, PushTailSpelled
<1> HIDE DEF r, S
<1>5. l # NULL /\ ListsInv' /\ OthersKept(l, el)
  BY OfOneList, PushTailCKeeps
<1>6. Seqs' = [Seqs EXCEPT ![l] = InsertAt(p, i, el)] /\ last' = <<"push_tail", el>>
  BY <1>1, <1>4, <1>5, DoneSpells DEF S
<1>7. Abstract!Insert(l, i, el)
  BY <1>1, <1>6, InsertImplements DEF p
<1>8. Seqs[l] = p
  BY SeqsOrder DEF p
<1> QED
  BY <1>3, <1>6, <1>7, <1>8 DEF Abstract!PushTail, Seqs

\* ... the places after an element ...
LEMMA InsertAfterImplements ==
    ASSUME ListsInv, NEW l \in Names, NEW el \in Elems,
           NEW before \in Elems \cup {NULL}, InsertAfter(l, before, el)
    PROVE  Abstract!InsertAfter(l, before, el)
<1> DEFINE r == SInsertAfter(Ring(list[l], prev, next), before, el)
           S == Mine(l)
           p == Contents(l)
<1>1. /\ Done(l, r, el, l, "insert_after") /\ where[el] = NULL /\ kind = "simple"
      /\ before # NULL => before \in S
  BY DEF InsertAfter, MayInsert, RingOf, Mine
<1>2. Spells("simple", list[l], next, S, p)
  BY <1>1, ContentsSpelled
<1>3. Seqs[l] = p /\ Orders(p, S, list[l])
  BY SeqsOrder
<1>4. l # NULL /\ ListsInv' /\ OthersKept(l, el)
  BY OfOneList, InsertAfterKeeps
<1>5. ASSUME NEW i, Spells("simple", r.list, r.next, S \cup {el}, InsertAt(p, i, el))
      PROVE  Abstract!Insert(l, i, el) /\ last' = <<"insert_after", el>>
  <2> HIDE DEF r, S, p
  <2>1. Seqs' = [Seqs EXCEPT ![l] = InsertAt(p, i, el)] /\ last' = <<"insert_after", el>>
    BY <1>1, <1>4, <1>5, DoneSpells DEF S
  <2> QED
    BY <1>1, <2>1, InsertImplements DEF p
<1>6. Abstract!Elements(l) = {p[i] : i \in 1..Len(p)}
  BY <1>3 DEF Abstract!Elements, Seqs, Orders
<1>7. CASE before = NULL
  <2>1. r = SPush(Ring(list[l], prev, next), el)
    BY <1>7 DEF SInsertAfter
  <2>2. Spells("simple", r.list, r.next, S \cup {el}, InsertAt(p, 1, el))
    <3> HIDE DEF r, S, p
    <3>1. /\ NULL \notin Elems /\ IsLinks(prev, next, Elems) /\ S \in SUBSET Elems
          /\ el \in Elems \ S
      BY <1>1, OfOneList DEF S
    <3> QED
      BY ONLY <1>2, <2>1, <3>1, SPushSpelled
  <2>3. Abstract!Insert(l, 1, el) /\ last' = <<"insert_after", el>>
    BY <1>5, <2>2
  <2> QED
    BY <1>7, <2>3 DEF Abstract!InsertAfter
<1>8. CASE before # NULL
  <2> HIDE DEF p
  <2>1. PICK j \in 1..Len(p) : p[j] = before
    BY <1>1, <1>3, <1>8 DEF Orders
  <2>2. \A i \in DOMAIN p : p[i] = before => i = j
    BY <1>3, <2>1 DEF Orders
  <2> DEFINE place == CHOOSE i \in DOMAIN p : p[i] = before
  <2>3. place = j
    BY <1>3, <2>1, <2>2 DEF Orders
  <2> HIDE DEF place
  <2> DEFINE i == 1 + place
  <2>4. i \in 2..(Len(p) + 1) /\ i - 1 = j
    <3> DEFINE n == Len(p)
    <3>1. n \in Nat /\ j \in 1..n /\ i = 1 + j
      BY <1>3, <2>1, <2>3 DEF Orders
    <3> HIDE DEF n, i
    <3> QED
      BY <3>1 DEF n
  <2>5. before \in S /\ list[l] # NULL /\ before = p[i - 1]
    BY <1>1, <1>3, <1>8, <2>1, <2>4 DEF Orders
  <2> HIDE DEF i
  <2>6. Spells("simple", r.list, r.next, S \cup {el}, InsertAt(p, i, el))
    <3> HIDE DEF r, S
    <3>1. r = SInsertAfter(Ring(list[l], prev, next), before, el)
      BY DEF r
    <3>2. /\ NULL \notin Elems /\ IsLinks(prev, next, Elems) /\ S \in SUBSET Elems
          /\ el \in Elems \ S
      BY <1>1, OfOneList DEF S
    <3>3. i \in 2..(Len(p) + 1)
      BY <2>4
    <3> QED
      BY ONLY <1>2, <2>5, <3>1, <3>2, <3>3, SBehindSpelled
  <2>7. Abstract!Insert(l, i, el) /\ last' = <<"insert_after", el>>
    BY <1>5, <2>6 DEF p
  <2>8. before \in Abstract!Elements(l)
    BY <1>6, <2>1
  <2>9. i = 1 + (CHOOSE k \in DOMAIN Seqs[l] : Seqs[l][k] = before)
    BY <1>3 DEF i, place
  <2> QED
    BY <1>8, <2>7, <2>8, <2>9 DEF Abstract!InsertAfter, Seqs
<1> QED
  BY <1>7, <1>8

\* ... and the places in order are those of sequences.
LEMMA InsertOrderedImplements ==
    ASSUME ListsInv, NEW l \in Names, NEW el \in Elems, InsertOrdered(l, el)
    PROVE  Abstract!InsertOrdered(l, el)
<1> DEFINE r == IF kind = "simple" THEN SInsertOrdered(Ring(list[l], prev, next), el)
                                   ELSE CInsertOrdered(Ring(list[l], prev, next), el)
           S == Mine(l)
           p == Contents(l)
<1>1. /\ Done(l, r, el, l, "insert_ordered") /\ where[el] = NULL /\ kind # "double"
      /\ Sorted(p)
  BY DEF InsertOrdered, MayInsert, RingOf
<1>2. Spells(kind, list[l], next, S, p) /\ Seqs[l] = p /\ Orders(p, S, list[l])
  BY ContentsSpelled, SeqsOrder
<1>3. Rank \in [Elems -> Nat]
  BY ElemsAssumption
<1>4. \E i \in 1..(Len(p) + 1) :
         InPlace(p, i, el) /\ Spells(kind, r.list, r.next, S \cup {el}, InsertAt(p, i, el))
  <2>1. CASE kind = "simple"
    <3>1. r = SInsertOrdered(Ring(list[l], prev, next), el)
      BY <2>1
    <3>2. list[l] = NULL \/ \E e \in S : ~Greater(el, e)
      BY <2>1 DEF InsertOrdered, Mine
    <3>3. p = Walk(next, list[l], NULL)
      BY <2>1 DEF Contents
    <3> HIDE DEF r, p, S
    <3> QED
      <4>1. /\ NULL \notin Elems /\ IsLinks(prev, next, Elems) /\ S \in SUBSET Elems
            /\ Spells("simple", list[l], next, S, p) /\ el \in Elems \ S
        BY <1>1, <1>2, <2>1, OfOneList DEF S
      <4>2. \E i \in 1..(Len(p) + 1) :
              /\ InPlace(p, i, el)
              /\ Spells("simple", r.list, r.next, S \cup {el}, InsertAt(p, i, el))
        <5>1. Rank \in [Elems -> Nat] /\ Sorted(p)
          BY <1>1, <1>3
        <5> QED
          BY ONLY <3>1, <3>2, <3>3, <4>1, <5>1, SInsertOrderedSpelled
      <4> QED
        BY <2>1, <4>2
  <2>2. CASE kind = "circular"
    <3>1. r = CInsertOrdered(Ring(list[l], prev, next), el)
      BY <2>2
    <3>2. p = Walk(next, list[l], list[l])
      BY <2>2 DEF Contents
    <3> HIDE DEF r, p, S
    <3> QED
      <4>1. /\ NULL \notin Elems /\ IsLinks(prev, next, Elems) /\ S \in SUBSET Elems
            /\ IsRing(list[l], prev, next, S) /\ Spells("circular", list[l], next, S, p)
            /\ el \in Elems \ S
        BY <1>1, <1>2, <2>2, OfOneList DEF S
      <4>2. \E i \in 1..(Len(p) + 1) :
              /\ InPlace(p, i, el)
              /\ Spells("circular", r.list, r.next, S \cup {el}, InsertAt(p, i, el))
        BY <1>1, <1>3, <3>1, <3>2, <4>1, CInsertOrderedSpelled
      <4> QED
        BY <2>2, <4>2
  <2> QED
    BY <1>1, <2>1, <2>2, OfOneList
<1>5. PICK i \in 1..(Len(p) + 1) :
         InPlace(p, i, el) /\ Spells(kind, r.list, r.next, S \cup {el}, InsertAt(p, i, el))
  BY <1>4
<1>6. l # NULL /\ ListsInv' /\ OthersKept(l, el)
  BY OfOneList, InsertOrderedKeeps
<1> HIDE DEF r, S, p
<1>7. Seqs' = [Seqs EXCEPT ![l] = InsertAt(p, i, el)] /\ last' = <<"insert_ordered", el>>
  BY <1>1, <1>5, <1>6, DoneSpells DEF S
<1>8. Abstract!Insert(l, i, el)
  BY <1>1, <1>7, InsertImplements DEF p
<1>9. Abstract!OrderedPlace(l, i, el) /\ Abstract!Sorted(Seqs[l]) /\ i \in 1..(Len(Seqs[l]) + 1)
  BY <1>1, <1>2, <1>5 DEF Abstract!OrderedPlace, Abstract!Sorted, Sorted, InPlace, Seqs
<1> QED
  BY <1>7, <1>8, <1>9 DEF Abstract!InsertOrdered, Seqs

\* Deletions take the element away ...
LEMMA DeleteImplements ==
    ASSUME ListsInv, NEW l \in Names, NEW el \in Elems, DeleteElement(l, el)
    PROVE  Abstract!Delete(l, el)
<1> DEFINE r == CASE kind = "simple" -> SDelete(RingOf(l), Before(l, el), el)
                  [] kind = "double" -> DDelete(RingOf(l), el)
                  [] kind = "circular" -> DeleteEl(RingOf(l), el)
           S == Mine(l)
           p == Contents(l)
<1>1. Done(l, r, el, NULL, "delete_el") /\ where[el] = l /\ el \in S
  BY DEF DeleteElement, MayDelete, Mine
<1>2. RingOf(l) = Ring(list[l], prev, next)
  BY DEF RingOf
<1>3. Spells(kind, list[l], next, S, p) /\ Seqs[l] = p /\ Orders(p, S, list[l])
  BY ContentsSpelled, SeqsOrder
<1>4. list[l] # NULL
  BY <1>1, <1>3 DEF Spells
<1> HIDE DEF p
<1>5. PICK i \in 1..Len(p) : p[i] = el
  BY <1>1, <1>3 DEF Orders
<1>6. Spells(kind, r.list, r.next, S \ {el}, RemoveAt(p, i))
  <2>1. CASE kind = "simple"
    <3> DEFINE before == Before(l, el)
    <3>1. r = SDelete(Ring(list[l], prev, next), before, el)
      BY <1>2, <2>1
    <3>2. IF before = NULL THEN el = list[l] ELSE before \in S /\ next[before] = el
      BY <1>1, <2>1, OfOneList, BeforeIs
    <3> HIDE DEF r, before
    <3> QED
      <4>1. /\ NULL \notin Elems /\ IsLinks(prev, next, Elems) /\ S \in SUBSET Elems
            /\ Spells("simple", list[l], next, S, p) /\ list[l] # NULL /\ el = p[i]
        BY <1>3, <1>4, <1>5, <2>1, OfOneList
      <4> HIDE DEF S
      <4>2. Spells("simple", r.list, r.next, S \ {el}, RemoveAt(p, i))
        BY <3>1, <3>2, <4>1, SDeleteSpelled
      <4> QED
        BY <2>1, <4>2
  <2>2. CASE kind = "double"
    <3>1. r = DDelete(Ring(list[l], prev, next), el)
      BY <1>2, <2>2
    <3> HIDE DEF r
    <3> QED
      <4>1. /\ NULL \notin Elems /\ IsLinks(prev, next, Elems) /\ S \in SUBSET Elems
            /\ list[l] # NULL /\ IsDouble(list[l], prev, next, S) /\ el = p[i]
            /\ i \in 1..Len(p) /\ Spells("double", list[l], next, S, p)
        BY <1>1, <1>3, <1>4, <1>5, <2>2, OfOneList
      <4> HIDE DEF S
      <4> QED
        BY ONLY <3>1, <4>1, <2>2, DDeleteSpelled
  <2>3. CASE kind = "circular"
    <3>1. r = DeleteEl(Ring(list[l], prev, next), el)
      BY <1>2, <2>3
    <3> HIDE DEF r
    <3> QED
      <4>1. /\ NULL \notin Elems /\ IsLinks(prev, next, Elems) /\ S \in SUBSET Elems
            /\ IsRing(list[l], prev, next, S) /\ Spells("circular", list[l], next, S, p)
            /\ el = p[i]
        BY <1>3, <1>5, <2>3, OfOneList
      <4> HIDE DEF S
      <4>2. Spells("circular", r.list, r.next, S \ {el}, RemoveAt(p, i))
        BY <3>1, <4>1, DeleteElSpelled
      <4> QED
        BY <2>3, <4>2
  <2> QED
    BY <2>1, <2>2, <2>3, OfOneList
<1> HIDE DEF r, S
<1>7. ListsInv' /\ OthersKept(l, el)
  BY DeleteElementKeeps
<1>8. Seqs' = [Seqs EXCEPT ![l] = RemoveAt(p, i)] /\ last' = <<"delete_el", el>>
  <2> DEFINE q == RemoveAt(p, i)
             place == NULL
  <2>1. /\ Done(l, r, el, place, "delete_el") /\ place \in {NULL, l}
        /\ where[el] \in {NULL, l} /\ el \in Elems
        /\ Spells(kind, r.list, r.next,
                  IF place = NULL THEN Mine(l) \ {el} ELSE Mine(l) \cup {el}, q)
    BY <1>1, <1>6 DEF S
  <2> HIDE DEF q, place
  <2>2. Seqs' = [Seqs EXCEPT ![l] = q] /\ last' = <<"delete_el", el>>
    BY <1>7, <2>1, DoneSpells
  <2> QED
    BY <2>2 DEF q
<1>9. Abstract!RemoveAt(Seqs[l], i) = RemoveAt(p, i)
  BY <1>3 DEF RemoveAt, Abstract!RemoveAt
<1>10. Seqs' = [Seqs EXCEPT ![l] = Abstract!RemoveAt(Seqs[l], i)]
  BY <1>8, <1>9
<1>11. i \in DOMAIN Seqs[l] /\ Seqs[l][i] = el
  BY <1>3, <1>5 DEF Orders
<1> QED
  BY <1>8, <1>10, <1>11 DEF Abstract!Delete, Abstract!TakeOff, Seqs

\* ... or the first one.
LEMMA TakeHeadImplements ==
    ASSUME ListsInv, NEW l \in Names, TakeHead(l)
    PROVE  Abstract!PopHead(l)
<1> DEFINE r == CASE kind = "simple" -> SPop(RingOf(l))
                  [] kind = "double" -> DDeleteHead(RingOf(l), list[l])
                  [] kind = "circular" -> PopHead(RingOf(l))
           S == Mine(l)
           p == Contents(l)
           el == list[l]
<1>1. Done(l, r, el, NULL, "pop_head") /\ el # NULL
  BY DEF TakeHead
<1>2. RingOf(l) = Ring(el, prev, next) /\ RingOf(l).list = el
  BY DEF RingOf, Ring
<1>3. el \in S /\ el \in Elems /\ where[el] = l
  BY <1>1, OfOneList DEF Mine
<1>4. Spells(kind, el, next, S, p) /\ Seqs[l] = p /\ Orders(p, S, el)
  BY ContentsSpelled, SeqsOrder
<1>0. ListsInv' /\ OthersKept(l, el)
  BY TakeHeadKeeps
<1> HIDE DEF p
<1>5. /\ p \in Seq(S) /\ Len(p) \in Nat /\ Len(p) # 0 /\ p # <<>> /\ p[1] = el
  BY <1>1, <1>4 DEF Orders
<1>6. Spells(kind, r.list, r.next, S \ {el}, RemoveAt(p, 1))
  <2>1. CASE kind = "simple"
    <3>1. r = SPop(Ring(el, prev, next))
      BY <1>2, <2>1
    <3> HIDE DEF r
    <3> QED
      BY <1>3, <1>4, <2>1, <3>1, OfOneList, SPopSpelled
  <2>2. CASE kind = "double"
    <3>1. r = DDeleteHead(Ring(el, prev, next), el)
      BY <1>2, <2>2
    <3> HIDE DEF r
    <3> QED
      BY <1>3, <1>4, <2>2, <3>1, OfOneList, DDeleteHeadSpelled
  <2>3. CASE kind = "circular"
    <3>1. r = DeleteEl(Ring(el, prev, next), el)
      BY <1>2, <2>3 DEF PopHead
    <3> DEFINE i == 1
    <3>2. i \in 1..Len(p) /\ el = p[i]
      BY <1>5
    <3> HIDE DEF r, i
    <3>3. Spells("circular", r.list, r.next, S \ {el}, RemoveAt(p, i))
      <4>1. /\ NULL \notin Elems /\ IsLinks(prev, next, Elems) /\ S \in SUBSET Elems
            /\ IsRing(el, prev, next, S) /\ Spells("circular", el, next, S, p)
        BY <1>4, <2>3, OfOneList
      <4> HIDE DEF S, el
      <4> QED
        BY <3>1, <3>2, <4>1, DeleteElSpelled
    <3> QED
      BY <2>3, <3>3 DEF i
  <2> QED
    BY <2>1, <2>2, <2>3, OfOneList
<1> HIDE DEF r, S, el
<1>7. Seqs' = [Seqs EXCEPT ![l] = RemoveAt(p, 1)] /\ last' = <<"pop_head", el>>
  <2> DEFINE q == RemoveAt(p, 1)
             place == NULL
  <2>1. /\ Done(l, r, el, place, "pop_head") /\ place \in {NULL, l}
        /\ where[el] \in {NULL, l} /\ el \in Elems
        /\ Spells(kind, r.list, r.next,
                  IF place = NULL THEN Mine(l) \ {el} ELSE Mine(l) \cup {el}, q)
    BY <1>1, <1>3, <1>6 DEF S
  <2> HIDE DEF q, place
  <2>2. Seqs' = [Seqs EXCEPT ![l] = q] /\ last' = <<"pop_head", el>>
    BY <1>0, <2>1, DoneSpells
  <2> QED
    BY <2>2 DEF q
<1>8. RemoveAt(p, 1) = Tail(p)
  <2> DEFINE i == 1
             n == Len(p)
  <2>1. i \in 1..Len(p) /\ i = 1
    BY <1>5
  <2>2. Tail(p) \in Seq(S) /\ Len(Tail(p)) = n - 1 /\ \A j \in 1..(n - 1) : Tail(p)[j] = p[j + 1]
    BY <1>5
  <2> HIDE DEF i
  <2>3. /\ RemoveAt(p, i) \in Seq(S) /\ Len(RemoveAt(p, i)) = n - 1
        /\ \A j \in 1..(n - 1) : RemoveAt(p, i)[j] = IF j < i THEN p[j] ELSE p[j + 1]
    BY <1>5, <2>1, RemoveAtIs
  <2>4. \A j \in 1..(n - 1) : RemoveAt(p, i)[j] = Tail(p)[j]
    BY <2>1, <2>2, <2>3
  <2> HIDE DEF n
  <2>5. RemoveAt(p, i) = Tail(p)
    BY <2>2, <2>3, <2>4, SeqEqual
  <2> QED
    BY <2>5 DEF i
<1>9. Head(p) = el
  BY <1>5
<1> QED
  BY <1>4, <1>5, <1>7, <1>8, <1>9 DEF Abstract!PopHead, Seqs

\* list_length counts the elements.
LEMMA LengthImplements ==
    ASSUME ListsInv, NEW l \in Names, Length(l)
    PROVE  Abstract!Length(l)
<1>1. last' = <<"length", SLength(RingOf(l))>> /\ Seqs' = Seqs /\ kind = "simple"
  BY DEF Length, Seqs, Contents
<1>2. SLength(RingOf(l)) = Len(Contents(l))
  BY <1>1 DEF SLength, RingOf, Ring, Contents
<1> QED
  BY <1>1, <1>2 DEF Abstract!Length, Seqs

\* To their users the lists are sequences, with any number of lists and of
\* elements: every call inserts its element at the place that it says, takes
\* away the element that it says and no other, and pops the first.
THEOREM ListsImplementElementLists == Spec => ImplementsElementLists
<1>1. Init => Abstract!Init
  <2> SUFFICES ASSUME Init PROVE Abstract!Init
    OBVIOUS
  <2>1. \A l \in Names : Contents(l) = <<>>
    BY DEF Init, Contents, Walk
  <2> QED
    BY <2>1 DEF Init, Abstract!Init
<1>2. ListsInv /\ [Next]_vars => [Abstract!Next]_(Abstract!vars)
  <2> SUFFICES ASSUME ListsInv, [Next]_vars PROVE [Abstract!Next]_(Abstract!vars)
    OBVIOUS
  <2>1. ASSUME NEW l \in Names, TakeHead(l) PROVE Abstract!Next
    BY <2>1, TakeHeadImplements DEF Abstract!Next
  <2>2. ASSUME NEW l \in Names, Length(l) PROVE Abstract!Next
    BY <2>2, LengthImplements DEF Abstract!Next
  <2>3. ASSUME NEW l \in Names, NEW el \in Elems, PushHead(l, el) PROVE Abstract!Next
    BY <2>3, PushHeadImplements DEF Abstract!Next
  <2>4. ASSUME NEW l \in Names, NEW el \in Elems, PushTailC(l, el) PROVE Abstract!Next
    BY <2>4, PushTailImplements DEF Abstract!Next
  <2>5. ASSUME NEW l \in Names, NEW el \in Elems, InsertOrdered(l, el) PROVE Abstract!Next
    BY <2>5, InsertOrderedImplements DEF Abstract!Next
  <2>6. ASSUME NEW l \in Names, NEW el \in Elems, DeleteElement(l, el) PROVE Abstract!Next
    BY <2>6, DeleteImplements DEF Abstract!Next
  <2>7. ASSUME NEW l \in Names, NEW el \in Elems, NEW before \in Elems \cup {NULL},
               InsertAfter(l, before, el)
        PROVE  Abstract!Next
    BY <2>7, InsertAfterImplements DEF Abstract!Next
  <2>8. CASE UNCHANGED vars
    BY <2>8 DEF vars, Abstract!vars, Contents
  <2> QED
    BY <2>1, <2>2, <2>3, <2>4, <2>5, <2>6, <2>7, <2>8 DEF Next
<1> QED
  BY <1>1, <1>2, ListsInvariant, PTL DEF Spec, ImplementsElementLists, Abstract!Spec

=============================================================================
