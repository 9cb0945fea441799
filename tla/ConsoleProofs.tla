---------------------------- MODULE ConsoleProofs ----------------------------
(***************************************************************************)
(* kprintf for any screen, buffer and formats that the code handles.       *)
(***************************************************************************)
EXTENDS Console, FiniteSetTheorems, SequenceTheorems, WellFoundedInduction, TLAPS

\* The pairs of numbers in ascending order, by which every set of numbers is well founded.
Less == {p \in Nat \X Nat : p[1] < p[2]}

\* Every set of numbers that is not empty has a least one.
LEMMA LeastOf == \A T \in SUBSET Nat : T # {} => \E x \in T : \A y \in T : x <= y
<1>1. IsWellFoundedOn(Less, Nat)
  BY NatLessThanWellFounded, Zenon DEF OpToRel, Less
<1> SUFFICES ASSUME NEW T \in SUBSET Nat, T # {}
             PROVE  \E x \in T : \A y \in T : x <= y
  OBVIOUS
<1>2. \E x \in T : \A y \in T : <<y, x>> \notin Less
  BY <1>1, WFMin
<1>3. \A x, y \in Nat : <<y, x>> \notin Less => x <= y
  BY DEF Less
<1> QED
  BY <1>2, <1>3

\* The least number is the one Min chooses.
LEMMA MinIs ==
    ASSUME NEW T \in SUBSET Nat, T # {}
    PROVE  Min(T) \in T /\ \A x \in T : Min(T) <= x
BY LeastOf DEF Min

----------------------------------------------------------------------------
(***************************************************************************)
(* The loops.  Each is a function of the number of steps; that it exists   *)
(* is proved by least counterexample.                                      *)
(***************************************************************************)
\* left[k] is value divided k times by base.
Divides(value, base, n, g) ==
    g = [k \in 0..n |-> IF k = 0 THEN value ELSE (g[k - 1]) \div base]

\* There is such a function for every number of divisions.
LEMMA DividesExists ==
    ASSUME NEW value, NEW base, NEW n \in Nat
    PROVE  \E g : Divides(value, base, n, g)
<1> DEFINE T == {k \in Nat : ~\E g : Divides(value, base, k, g)}
<1> SUFFICES ASSUME T # {} PROVE FALSE
  OBVIOUS
<1>1. PICK k \in T : \A j \in T : k <= j
  <2>1. T \in SUBSET Nat
    OBVIOUS
  <2> HIDE DEF T
  <2> QED
    BY ONLY <2>1, T # {}, LeastOf
<1>2. CASE k = 0
  <2> DEFINE g == [i \in 0..0 |-> value]
  <2>1. Divides(value, base, 0, g)
    BY DEF Divides
  <2> QED
    BY <1>1, <1>2, <2>1
<1>3. CASE k # 0
  <2>1. k - 1 \in Nat /\ k - 1 \notin T
    BY <1>1, <1>3
  <2>2. PICK g : Divides(value, base, k - 1, g)
    BY <2>1
  <2> DEFINE h == [i \in 0..k |-> IF i = k THEN (g[k - 1]) \div base ELSE g[i]]
  <2>3. ASSUME NEW i \in 0..k
        PROVE  h[i] = IF i = 0 THEN value ELSE (h[i - 1]) \div base
    <3>1. CASE i = k
      <4>1. h[i] = (g[k - 1]) \div base /\ h[i - 1] = g[k - 1]
        BY <1>3, <3>1
      <4> QED
        BY <1>3, <3>1, <4>1
    <3>2. CASE i # k
      <4>1. i \in 0..(k - 1)
        BY <3>2
      <4>2. g[i] = IF i = 0 THEN value ELSE (g[i - 1]) \div base
        BY <2>2, <4>1 DEF Divides
      <4>3. h[i] = g[i] /\ (i # 0 => h[i - 1] = g[i - 1])
        BY <3>2, <4>1
      <4> QED
        BY <4>2, <4>3
    <3> QED
      BY <3>1, <3>2
  <2>4. DOMAIN h = 0..k /\ h = [i \in 0..k |-> h[i]]
    OBVIOUS
  <2>5. Divides(value, base, k, h)
    <3> HIDE DEF h
    <3> QED
      BY <2>3, <2>4 DEF Divides
  <2> QED
    BY <1>1, <2>5
<1> QED
  BY <1>2, <1>3

\* So Quotients, which is defined by recursion, satisfies its equation.
LEMMA QuotientsIs ==
    ASSUME NEW value, NEW base, NEW n, n \in Nat
    PROVE  Divides(value, base, n, Quotients(value, base, n))
<1>1. \E g : Divides(value, base, n, g)
  BY DividesExists
<1> QED
  BY <1>1 DEF Divides, Quotients

\* g[k] is where the loop of vsnprintf stands after k items.
Puts(mem, format, n, g) ==
    g = [k \in 0..n |-> IF k = 0 THEN [mem |-> mem, i |-> 0, j |-> 0] ELSE PutItem(g[k - 1], format[k])]

\* There is such a function for every number of items.
LEMMA PutsExists ==
    ASSUME NEW mem, NEW format, NEW n \in Nat
    PROVE  \E g : Puts(mem, format, n, g)
<1> DEFINE T == {k \in Nat : ~\E g : Puts(mem, format, k, g)}
<1> SUFFICES ASSUME T # {} PROVE FALSE
  OBVIOUS
<1>1. PICK k \in T : \A j \in T : k <= j
  <2>1. T \in SUBSET Nat
    OBVIOUS
  <2> HIDE DEF T
  <2> QED
    BY ONLY <2>1, T # {}, LeastOf
<1>2. CASE k = 0
  <2> DEFINE g == [i \in 0..0 |-> [mem |-> mem, i |-> 0, j |-> 0]]
  <2>1. Puts(mem, format, 0, g)
    BY DEF Puts
  <2> QED
    BY <1>1, <1>2, <2>1
<1>3. CASE k # 0
  <2>1. k - 1 \in Nat /\ k - 1 \notin T
    BY <1>1, <1>3
  <2>2. PICK g : Puts(mem, format, k - 1, g)
    BY <2>1
  <2> DEFINE h == [i \in 0..k |-> IF i = k THEN PutItem(g[k - 1], format[k]) ELSE g[i]]
  <2>3. ASSUME NEW i \in 0..k
        PROVE  h[i] = IF i = 0 THEN [mem |-> mem, i |-> 0, j |-> 0] ELSE PutItem(h[i - 1], format[i])
    <3>1. CASE i = k
      <4>1. h[i] = PutItem(g[k - 1], format[k]) /\ h[i - 1] = g[k - 1]
        BY <1>3, <3>1
      <4> QED
        BY <1>3, <3>1, <4>1
    <3>2. CASE i # k
      <4>1. i \in 0..(k - 1)
        BY <3>2
      <4>2. g[i] = IF i = 0 THEN [mem |-> mem, i |-> 0, j |-> 0] ELSE PutItem(g[i - 1], format[i])
        BY <2>2, <4>1 DEF Puts
      <4>3. h[i] = g[i] /\ (i # 0 => h[i - 1] = g[i - 1])
        BY <3>2, <4>1
      <4> QED
        BY <4>2, <4>3
    <3> QED
      BY <3>1, <3>2
  <2>4. DOMAIN h = 0..k /\ h = [i \in 0..k |-> h[i]]
    OBVIOUS
  <2>5. Puts(mem, format, k, h)
    <3> HIDE DEF h
    <3> QED
      BY <2>3, <2>4 DEF Puts
  <2> QED
    BY <1>1, <2>5
<1> QED
  BY <1>2, <1>3

\* So Formatted satisfies its equation.
LEMMA FormattedIs ==
    ASSUME NEW mem, NEW format, Len(format) \in Nat
    PROVE  Puts(mem, format, Len(format), Formatted(mem, format))
<1>1. \E g : Puts(mem, format, Len(format), g)
  BY PutsExists
<1> QED
  BY <1>1 DEF Puts, Formatted

\* g[k] is what is said after k items.
Says(format, n, g) ==
    g = [k \in 0..n |-> IF k = 0 THEN [read |-> 0, text |-> <<>>] ELSE SayItem(g[k - 1], format[k])]

\* There is such a function for every number of items.
LEMMA SaysExists ==
    ASSUME NEW format, NEW n \in Nat
    PROVE  \E g : Says(format, n, g)
<1> DEFINE T == {k \in Nat : ~\E g : Says(format, k, g)}
<1> SUFFICES ASSUME T # {} PROVE FALSE
  OBVIOUS
<1>1. PICK k \in T : \A j \in T : k <= j
  <2>1. T \in SUBSET Nat
    OBVIOUS
  <2> HIDE DEF T
  <2> QED
    BY ONLY <2>1, T # {}, LeastOf
<1>2. CASE k = 0
  <2> DEFINE g == [i \in 0..0 |-> [read |-> 0, text |-> <<>>]]
  <2>1. Says(format, 0, g)
    BY DEF Says
  <2> QED
    BY <1>1, <1>2, <2>1
<1>3. CASE k # 0
  <2>1. k - 1 \in Nat /\ k - 1 \notin T
    BY <1>1, <1>3
  <2>2. PICK g : Says(format, k - 1, g)
    BY <2>1
  <2> DEFINE h == [i \in 0..k |-> IF i = k THEN SayItem(g[k - 1], format[k]) ELSE g[i]]
  <2>3. ASSUME NEW i \in 0..k
        PROVE  h[i] = IF i = 0 THEN [read |-> 0, text |-> <<>>] ELSE SayItem(h[i - 1], format[i])
    <3>1. CASE i = k
      <4>1. h[i] = SayItem(g[k - 1], format[k]) /\ h[i - 1] = g[k - 1]
        BY <1>3, <3>1
      <4> QED
        BY <1>3, <3>1, <4>1
    <3>2. CASE i # k
      <4>1. i \in 0..(k - 1)
        BY <3>2
      <4>2. g[i] = IF i = 0 THEN [read |-> 0, text |-> <<>>] ELSE SayItem(g[i - 1], format[i])
        BY <2>2, <4>1 DEF Says
      <4>3. h[i] = g[i] /\ (i # 0 => h[i - 1] = g[i - 1])
        BY <3>2, <4>1
      <4> QED
        BY <4>2, <4>3
    <3> QED
      BY <3>1, <3>2
  <2>4. DOMAIN h = 0..k /\ h = [i \in 0..k |-> h[i]]
    OBVIOUS
  <2>5. Says(format, k, h)
    <3> HIDE DEF h
    <3> QED
      BY <2>3, <2>4 DEF Says
  <2> QED
    BY <1>1, <2>5
<1> QED
  BY <1>2, <1>3

\* So Said satisfies its equation.
LEMMA SaidIs ==
    ASSUME NEW format, Len(format) \in Nat
    PROVE  Says(format, Len(format), Said(format))
<1>1. \E g : Says(format, Len(format), g)
  BY SaysExists
<1> QED
  BY <1>1 DEF Says, Said

\* g[k] is the screen after k copies, in the order at.
CopiesCells(cells, dest, src, at, n, g) ==
    g = [k \in 0..n |-> IF k = 0 THEN cells ELSE CopyCell(g[k - 1], dest + at[k], src + at[k])]

\* There is such a function for every number of copies.
LEMMA CopiesCellsExists ==
    ASSUME NEW cells, NEW dest, NEW src, NEW at, NEW n \in Nat
    PROVE  \E g : CopiesCells(cells, dest, src, at, n, g)
<1> DEFINE T == {k \in Nat : ~\E g : CopiesCells(cells, dest, src, at, k, g)}
<1> SUFFICES ASSUME T # {} PROVE FALSE
  OBVIOUS
<1>1. PICK k \in T : \A j \in T : k <= j
  <2>1. T \in SUBSET Nat
    OBVIOUS
  <2> HIDE DEF T
  <2> QED
    BY ONLY <2>1, T # {}, LeastOf
<1>2. CASE k = 0
  <2> DEFINE g == [i \in 0..0 |-> cells]
  <2>1. CopiesCells(cells, dest, src, at, 0, g)
    BY DEF CopiesCells
  <2> QED
    BY <1>1, <1>2, <2>1
<1>3. CASE k # 0
  <2>1. k - 1 \in Nat /\ k - 1 \notin T
    BY <1>1, <1>3
  <2>2. PICK g : CopiesCells(cells, dest, src, at, k - 1, g)
    BY <2>1
  <2> DEFINE h == [i \in 0..k |-> IF i = k THEN CopyCell(g[k - 1], dest + at[k], src + at[k]) ELSE g[i]]
  <2>3. ASSUME NEW i \in 0..k
        PROVE  h[i] = IF i = 0 THEN cells ELSE CopyCell(h[i - 1], dest + at[i], src + at[i])
    <3>1. CASE i = k
      <4>1. h[i] = CopyCell(g[k - 1], dest + at[k], src + at[k]) /\ h[i - 1] = g[k - 1]
        BY <1>3, <3>1
      <4> QED
        BY <1>3, <3>1, <4>1
    <3>2. CASE i # k
      <4>1. i \in 0..(k - 1)
        BY <3>2
      <4>2. g[i] = IF i = 0 THEN cells ELSE CopyCell(g[i - 1], dest + at[i], src + at[i])
        BY <2>2, <4>1 DEF CopiesCells
      <4>3. h[i] = g[i] /\ (i # 0 => h[i - 1] = g[i - 1])
        BY <3>2, <4>1
      <4> QED
        BY <4>2, <4>3
    <3> QED
      BY <3>1, <3>2
  <2>4. DOMAIN h = 0..k /\ h = [i \in 0..k |-> h[i]]
    OBVIOUS
  <2>5. CopiesCells(cells, dest, src, at, k, h)
    <3> HIDE DEF h
    <3> QED
      BY <2>3, <2>4 DEF CopiesCells
  <2> QED
    BY <1>1, <2>5
<1> QED
  BY <1>2, <1>3

\* So Copies satisfies its equation.
LEMMA CopiesIs ==
    ASSUME NEW cells, NEW dest, NEW src, NEW num, num \in Nat
    PROVE  CopiesCells(cells, dest, src, CopyOrder(dest, src, num), num, Copies(cells, dest, src, num))
<1>1. \E g : CopiesCells(cells, dest, src, CopyOrder(dest, src, num), num, g)
  BY CopiesCellsExists
<1> QED
  BY <1>1 DEF CopiesCells, Copies

----------------------------------------------------------------------------
(***************************************************************************)
(* Digits.                                                                 *)
(***************************************************************************)
\* A number below the modulus is its own remainder.
LEMMA ModSmall == ASSUME NEW x \in Nat, NEW w \in Nat, x < w PROVE x % w = x
OBVIOUS

\* What dividing by one of the bases does.
LEMMA BaseFacts ==
    ASSUME NEW base \in Bases, NEW v \in Nat
    PROVE  /\ v \div base \in Nat /\ v \div base <= v /\ v % base \in 0..15
           /\ v > 0 => v \div base < v
           /\ v \div base = 0 <=> v < base
           /\ v < base => v % base = v
<1>1. CASE base = 2
  BY <1>1
<1>2. CASE base = 8
  BY <1>2
<1>3. CASE base = 10
  BY <1>3
<1>4. CASE base = 16
  BY <1>4
<1> QED
  BY <1>1, <1>2, <1>3, <1>4 DEF Bases

\* The digits are characters.
LEMMA DigitsAreChars == \A d \in 0..15 : Digits[d + 1] \in Chars
<1>1. \A i \in {1, 2, 3, 4, 5, 6, 7, 8, 9, 10, 11, 12, 13, 14, 15, 16} : Digits[i] \in Chars
  BY CharsAssumption DEF Digits
<1>2. \A d \in 0..15 : d + 1 \in {1, 2, 3, 4, 5, 6, 7, 8, 9, 10, 11, 12, 13, 14, 15, 16}
  OBVIOUS
<1> QED
  BY <1>1, <1>2

\* g[v] is the numeral of v, the highest digit first.
HighDigits(base, n, g) ==
    g = [v \in 0..n |-> IF v < base THEN <<Digits[v + 1]>>
                        ELSE Append(g[v \div base], Digits[(v % base) + 1])]

\* There is such a function for the numbers up to any n.
LEMMA HighDigitsExist ==
    ASSUME NEW base \in Bases, NEW n \in Nat
    PROVE  \E g : HighDigits(base, n, g)
<1> DEFINE Ext(g, v) == IF v < base THEN <<Digits[v + 1]>>
                        ELSE Append(g[v \div base], Digits[(v % base) + 1])
<1> DEFINE T == {k \in Nat : ~\E g : HighDigits(base, k, g)}
<1> SUFFICES ASSUME T # {} PROVE FALSE
  OBVIOUS
<1>1. PICK k \in T : \A j \in T : k <= j
  <2>1. T \in SUBSET Nat
    OBVIOUS
  <2> HIDE DEF T
  <2> QED
    BY ONLY <2>1, T # {}, LeastOf
<1>2. \E g : \A v \in 0..(k - 1) : g[v] = Ext(g, v)
  <2>1. CASE k = 0
    BY <2>1
  <2>2. CASE k # 0
    <3>1. k - 1 \in Nat /\ k - 1 \notin T
      BY <1>1, <2>2
    <3>2. PICK g : HighDigits(base, k - 1, g)
      BY <3>1
    <3> QED
      BY <3>2 DEF HighDigits
  <2> QED
    BY <2>1, <2>2
<1>3. PICK g : \A v \in 0..(k - 1) : g[v] = Ext(g, v)
  BY <1>2
<1> DEFINE h == [v \in 0..k |-> IF v = k THEN Ext(g, v) ELSE g[v]]
<1>4. \A v \in 0..k : v < base \/ (v \div base \in 0..(k - 1) /\ v # 0)
  BY BaseFacts
<1>5. ASSUME NEW v \in 0..k PROVE h[v] = Ext(h, v)
  <2>1. h[v] = Ext(g, v)
    <3>1. CASE v = k
      BY <3>1
    <3>2. CASE v # k
      <4>1. v \in 0..(k - 1) /\ h[v] = g[v]
        BY <3>2
      <4> HIDE DEF h, Ext
      <4> QED
        BY <1>3, <4>1
    <3> QED
      BY <3>1, <3>2
  <2>2. CASE v < base
    BY <2>1, <2>2
  <2>3. CASE ~(v < base)
    <3>1. v \div base \in 0..(k - 1)
      BY <1>4, <2>3
    <3>2. h[v \div base] = g[v \div base]
      BY <3>1
    <3> HIDE DEF h
    <3> QED
      BY <2>1, <3>2
  <2> QED
    BY <2>2, <2>3
<1>6. h = [v \in 0..k |-> h[v]]
  OBVIOUS
<1>7. HighDigits(base, k, h)
  <2> HIDE DEF h
  <2> QED
    BY <1>5, <1>6 DEF HighDigits
<1> QED
  BY <1>1, <1>7

\* So HighFirst satisfies its equation.
LEMMA HighFirstIs ==
    ASSUME NEW base \in Bases, NEW n \in Nat
    PROVE  HighDigits(base, n, HighFirst(n, base))
<1>1. \E g : HighDigits(base, n, g)
  BY HighDigitsExist
<1> QED
  BY <1>1 DEF HighDigits, HighFirst

\* A number has at least one digit.
LEMMA HighFirstType ==
    ASSUME NEW base \in Bases, NEW n \in Nat
    PROVE  \A v \in 0..n : /\ HighFirst(n, base)[v] \in Seq(Chars)
                           /\ Len(HighFirst(n, base)[v]) \in Nat \ {0}
<1> DEFINE g == HighFirst(n, base)
           Ok(v) == g[v] \in Seq(Chars) /\ Len(g[v]) \in Nat \ {0}
           T == {v \in 0..n : ~Ok(v)}
<1>1. HighDigits(base, n, g)
  BY HighFirstIs
<1> HIDE DEF g
<1> SUFFICES ASSUME T # {} PROVE FALSE
  BY DEF g
<1>2. PICK v \in T : \A j \in T : v <= j
  <2>1. T \in SUBSET Nat
    OBVIOUS
  <2> HIDE DEF T
  <2> QED
    BY ONLY <2>1, T # {}, LeastOf
<1>3. CASE v < base
  <2>1. g[v] = <<Digits[v + 1]>>
    BY <1>1, <1>3 DEF HighDigits
  <2>2. v \in 0..15
    BY <1>3 DEF Bases
  <2>3. Ok(v)
    <3> DEFINE d == Digits[v + 1]
    <3>1. d \in Chars
      BY <2>2, DigitsAreChars
    <3>2. g[v] = <<d>>
      BY <2>1
    <3> HIDE DEF d
    <3>3. <<d>> \in Seq(Chars) /\ Len(<<d>>) = 1
      BY ONLY <3>1
    <3> QED
      BY <3>2, <3>3
  <2> QED
    BY <1>2, <2>3
<1>4. CASE ~(v < base)
  <2>1. v \div base \in 0..n /\ v \div base < v /\ v % base \in 0..15
    BY <1>4, BaseFacts DEF Bases
  <2>2. g[v] = Append(g[v \div base], Digits[(v % base) + 1])
    BY <1>1, <1>4 DEF HighDigits
  <2>3. v \div base \notin T
    BY <1>2, <2>1
  <2>4. Ok(v \div base)
    BY <2>1, <2>3
  <2>5. Digits[(v % base) + 1] \in Chars
    BY <2>1, DigitsAreChars
  <2>6. Ok(v)
    <3> DEFINE s == g[v \div base]
               d == Digits[(v % base) + 1]
    <3>1. s \in Seq(Chars) /\ d \in Chars /\ g[v] = Append(s, d)
      BY <2>2, <2>4, <2>5
    <3>2. Append(s, d) \in Seq(Chars) /\ Len(Append(s, d)) = Len(s) + 1
      BY ONLY <3>1, AppendProperties
    <3> QED
      BY <2>4, <3>1, <3>2
  <2> QED
    BY <1>2, <2>6
<1> QED
  BY <1>3, <1>4

\* What the do-while loop of u_to_nstr leaves: the digits of the number turned
\* round, or as many digits as there is room for and a number that has more.
LEMMA LowFirstFacts ==
    ASSUME NEW base \in Bases, NEW value \in Nat, NEW room \in Nat \ {0}
    PROVE  LET low == LowFirst(value, base, room)
               high == HighFirst(value, base)[value]
           IN  /\ low.digits \in Seq(Chars) /\ Len(low.digits) \in 1..room
               /\ low.left = 0 => /\ Len(high) = Len(low.digits)
                                  /\ \A i \in 1..Len(high) :
                                        high[i] = low.digits[Len(high) + 1 - i]
               /\ low.left # 0 => Len(low.digits) = room /\ Len(high) > room
<1> DEFINE q == Quotients(value, base, room)
           H == HighFirst(value, base)
           S == {k \in 1..room : k = room \/ q[k] = 0}
           c == Min(S)
           digits == [k \in 1..c |-> Digits[(q[k - 1] % base) + 1]]
<1>1. q[0] = value /\ \A k \in 1..room : q[k] = q[k - 1] \div base
  BY QuotientsIs DEF Divides
<1>2. HighDigits(base, value, H)
  BY HighFirstIs
<1>3. \A v \in 0..value : H[v] \in Seq(Chars) /\ Len(H[v]) \in Nat \ {0}
  BY HighFirstType
<1>4. LowFirst(value, base, room) = [digits |-> digits, left |-> q[c]]
  BY DEF LowFirst
<1>5. c \in 1..room /\ (c = room \/ q[c] = 0) /\ \A k \in 1..room : k < c => k \notin S
  <2>1. S \in SUBSET Nat /\ room \in S
    OBVIOUS
  <2>2. c \in S /\ \A k \in S : c <= k
    <3> HIDE DEF S
    <3> QED
      BY ONLY <2>1, MinIs
  <2> QED
    BY <2>2
<1> HIDE DEF q, H, c
<1>6. \A k \in 0..room : q[k] \in 0..value
  <2> DEFINE T == {k \in 0..room : q[k] \notin 0..value}
  <2> SUFFICES ASSUME T # {} PROVE FALSE
    OBVIOUS
  <2>1. PICK k \in T : \A j \in T : k <= j
    <3>1. T \in SUBSET Nat
      OBVIOUS
    <3> HIDE DEF T
    <3> QED
      BY ONLY <3>1, T # {}, LeastOf
  <2>2. k # 0 /\ k - 1 \in 0..room /\ k - 1 \notin T
    BY <1>1, <2>1
  <2>3. q[k - 1] \in 0..value /\ q[k] = q[k - 1] \div base
    BY <1>1, <2>2
  <2>4. q[k] \in Nat /\ q[k] <= q[k - 1]
    BY <2>3, BaseFacts
  <2> QED
    BY <2>1, <2>3, <2>4
<1>10. \A k \in 1..room : /\ q[k - 1] \in 0..value /\ q[k] \in 0..value
                          /\ q[k] = 0 <=> q[k - 1] < base
                          /\ q[k - 1] % base \in 0..15
                          /\ q[k - 1] < base => q[k - 1] % base = q[k - 1]
  <2> SUFFICES ASSUME NEW k \in 1..room
               PROVE  /\ q[k - 1] \in 0..value /\ q[k] \in 0..value
                      /\ q[k] = 0 <=> q[k - 1] < base
                      /\ q[k - 1] % base \in 0..15
                      /\ q[k - 1] < base => q[k - 1] % base = q[k - 1]
    OBVIOUS
  <2>1. PICK w \in Nat : w = q[k - 1]
    BY <1>6
  <2>2. q[k] = w \div base
    BY <1>1, <2>1
  <2>3. /\ w \div base = 0 <=> w < base
        /\ w % base \in 0..15
        /\ w < base => w % base = w
    BY BaseFacts
  <2>4. q[k - 1] \in 0..value /\ q[k] \in 0..value
    BY <1>6
  <2> QED
    BY ONLY <2>1, <2>2, <2>3, <2>4, Zenon
<1>7. digits \in Seq(Chars) /\ Len(digits) = c
  <2>1. \A k \in 1..c : Digits[(q[k - 1] % base) + 1] \in Chars
    <3> SUFFICES ASSUME NEW k \in 1..c PROVE Digits[(q[k - 1] % base) + 1] \in Chars
      OBVIOUS
    <3>1. q[k - 1] \in Nat
      BY <1>5, <1>6
    <3> QED
      BY <3>1, BaseFacts, DigitsAreChars
  <2>2. digits \in [1..c -> Chars] /\ c \in Nat
    BY <1>5, <2>1
  <2> HIDE DEF digits
  <2> QED
    BY ONLY <2>2
<1>8. ASSUME q[c] = 0
      PROVE  Len(H[value]) = c /\ \A i \in 1..c : H[value][i] = digits[c + 1 - i]
  <2> DEFINE Ok(m) == /\ Len(H[q[c - m]]) = m
                      /\ \A i \in 1..m : H[q[c - m]][i] = digits[c + 1 - i]
             T == {m \in 1..c : ~Ok(m)}
  <2>1. T = {}
    <3> SUFFICES ASSUME T # {} PROVE FALSE
      OBVIOUS
    <3>1. PICK m \in T : \A j \in T : m <= j
      <4>1. T \in SUBSET Nat
        OBVIOUS
      <4> HIDE DEF T
      <4> QED
        BY ONLY <4>1, T # {}, LeastOf
    <3> DEFINE k == c - m
               v == q[k]
    <3>2. k \in 0..(c - 1) /\ k \in 0..room /\ v \in 0..value /\ q[k + 1] = v \div base
      BY <1>1, <1>5, <1>6, <3>1
    <3>3. digits[c + 1 - m] = Digits[(v % base) + 1]
      BY <1>5, <3>1, <3>2
    <3>4. CASE m = 1
      <4>1. v < base
        BY <1>8, <1>10, <3>1, <3>2, <3>4, <1>5
      <4>2. v % base = v
        <5> HIDE DEF v
        <5>1. v \in Nat
          BY ONLY <3>2, value \in Nat
        <5>2. base \in Nat
          BY DEF Bases
        <5> QED
          BY ONLY <4>1, <5>1, <5>2, ModSmall
      <4>3. H[v] = <<Digits[(v % base) + 1]>>
        BY <1>2, <3>2, <4>1, <4>2 DEF HighDigits
      <4>4. Ok(m)
        <5> DEFINE d == Digits[(v % base) + 1]
        <5>1. Len(<<d>>) = 1 /\ <<d>>[1] = d
          OBVIOUS
        <5>2. H[q[c - m]] = <<d>> /\ d = digits[c + 1 - 1]
          BY <3>3, <3>4, <4>3
        <5> HIDE DEF d, digits
        <5> QED
          BY <3>4, <5>1, <5>2
      <4> QED
        BY <3>1, <4>4
    <3>5. CASE m # 1
      <4>1. m - 1 \in 1..c /\ c - (m - 1) = k + 1 /\ k + 1 \in 1..room /\ k + 1 < c
        BY <1>5, <3>1, <3>5
      <4>a. m - 1 \notin T
        <5>1. m \in Nat /\ ~(m <= m - 1)
          BY <3>1
        <5> HIDE DEF T
        <5> QED
          BY <3>1, <5>1
      <4>b. /\ q[k + 1] \in 0..value
            /\ q[k + 1] = 0 <=> q[k] < base
            /\ q[k] % base \in 0..15
        <5>1. PICK j \in 1..room : j = k + 1
          BY <4>1
        <5>2. j - 1 = k
          BY <1>5, <3>1, <5>1
        <5>3. /\ q[j] \in 0..value
              /\ q[j] = 0 <=> q[j - 1] < base
              /\ q[j - 1] % base \in 0..15
          BY ONLY <1>10, j \in 1..room, Zenon
        <5> HIDE DEF k
        <5> QED
          BY ONLY <5>1, <5>2, <5>3, Zenon
      <4>2. q[k + 1] # 0
        <5>1. k + 1 \notin S
          <6> HIDE DEF S
          <6> QED
            BY ONLY <1>5, <4>1
        <5> QED
          BY ONLY <4>1, <5>1, Zenon DEF S
      <4>3. ~(v < base)
        BY ONLY <4>2, <4>b, ZenonT(40)
      <4>4. H[v] = Append(H[q[k + 1]], Digits[(v % base) + 1])
        BY <1>2, <3>2, <4>3 DEF HighDigits
      <4>5. Ok(m - 1)
        BY <4>1, <4>a
      <4> DEFINE s == H[q[k + 1]]
                 d == Digits[(v % base) + 1]
      <4>6. s \in Seq(Chars) /\ d \in Chars
        <5>1. q[k + 1] \in 0..value /\ v % base \in 0..15
          BY <4>b
        <5> QED
          BY <1>3, <5>1, DigitsAreChars
      <4>7. Len(s) = m - 1 /\ \A i \in 1..(m - 1) : s[i] = digits[c + 1 - i]
        BY <4>1, <4>5
      <4>8. d = digits[c + 1 - m] /\ H[v] = Append(s, d) /\ m \in Nat
        BY <3>1, <3>3, <4>4
      <4> HIDE DEF s, d, digits, k, v
      <4>9. Len(Append(s, d)) = m /\ Append(s, d)[m] = d
            /\ \A i \in 1..(m - 1) : Append(s, d)[i] = s[i]
        BY <4>6, <4>7, <4>8, AppendProperties
      <4>10. Len(H[v]) = m /\ \A i \in 1..m : H[v][i] = digits[c + 1 - i]
        BY ONLY <4>7, <4>8, <4>9
      <4>11. Ok(m)
        BY <4>10 DEF v, k
      <4> QED
        BY <3>1, <4>11
    <3> QED
      BY <3>4, <3>5
  <2>2. Ok(c)
    <3>1. c \in 1..c
      BY <1>5
    <3>2. c \notin T
      BY <2>1
    <3> HIDE DEF Ok
    <3> QED
      BY <3>1, <3>2
  <2>3. c - c = 0
    BY <1>5
  <2> QED
    BY <1>1, <2>2, <2>3
<1>9. ASSUME q[c] # 0 PROVE c = room /\ Len(H[value]) > room
  <2>1. c = room /\ \A k \in 1..room : q[k] # 0
    BY <1>5, <1>9
  <2> DEFINE T == {k \in 0..room : Len(H[value]) # k + Len(H[q[k]])}
  <2>2. T = {}
    <3> SUFFICES ASSUME T # {} PROVE FALSE
      OBVIOUS
    <3>1. PICK k \in T : \A j \in T : k <= j
      <4>1. T \in SUBSET Nat
        OBVIOUS
      <4> HIDE DEF T
      <4> QED
        BY ONLY <4>1, T # {}, LeastOf
    <3>2. value \in 0..value /\ Len(H[value]) \in Nat
      BY <1>3
    <3>3. k # 0
      BY <1>1, <3>1, <3>2
    <3>4. k \in 1..room /\ k - 1 \in 0..room /\ k - 1 \notin T
      BY <3>1, <3>3
    <3>5. q[k] = q[k - 1] \div base /\ q[k - 1] \in 0..value /\ q[k] # 0 /\ q[k] \in 0..value
      BY <1>1, <1>6, <2>1, <3>4
    <3>6. ~(q[k - 1] < base)
      BY ONLY <1>10, <3>4, <3>5, ZenonT(40)
    <3>7. H[q[k - 1]] = Append(H[q[k]], Digits[(q[k - 1] % base) + 1])
      BY <1>2, <3>5, <3>6 DEF HighDigits
    <3>8. q[k - 1] % base \in 0..15
      BY <1>10, <3>4
    <3>9. Len(H[q[k - 1]]) = Len(H[q[k]]) + 1 /\ Len(H[q[k]]) \in Nat
      <4> DEFINE s == H[q[k]]
                 d == Digits[(q[k - 1] % base) + 1]
      <4>1. s \in Seq(Chars) /\ d \in Chars /\ Len(s) \in Nat
        BY <1>3, <3>5, <3>8, DigitsAreChars
      <4> HIDE DEF s, d
      <4>2. Len(Append(s, d)) = Len(s) + 1
        BY ONLY <4>1, AppendProperties
      <4> QED
        BY <3>7, <4>1, <4>2 DEF s, d
    <3>10. Len(H[value]) = (k - 1) + Len(H[q[k - 1]])
      BY <3>4
    <3> QED
      BY <3>1, <3>4, <3>9, <3>10
  <2>3. Len(H[value]) = room + Len(H[q[room]])
    BY <2>2
  <2>4. Len(H[q[room]]) \in Nat \ {0}
    BY <1>3, <1>6
  <2> QED
    BY <2>1, <2>3, <2>4
<1> HIDE DEF digits
<1> QED
  BY <1>4, <1>5, <1>7, <1>8, <1>9 DEF H

----------------------------------------------------------------------------
(***************************************************************************)
(* Numbers in the buffer.                                                  *)
(***************************************************************************)
LEMMA WriteFacts ==
    ASSUME NEW D \in SUBSET Int, NEW mem \in [D -> Chars], NEW b \in Int, NEW s \in Seq(Chars)
    PROVE  /\ Write(mem, b, s) \in [D -> Chars]
           /\ \A x \in D : Write(mem, b, s)[x] =
                  IF b <= x /\ x < b + Len(s) THEN s[x - b + 1] ELSE mem[x]
<1>1. Len(s) \in Nat /\ \A i \in 1..Len(s) : s[i] \in Chars
  OBVIOUS
<1>2. \A x \in D : x - b \in 0..(Len(s) - 1) <=> b <= x /\ x < b + Len(s)
  BY <1>1
<1>3. Write(mem, b, s) =
          [x \in D |-> IF b <= x /\ x < b + Len(s) THEN s[x - b + 1] ELSE mem[x]]
  <2>1. DOMAIN mem = D
    OBVIOUS
  <2> QED
    BY <1>2, <2>1 DEF Write
<1>4. ASSUME NEW x \in D, b <= x /\ x < b + Len(s) PROVE s[x - b + 1] \in Chars
  <2>1. x - b + 1 \in 1..Len(s)
    BY <1>1, <1>4
  <2> QED
    BY <1>1, <2>1
<1> QED
  BY <1>3, <1>4

\* A prefix has two characters or none.
LEMMA PrefixFacts ==
    ASSUME NEW base \in Bases
    PROVE  Prefix(base) \in Seq(Chars) /\ Len(Prefix(base)) \in {0, 2}
<1>1. {"0", "b", "x"} \subseteq Chars
  BY CharsAssumption
<1>2. CASE base = 2
  BY <1>1, <1>2 DEF Prefix
<1>3. CASE base = 16
  BY <1>1, <1>3 DEF Prefix
<1>4. CASE base # 2 /\ base # 16
  <2>1. Prefix(base) = <<>>
    BY <1>4 DEF Prefix
  <2> QED
    BY <2>1
<1> QED
  BY <1>2, <1>3, <1>4

\* The loop that puts the digits in order turns what is behind the prefix round.
LEMMA ReversedIs ==
    ASSUME NEW p \in Seq(Chars), NEW d \in Seq(Chars), NEW h \in Seq(Chars),
           Len(h) = Len(d), \A i \in 1..Len(h) : h[i] = d[Len(h) + 1 - i]
    PROVE  Reversed(p \o d, Len(p)) = p \o h
<1> DEFINE s == p \o d
           j == Len(p)
           n == Len(d)
<1>1. j \in Nat /\ n \in Nat
  OBVIOUS
<1>2. s \in Seq(Chars) /\ Len(s) = j + n
      /\ \A i \in 1..(j + n) : s[i] = IF i <= j THEN p[i] ELSE d[i - j]
  BY ONLY p \in Seq(Chars), d \in Seq(Chars), ConcatProperties
<1> HIDE DEF s
<1>3. \A i \in 1..(j + n) : s[i] \in Chars
  BY <1>2, ElementOfSeq
<1>4. SubSeq(s, 1, j) = p
  <2>1. \A i \in 1..j : s[i] \in Chars
    BY <1>1, <1>3
  <2>2. /\ SubSeq(s, 1, j) \in Seq(Chars)
        /\ Len(SubSeq(s, 1, j)) = j
        /\ \A i \in 1..j : SubSeq(s, 1, j)[i] = s[i]
    <3>1. 1 \in Int /\ j \in Int
      BY <1>1
    <3>2. /\ SubSeq(s, 1, j) \in Seq(Chars)
          /\ Len(SubSeq(s, 1, j)) = IF 1 <= j THEN j - 1 + 1 ELSE 0
          /\ \A i \in 1..(j - 1 + 1) : SubSeq(s, 1, j)[i] = s[1 + i - 1]
      <4> HIDE DEF j
      <4> QED
        BY ONLY <2>1, <3>1, SubSeqProperties
    <3> HIDE DEF j
    <3> QED
      BY ONLY <1>1, <3>2
  <2>3. \A i \in 1..j : SubSeq(s, 1, j)[i] = p[i]
    BY <1>1, <1>2, <2>2
  <2> QED
    BY ONLY p \in Seq(Chars), <2>2, <2>3, SeqEqual
<1> DEFINE t == SubSeq(s, j + 1, j + n)
<1>5. Len(t) = n /\ \A i \in 1..n : t[i] = d[i]
  <2>1. \A i \in (j + 1)..(j + n) : s[i] \in Chars
    BY <1>1, <1>3
  <2>2. j + 1 \in Int /\ j + n \in Int
    BY <1>1
  <2>3. /\ Len(t) = IF j + 1 <= j + n THEN (j + n) - (j + 1) + 1 ELSE 0
        /\ \A i \in 1..((j + n) - (j + 1) + 1) : t[i] = s[(j + 1) + i - 1]
    <3> HIDE DEF j, n
    <3> QED
      BY ONLY <2>1, <2>2, SubSeqProperties
  <2>4. Len(t) = n /\ \A i \in 1..n : t[i] = s[j + i]
    <3> HIDE DEF j, n, t
    <3> QED
      BY ONLY <1>1, <2>3
  <2>5. ASSUME NEW i \in 1..n PROVE s[j + i] = d[i]
    <3>1. j + i \in 1..(j + n) /\ ~(j + i <= j) /\ (j + i) - j = i
      BY <1>1
    <3> HIDE DEF j, n
    <3> QED
      BY <1>2, <3>1
  <2> QED
    BY <2>4, <2>5
<1> HIDE DEF t
<1>6. Reverse(t) = [i \in 1..n |-> t[n - i + 1]]
  BY <1>5 DEF Reverse
<1>7. \A i \in 1..n : t[n - i + 1] = h[i]
  <2> SUFFICES ASSUME NEW i \in 1..n PROVE t[n - i + 1] = h[i]
    OBVIOUS
  <2>1. n - i + 1 \in 1..n /\ Len(h) + 1 - i = n - i + 1 /\ i \in 1..Len(h)
    BY <1>1
  <2> QED
    BY <1>5, <2>1
<1>8. Reverse(t) = h
  <2>1. h = [i \in 1..n |-> h[i]]
    <3>1. DOMAIN h = 1..n /\ h \in [1..Len(h) -> Chars]
      BY ONLY h \in Seq(Chars), Len(h) = Len(d), LenProperties
    <3> QED
      BY <3>1
  <2> QED
    BY <1>6, <1>7, <2>1
<1> QED
  BY <1>2, <1>4, <1>8 DEF Reversed, s, t


\* The characters of a number, with its prefix.
Unsigned(value, base) == Prefix(base) \o HighFirst(value, base)[value]

\* The numeral of a number without its sign is a text of known length.
LEMMA UnsignedFacts ==
    ASSUME NEW base \in Bases, NEW value \in Nat
    PROVE  /\ Unsigned(value, base) \in Seq(Chars)
           /\ Len(Unsigned(value, base)) =
                  Len(Prefix(base)) + Len(HighFirst(value, base)[value])
           /\ Len(Unsigned(value, base)) \in Nat \ {0}
           /\ Len(HighFirst(value, base)[value]) \in Nat \ {0}
           /\ HighFirst(value, base)[value] \in Seq(Chars)
<1> DEFINE p == Prefix(base)
           h == HighFirst(value, base)[value]
<1>1. h \in Seq(Chars) /\ Len(h) \in Nat \ {0}
  <2>1. value \in 0..value
    OBVIOUS
  <2> QED
    BY <2>1, HighFirstType
<1>2. p \in Seq(Chars) /\ Len(p) \in Nat
  BY PrefixFacts
<1>3. Unsigned(value, base) = p \o h
  BY DEF Unsigned
<1> HIDE DEF p, h
<1>4. p \o h \in Seq(Chars) /\ Len(p \o h) = Len(p) + Len(h)
  BY ONLY <1>1, <1>2, ConcatProperties
<1>5. Len(p \o h) \in Nat \ {0}
  BY ONLY <1>1, <1>2, <1>4
<1> QED
  BY ONLY <1>1, <1>3, <1>4, <1>5 DEF p, h

\* A number that fits with its terminator is written whole ...
LEMMA UToNstrFits ==
    ASSUME NEW base \in Bases, NEW value \in Nat, NEW n \in Nat, NEW mem, NEW b,
           Len(Unsigned(value, base)) < n
    PROVE  UToNstr(mem, b, value, n, base) =
               [mem   |-> Write(mem, b, Unsigned(value, base) \o <<NUL>>),
                width |-> Len(Unsigned(value, base))]
<1> DEFINE p == Prefix(base)
           h == HighFirst(value, base)[value]
           low == LowFirst(value, base, n - Len(p))
           w == Unsigned(value, base)
<1>1. p \in Seq(Chars) /\ Len(p) \in {0, 2} /\ h \in Seq(Chars) /\ Len(h) \in Nat \ {0}
      /\ Len(w) = Len(p) + Len(h)
  BY PrefixFacts, UnsignedFacts
<1>2. n - Len(p) \in Nat \ {0} /\ ~(Len(h) > n - Len(p)) /\ n # 0 /\ ~(Len(p) > 0 /\ n <= 2)
  <2> HIDE DEF p, h
  <2> QED
    BY <1>1
<1>3. /\ low.digits \in Seq(Chars)
      /\ low.left = 0 => /\ Len(h) = Len(low.digits)
                         /\ \A i \in 1..Len(h) : h[i] = low.digits[Len(h) + 1 - i]
      /\ low.left # 0 => Len(h) > n - Len(p)
  <2>1. \A room \in Nat \ {0} :
            LET lw == LowFirst(value, base, room)
            IN  /\ lw.digits \in Seq(Chars)
                /\ lw.left = 0 => /\ Len(h) = Len(lw.digits)
                                  /\ \A i \in 1..Len(h) : h[i] = lw.digits[Len(h) + 1 - i]
                /\ lw.left # 0 => Len(h) > room
    BY LowFirstFacts
  <2> HIDE DEF p, h
  <2> QED
    BY ONLY <1>2, <2>1
<1>4. low.left = 0
  BY <1>2, <1>3
<1>5. Reversed(p \o low.digits, Len(p)) = w
  <2>1. Reversed(p \o low.digits, Len(p)) = p \o h
    <3> HIDE DEF p, h, low
    <3> QED
      BY ONLY <1>1, <1>3, <1>4, ReversedIs
  <2> QED
    BY <2>1 DEF Unsigned
<1>6. Len(low.digits) = Len(h)
  BY <1>3, <1>4
<1> QED
  BY <1>1, <1>2, <1>4, <1>5, <1>6 DEF UToNstr

\* ... and one that would not fit without it leaves nothing outside its room.
LEMMA UToNstrTooWide ==
    ASSUME NEW base \in Bases, NEW value \in Nat, NEW n \in Nat, NEW D \in SUBSET Int,
           NEW mem \in [D -> Chars], NEW b \in Nat, Len(Unsigned(value, base)) > n
    PROVE  LET r == UToNstr(mem, b, value, n, base)
           IN  /\ r.width = 0 /\ r.mem \in [D -> Chars]
               /\ \A x \in D : x < b \/ b + n <= x => r.mem[x] = mem[x]
<1> DEFINE p == Prefix(base)
           h == HighFirst(value, base)[value]
           low == LowFirst(value, base, n - Len(p))
           r == UToNstr(mem, b, value, n, base)
<1>1. p \in Seq(Chars) /\ Len(p) \in {0, 2} /\ h \in Seq(Chars) /\ Len(h) \in Nat \ {0}
      /\ Len(p) + Len(h) > n
  <2>1. Len(Unsigned(value, base)) = Len(p) + Len(h)
    BY UnsignedFacts
  <2>2. Len(Prefix(base)) + Len(HighFirst(value, base)[value]) > n
    BY <2>1
  <2> QED
    BY PrefixFacts, UnsignedFacts, <2>2
<1>2. <<NUL>> \in Seq(Chars) /\ Len(<<NUL>>) = 1
  <2>1. NUL \in Chars
    BY CharsAssumption
  <2> HIDE DEF NUL
  <2> QED
    BY ONLY <2>1
<1>i. b \in Int
  OBVIOUS
<1>3. CASE n = 0
  <2>1. r = [mem |-> mem, width |-> 0]
    BY <1>3 DEF UToNstr
  <2> QED
    BY <2>1
<1>4. CASE n # 0 /\ Len(p) > 0 /\ n <= 2
  <2>1. r = [mem |-> Write(mem, b, <<NUL>>), width |-> 0]
    BY <1>4 DEF UToNstr
  <2>2. /\ Write(mem, b, <<NUL>>) \in [D -> Chars]
        /\ \A x \in D : Write(mem, b, <<NUL>>)[x] =
               IF b <= x /\ x < b + Len(<<NUL>>) THEN <<NUL>>[x - b + 1] ELSE mem[x]
    BY ONLY <1>2, D \in SUBSET Int, mem \in [D -> Chars], <1>i, WriteFacts
  <2>3. \A x \in D : x < b \/ b + n <= x => ~(b <= x /\ x < b + Len(<<NUL>>))
    BY <1>2, <1>4
  <2> HIDE DEF r
  <2> QED
    BY ONLY <2>1, <2>2, <2>3 DEF r
<1>5. CASE n # 0 /\ ~(Len(p) > 0 /\ n <= 2)
  <2>1. n - Len(p) \in Nat \ {0}
    <3>1. n \in Nat /\ Len(p) \in {0, 2} /\ n # 0 /\ ~(Len(p) > 0 /\ n <= 2)
      BY <1>1, <1>5
    <3>2. CASE Len(p) = 0
      BY ONLY <3>1, <3>2
    <3>3. CASE Len(p) = 2
      BY ONLY <3>1, <3>3
    <3> QED
      BY <3>1, <3>2, <3>3
  <2>2. /\ low.digits \in Seq(Chars)
        /\ low.left = 0 => Len(h) = Len(low.digits)
        /\ Len(low.digits) \in 1..(n - Len(p))
        /\ low.left # 0 => Len(low.digits) = n - Len(p)
    <3>1. \A room \in Nat \ {0} :
              LET lw == LowFirst(value, base, room)
              IN  /\ lw.digits \in Seq(Chars)
                  /\ lw.left = 0 => Len(h) = Len(lw.digits)
                  /\ Len(lw.digits) \in 1..room
                  /\ lw.left # 0 => Len(lw.digits) = room
      BY LowFirstFacts
    <3> HIDE DEF p, h
    <3> QED
      BY ONLY <2>1, <3>1
  <2>3. low.left # 0
    <3> HIDE DEF p, h, low
    <3> QED
      BY <1>1, <2>2
  <2> DEFINE s == p \o low.digits
             m == Write(mem, b, s)
  <2>4. r = [mem |-> Write(m, b, <<NUL>>), width |-> 0]
    BY <1>5, <2>3 DEF UToNstr
  <2>5. s \in Seq(Chars) /\ Len(s) = n
    <3>1. s \in Seq(Chars) /\ Len(s) = Len(p) + Len(low.digits)
      <4> HIDE DEF p, low
      <4> QED
        BY ONLY <1>1, <2>2, ConcatProperties
    <3> HIDE DEF p, low, s
    <3> QED
      BY <1>1, <2>2, <2>3, <3>1
  <2>6. /\ m \in [D -> Chars]
        /\ \A x \in D : m[x] = IF b <= x /\ x < b + Len(s) THEN s[x - b + 1] ELSE mem[x]
    <3> HIDE DEF s
    <3> QED
      BY ONLY <2>5, D \in SUBSET Int, mem \in [D -> Chars], <1>i, WriteFacts
  <2>7. /\ Write(m, b, <<NUL>>) \in [D -> Chars]
        /\ \A x \in D : Write(m, b, <<NUL>>)[x] =
               IF b <= x /\ x < b + Len(<<NUL>>) THEN <<NUL>>[x - b + 1] ELSE m[x]
    <3> HIDE DEF m
    <3> QED
      BY ONLY <1>2, D \in SUBSET Int, <2>6, <1>i, WriteFacts
  <2>8. \A x \in D : x < b \/ b + n <= x => /\ ~(b <= x /\ x < b + Len(<<NUL>>))
                                            /\ ~(b <= x /\ x < b + Len(s))
    <3> HIDE DEF s
    <3> QED
      BY <1>2, <1>5, <2>5
  <2>9. \A x \in D : x < b \/ b + n <= x => Write(m, b, <<NUL>>)[x] = mem[x]
    <3> HIDE DEF s, m
    <3> QED
      BY ONLY <2>6, <2>7, <2>8
  <2> HIDE DEF m, r
  <2>10. r.width = 0 /\ r.mem = Write(m, b, <<NUL>>)
    BY <2>4
  <2> QED
    BY <2>7, <2>9, <2>10 DEF r
<1> HIDE DEF p, r
<1> QED
  BY <1>3, <1>4, <1>5 DEF r


\* What is known of the numbers that are printed.
LEMMA NumeralFacts ==
    ASSUME NEW item \in FormatItems, IsNumber(item)
    PROVE  /\ item.base \in Bases /\ item.value \in Int
           /\ item.value < 0 => item.kind = "int" /\ (-item.value) % Word = -item.value
           /\ item.value >= 0 => Numeral(item) = Unsigned(item.value, item.base)
           /\ item.value < 0 => Numeral(item) = <<"-">> \o Unsigned(-item.value, item.base)
           /\ Numeral(item) \in Seq(Chars) /\ Len(Numeral(item)) \in Nat \ {0}
<1> DEFINE v == item.value
           base == item.base
<1>1. /\ item.kind \in {"int", "unsigned"} /\ base \in Bases
      /\ item.kind = "unsigned" => v \in 0..(Word - 1)
      /\ item.kind = "int" => v \in (-(Word \div 2))..(Word \div 2 - 1)
  BY DEF FormatItems, IsNumber
<1>2. Word \in Nat /\ Word >= 2 /\ Word \div 2 \in Nat /\ Word \div 2 < Word
  <2>1. Word \in Nat /\ Word >= 2
    BY SizesAssumption
  <2> QED
    BY ONLY <2>1
<1> HIDE DEF v, base
<1>3. v \in Int /\ (v < 0 => item.kind = "int" /\ -v \in Nat /\ -v < Word)
  BY ONLY <1>1, <1>2
<1>4. v < 0 => (-v) % Word = -v
  BY ONLY <1>2, <1>3, ModSmall
<1>5. ASSUME NEW u \in Nat
      PROVE  Unsigned(u, base) \in Seq(Chars) /\ Len(Unsigned(u, base)) \in Nat \ {0}
  <2>1. base \in Bases
    BY <1>1
  <2> QED
    BY ONLY <2>1, u \in Nat, UnsignedFacts
<1>6. <<"-">> \in Seq(Chars) /\ Len(<<"-">>) = 1
  <2>1. "-" \in Chars
    BY CharsAssumption
  <2> QED
    BY ONLY <2>1
<1>7. CASE v >= 0
  <2>1. Numeral(item) = <<>> \o Unsigned(v, base)
    <3>1. ~(item.value < 0)
      BY <1>3, <1>7 DEF v
    <3> QED
      BY ONLY <3>1, Zenon DEF Numeral, Unsigned, v, base
  <2>2. v \in Nat /\ ~(v < 0)
    BY <1>3, <1>7
  <2>3. Unsigned(v, base) \in Seq(Chars) /\ Len(Unsigned(v, base)) \in Nat \ {0}
    BY <1>5, <2>2
  <2>4. Numeral(item) = Unsigned(v, base)
    BY ONLY <2>1, <2>3, ConcatEmptySeq
  <2> QED
    BY <1>1, <1>3, <2>2, <2>3, <2>4 DEF v, base
<1>8. CASE v < 0
  <2>1. Numeral(item) = <<"-">> \o Unsigned(-v, base)
    BY <1>3, <1>8 DEF Numeral, Unsigned, v, base
  <2>2. -v \in Nat /\ ~(v >= 0)
    BY <1>3, <1>8
  <2>3. Unsigned(-v, base) \in Seq(Chars) /\ Len(Unsigned(-v, base)) \in Nat \ {0}
    BY <1>5, <2>2
  <2>4. Numeral(item) \in Seq(Chars) /\ Len(Numeral(item)) = 1 + Len(Unsigned(-v, base))
    BY ONLY <1>6, <2>1, <2>3, ConcatProperties
  <2>5. Len(Numeral(item)) \in Nat \ {0}
    BY ONLY <2>3, <2>4
  <2> QED
    BY <1>1, <1>3, <1>4, <1>8, <2>1, <2>2, <2>4, <2>5 DEF v, base
<1> QED
  BY <1>3, <1>7, <1>8

\* What vsnprintf does with a number, from byte j of the buffer on.
Convert(mem, j, item) ==
    IF item.kind = "int"
    THEN IToNstr(mem, j, item.value, (BufSize - j) % Word, item.base)
    ELSE UToNstr(mem, j, item.value, (BufSize - j) % Word, item.base)

\* The bytes of the buffer and after.
Bytes == 0..(Memory - 1)

\* The room left in the buffer never wraps around.
LEMMA RoomIs == \A j \in 0..(BufSize - 1) : /\ (BufSize - j) % Word = BufSize - j
                                           /\ BufSize - j \in Nat \ {0}
                                           /\ (BufSize - j - 1) % Word = BufSize - j - 1
                                           /\ BufSize - j - 1 \in Nat
<1> SUFFICES ASSUME NEW j \in 0..(BufSize - 1)
             PROVE  /\ (BufSize - j) % Word = BufSize - j
                    /\ BufSize - j \in Nat \ {0}
                    /\ (BufSize - j - 1) % Word = BufSize - j - 1
                    /\ BufSize - j - 1 \in Nat
  OBVIOUS
<1>1. /\ BufSize - j \in Nat \ {0} /\ BufSize - j < Word /\ Word \in Nat
      /\ BufSize - j - 1 \in Nat /\ BufSize - j - 1 < Word
  BY SizesAssumption
<1> QED
  BY ONLY <1>1, ModSmall

\* A number written whole: its characters, a terminator, and nothing else.
LEMMA ConvertFits ==
    ASSUME NEW item \in FormatItems, IsNumber(item), NEW mem \in [Bytes -> Chars],
           NEW j \in 0..(BufSize - 1), j + Len(Numeral(item)) < BufSize
    PROVE  LET r == Convert(mem, j, item)
               N == Numeral(item)
           IN  /\ r.width = Len(N) /\ r.mem \in [Bytes -> Chars]
               /\ \A x \in Bytes : x < j \/ j + Len(N) < x => r.mem[x] = mem[x]
               /\ \A k \in 1..Len(N) : r.mem[j + k - 1] = N[k]
<1> DEFINE r == Convert(mem, j, item)
           N == Numeral(item)
           n == BufSize - j
           v == item.value
           base == item.base
<1>1. /\ base \in Bases /\ v \in Int
      /\ v < 0 => item.kind = "int" /\ (-v) % Word = -v /\ N = <<"-">> \o Unsigned(-v, base)
      /\ v >= 0 => N = Unsigned(v, base)
      /\ N \in Seq(Chars) /\ Len(N) \in Nat \ {0} /\ Len(N) < n
  <2>1. Len(N) < n
    <3>1. Len(N) \in Nat /\ j \in Nat /\ BufSize \in Nat /\ j + Len(N) < BufSize
      BY NumeralFacts, SizesAssumption
    <3> HIDE DEF N
    <3> QED
      BY ONLY <3>1 DEF n
  <2> QED
    BY <2>1, NumeralFacts
<1>2. (BufSize - j) % Word = n /\ n \in Nat \ {0} /\ (n - 1) % Word = n - 1 /\ n - 1 \in Nat
  BY RoomIs
<1>3. Bytes \in SUBSET Int /\ j \in Int /\ j \in Nat /\ \A k \in 1..n : j + k - 1 \in Bytes
  BY SizesAssumption DEF Bytes
<1>4. /\ <<NUL>> \in Seq(Chars) /\ Len(<<NUL>>) = 1 /\ <<NUL>>[1] = NUL
      /\ <<"-">> \in Seq(Chars) /\ Len(<<"-">>) = 1 /\ <<"-">>[1] = "-"
  <2>1. NUL \in Chars /\ "-" \in Chars
    BY CharsAssumption DEF NUL
  <2> HIDE DEF NUL
  <2> QED
    BY ONLY <2>1
<1>5. ASSUME NEW u \in Nat, NEW b \in Int, NEW m, Len(Unsigned(u, base)) < m, m \in Nat
      PROVE  LET U == Unsigned(u, base)
                 q == UToNstr(mem, b, u, m, base)
             IN  /\ q.width = Len(U) /\ q.mem \in [Bytes -> Chars]
                 /\ U \in Seq(Chars) /\ Len(U) \in Nat \ {0}
                 /\ \A x \in Bytes : q.mem[x] = IF b <= x /\ x < b + Len(U) THEN U[x - b + 1]
                                                ELSE IF x = b + Len(U) THEN NUL ELSE mem[x]
  <2> DEFINE U == Unsigned(u, base)
             q == UToNstr(mem, b, u, m, base)
             s == U \o <<NUL>>
  <2>1. U \in Seq(Chars) /\ Len(U) \in Nat \ {0}
    BY <1>1, UnsignedFacts
  <2>2. q = [mem |-> Write(mem, b, s), width |-> Len(U)]
    BY <1>1, <1>5, UToNstrFits
  <2> HIDE DEF U, q
  <2>3. /\ s \in Seq(Chars) /\ Len(s) = Len(U) + 1
        /\ \A i \in 1..(Len(U) + 1) : s[i] = IF i <= Len(U) THEN U[i] ELSE <<NUL>>[i - Len(U)]
    BY ONLY <1>4, <2>1, ConcatProperties
  <2> HIDE DEF s
  <2>4. /\ Write(mem, b, s) \in [Bytes -> Chars]
        /\ \A x \in Bytes : Write(mem, b, s)[x] =
               IF b <= x /\ x < b + Len(s) THEN s[x - b + 1] ELSE mem[x]
    BY ONLY <1>3, <2>3, b \in Int, mem \in [Bytes -> Chars], WriteFacts
  <2>5. ASSUME NEW x \in Bytes
        PROVE  Write(mem, b, s)[x] = IF b <= x /\ x < b + Len(U) THEN U[x - b + 1]
                                     ELSE IF x = b + Len(U) THEN NUL ELSE mem[x]
    <3>1. x \in Int /\ b \in Int /\ Len(U) \in Nat
      BY <1>3, <2>1
    <3>2. CASE b <= x /\ x < b + Len(U)
      <4>1. x - b + 1 \in 1..(Len(U) + 1) /\ x - b + 1 <= Len(U) /\ x < b + Len(s)
        BY ONLY <3>1, <3>2, <2>3
      <4> QED
        BY ONLY <2>3, <2>4, <3>2, <4>1, x \in Bytes
    <3>3. CASE x = b + Len(U)
      <4>1. /\ x - b + 1 \in 1..(Len(U) + 1) /\ ~(x - b + 1 <= Len(U)) /\ x < b + Len(s)
            /\ b <= x /\ (x - b + 1) - Len(U) = 1 /\ ~(x < b + Len(U))
        BY ONLY <3>1, <3>3, <2>3
      <4>2. s[x - b + 1] = NUL
        BY ONLY <1>4, <2>3, <4>1
      <4> QED
        BY ONLY <2>4, <3>3, <4>1, <4>2, x \in Bytes
    <3>4. CASE ~(b <= x /\ x < b + Len(U)) /\ x # b + Len(U)
      <4>1. ~(b <= x /\ x < b + Len(s))
        BY ONLY <3>1, <3>4, <2>3
      <4> QED
        BY ONLY <2>4, <3>4, <4>1, x \in Bytes
    <3> QED
      BY <3>2, <3>3, <3>4
  <2>6. q.width = Len(U) /\ q.mem = Write(mem, b, s)
    BY <2>2
  <2>7. \A x \in Bytes : q.mem[x] = IF b <= x /\ x < b + Len(U) THEN U[x - b + 1]
                                    ELSE IF x = b + Len(U) THEN NUL ELSE mem[x]
    BY <2>5, <2>6
  <2> QED
    BY <2>1, <2>4, <2>6, <2>7 DEF U, q
<1> HIDE DEF r, N, n, v, base
<1>6. CASE v >= 0
  <2> DEFINE U == Unsigned(v, base)
             q == UToNstr(mem, j, v, n, base)
  <2>1. N = U /\ v \in Nat /\ ~(v < 0)
    BY <1>1, <1>6
  <2>2. r = q
    BY <1>2, <1>6, <2>1 DEF r, v, base, Convert, IToNstr
  <2>3. Len(U) < n /\ n \in Nat
    BY <1>1, <1>2, <2>1
  <2>4. /\ q.width = Len(U) /\ q.mem \in [Bytes -> Chars]
        /\ \A x \in Bytes : q.mem[x] = IF j <= x /\ x < j + Len(U) THEN U[x - j + 1]
                                       ELSE IF x = j + Len(U) THEN NUL ELSE mem[x]
    BY <1>3, <1>5, <2>1, <2>3
  <2> HIDE DEF U, q
  <2>5. \A x \in Bytes : x < j \/ j + Len(N) < x => r.mem[x] = mem[x]
    <3> SUFFICES ASSUME NEW x \in Bytes, x < j \/ j + Len(N) < x PROVE r.mem[x] = mem[x]
      OBVIOUS
    <3>1. x \in Int /\ Len(U) \in Nat /\ j \in Int /\ Len(N) = Len(U)
      BY <1>1, <1>3, <2>1
    <3>2. ~(j <= x /\ x < j + Len(U)) /\ x # j + Len(U)
      BY ONLY <3>1, x < j \/ j + Len(N) < x
    <3> QED
      BY ONLY <2>2, <2>4, <3>2, x \in Bytes
  <2>6. ASSUME NEW k \in 1..Len(N) PROVE r.mem[j + k - 1] = N[k]
    <3>1. Len(N) \in Nat /\ Len(N) < n /\ n \in Nat /\ j \in Int /\ Len(U) = Len(N)
      BY <1>1, <1>2, <1>3, <2>1
    <3>2. k \in 1..n /\ j <= j + k - 1 /\ j + k - 1 < j + Len(U) /\ (j + k - 1) - j + 1 = k
      BY ONLY <3>1, k \in 1..Len(N)
    <3>3. j + k - 1 \in Bytes
      BY <1>3, <3>2
    <3> QED
      BY ONLY <2>1, <2>2, <2>4, <3>2, <3>3
  <2> QED
    BY <2>1, <2>2, <2>4, <2>5, <2>6 DEF r, N
<1>7. CASE v < 0
  <2> DEFINE U == Unsigned(-v, base)
             q == UToNstr(mem, j + 1, -v, n - 1, base)
             m == Write(q.mem, j, <<"-">>)
  <2>1. N = <<"-">> \o U /\ -v \in Nat /\ ~(v >= 0) /\ item.kind = "int" /\ (-v) % Word = -v
    BY <1>1, <1>7
  <2>2. U \in Seq(Chars) /\ Len(U) \in Nat \ {0}
    BY <1>1, <2>1, UnsignedFacts
  <2>3. /\ Len(N) = 1 + Len(U)
        /\ \A i \in 1..(1 + Len(U)) : N[i] = IF i <= 1 THEN <<"-">>[i] ELSE U[i - 1]
    <3> HIDE DEF U
    <3> QED
      BY ONLY <1>4, <2>1, <2>2, ConcatProperties
  <2>4. Len(U) < n - 1 /\ n - 1 \in Nat
    <3> HIDE DEF U
    <3> QED
      BY <1>1, <1>2, <2>2, <2>3
  <2>5. /\ q.width = Len(U) /\ q.mem \in [Bytes -> Chars]
        /\ \A x \in Bytes : q.mem[x] = IF j + 1 <= x /\ x < j + 1 + Len(U) THEN U[x - (j + 1) + 1]
                                       ELSE IF x = j + 1 + Len(U) THEN NUL ELSE mem[x]
    <3>1. j + 1 \in Int
      BY <1>3
    <3> QED
      BY ONLY <1>5, <2>1, <2>4, <3>1, ZenonT(40) DEF U, q
  <2>6. r = [mem |-> m, width |-> q.width + 1]
    <3>1. q.width > 0
      BY <2>2, <2>5
    <3>2. r = IToNstr(mem, j, v, n, base)
      BY <1>2, <2>1 DEF r, v, base, Convert
    <3>3. UToNstr(mem, j + 1, (-v) % Word, (n - 1) % Word, base) = q
      BY <1>2, <2>1
    <3> HIDE DEF q
    <3> QED
      BY ONLY <2>1, <3>1, <3>2, <3>3 DEF IToNstr, m
  <2> HIDE DEF U, q
  <2>7. /\ m \in [Bytes -> Chars]
        /\ \A x \in Bytes : m[x] = IF j <= x /\ x < j + Len(<<"-">>) THEN <<"-">>[x - j + 1]
                                   ELSE q.mem[x]
    BY ONLY <1>3, <1>4, <2>5, WriteFacts
  <2> HIDE DEF m
  <2>8. \A x \in Bytes : x < j \/ j + Len(N) < x => m[x] = mem[x]
    <3> SUFFICES ASSUME NEW x \in Bytes, x < j \/ j + Len(N) < x PROVE m[x] = mem[x]
      OBVIOUS
    <3>1. x \in Int /\ Len(U) \in Nat /\ j \in Int
      BY <1>3, <2>2
    <3>2. /\ ~(j <= x /\ x < j + Len(<<"-">>))
          /\ ~(j + 1 <= x /\ x < j + 1 + Len(U)) /\ x # j + 1 + Len(U)
      BY ONLY <1>4, <2>3, <3>1, x < j \/ j + Len(N) < x
    <3> QED
      BY ONLY <2>5, <2>7, <3>2, x \in Bytes
  <2>9. ASSUME NEW k \in 1..Len(N) PROVE m[j + k - 1] = N[k]
    <3>1. Len(N) \in Nat /\ Len(N) < n /\ n \in Nat /\ j \in Int /\ Len(U) \in Nat
      BY <1>1, <1>2, <1>3, <2>2
    <3>2. k \in 1..n /\ k \in Int /\ j + k - 1 \in Bytes
      <4>1. k \in 1..n /\ k \in Int
        BY ONLY <3>1, k \in 1..Len(N)
      <4> QED
        BY <1>3, <4>1
    <3>3. CASE k = 1
      <4>1. /\ j <= j + k - 1 /\ j + k - 1 < j + Len(<<"-">>) /\ (j + k - 1) - j + 1 = 1
            /\ k \in 1..(1 + Len(U)) /\ k <= 1
        BY ONLY <1>4, <3>1, <3>3
      <4> QED
        BY ONLY <2>3, <2>7, <3>2, <3>3, <4>1
    <3>4. CASE k # 1
      <4>1. /\ ~(j <= j + k - 1 /\ j + k - 1 < j + Len(<<"-">>))
            /\ j + 1 <= j + k - 1 /\ j + k - 1 < j + 1 + Len(U)
            /\ (j + k - 1) - (j + 1) + 1 = k - 1 /\ k \in 1..(1 + Len(U)) /\ ~(k <= 1)
        BY ONLY <1>4, <2>3, <3>1, <3>2, <3>4, k \in 1..Len(N)
      <4> QED
        BY ONLY <2>3, <2>5, <2>7, <3>2, <4>1
    <3> QED
      BY <3>3, <3>4
  <2>10. r.width = Len(N) /\ r.mem = m
    BY <2>2, <2>3, <2>5, <2>6
  <2> QED
    BY <2>7, <2>8, <2>9, <2>10 DEF r, N
<1> QED
  BY <1>1, <1>6, <1>7


\* A number that does not fit changes only the rest of the buffer.
LEMMA ConvertTooWide ==
    ASSUME NEW item \in FormatItems, IsNumber(item), NEW mem \in [Bytes -> Chars],
           NEW j \in 0..(BufSize - 1), j + Len(Numeral(item)) > BufSize
    PROVE  LET r == Convert(mem, j, item)
           IN  /\ r.width = 0 /\ r.mem \in [Bytes -> Chars]
               /\ \A x \in Bytes : x < j \/ BufSize <= x => r.mem[x] = mem[x]
<1> DEFINE r == Convert(mem, j, item)
           N == Numeral(item)
           n == BufSize - j
           v == item.value
           base == item.base
<1>1. /\ base \in Bases /\ v \in Int
      /\ v < 0 => item.kind = "int" /\ (-v) % Word = -v /\ N = <<"-">> \o Unsigned(-v, base)
      /\ v >= 0 => N = Unsigned(v, base)
      /\ Len(N) \in Nat /\ Len(N) > n
  <2>1. Len(N) > n /\ Len(N) \in Nat
    <3>1. Len(N) \in Nat /\ j \in Nat /\ BufSize \in Nat /\ j + Len(N) > BufSize
      BY NumeralFacts, SizesAssumption
    <3> HIDE DEF N
    <3> QED
      BY ONLY <3>1 DEF n
  <2> QED
    BY <2>1, NumeralFacts
<1>2. (BufSize - j) % Word = n /\ n \in Nat \ {0} /\ (n - 1) % Word = n - 1 /\ n - 1 \in Nat
  BY RoomIs
<1>3. Bytes \in SUBSET Int /\ j \in Nat /\ BufSize \in Nat /\ j + n = BufSize
  BY SizesAssumption DEF Bytes
<1>4. <<"-">> \in Seq(Chars) /\ Len(<<"-">>) = 1
  <2>1. "-" \in Chars
    BY CharsAssumption
  <2> QED
    BY ONLY <2>1
<1> HIDE DEF r, N, n, v, base
<1>5. CASE v >= 0
  <2>1. N = Unsigned(v, base) /\ v \in Nat /\ ~(v < 0)
    BY <1>1, <1>5
  <2>2. r = UToNstr(mem, j, v, n, base)
    BY <1>2, <1>5, <2>1 DEF r, v, base, Convert, IToNstr
  <2>3. Len(Unsigned(v, base)) > n /\ n \in Nat
    BY <1>1, <1>2, <2>1
  <2>4. /\ r.width = 0 /\ r.mem \in [Bytes -> Chars]
        /\ \A x \in Bytes : x < j \/ j + n <= x => r.mem[x] = mem[x]
    BY ONLY <1>1, <1>3, <2>1, <2>2, <2>3, mem \in [Bytes -> Chars], UToNstrTooWide
  <2> QED
    BY <1>3, <2>4 DEF r
<1>6. CASE v < 0
  <2> DEFINE q == UToNstr(mem, j + 1, -v, n - 1, base)
  <2>1. /\ N = <<"-">> \o Unsigned(-v, base) /\ -v \in Nat /\ ~(v >= 0)
        /\ item.kind = "int" /\ (-v) % Word = -v
    BY <1>1, <1>6
  <2>2. Len(N) = 1 + Len(Unsigned(-v, base)) /\ Len(Unsigned(-v, base)) \in Nat
    <3>1. Unsigned(-v, base) \in Seq(Chars) /\ Len(Unsigned(-v, base)) \in Nat
      BY <1>1, <2>1, UnsignedFacts
    <3> QED
      BY ONLY <1>4, <2>1, <3>1, ConcatProperties
  <2>3. Len(Unsigned(-v, base)) > n - 1 /\ n - 1 \in Nat /\ j + 1 \in Nat /\ (j + 1) + (n - 1) = BufSize
    BY ONLY <1>1, <1>2, <1>3, <2>2
  <2>4. /\ q.width = 0 /\ q.mem \in [Bytes -> Chars]
        /\ \A x \in Bytes : x < j + 1 \/ (j + 1) + (n - 1) <= x => q.mem[x] = mem[x]
    BY ONLY <1>1, <1>3, <2>1, <2>3, mem \in [Bytes -> Chars], UToNstrTooWide
  <2>5. r = q
    <3>1. r = IToNstr(mem, j, v, n, base)
      BY <1>2, <2>1 DEF r, v, base, Convert
    <3>2. UToNstr(mem, j + 1, (-v) % Word, (n - 1) % Word, base) = q
      BY <1>2, <2>1
    <3>3. ~(q.width > 0)
      BY <2>4
    <3> HIDE DEF q
    <3> QED
      BY ONLY <2>1, <3>1, <3>2, <3>3 DEF IToNstr
  <2> HIDE DEF q
  <2>6. \A x \in Bytes : x < j \/ BufSize <= x => q.mem[x] = mem[x]
    <3> SUFFICES ASSUME NEW x \in Bytes, x < j \/ BufSize <= x PROVE q.mem[x] = mem[x]
      OBVIOUS
    <3>1. x < j + 1 \/ (j + 1) + (n - 1) <= x
      BY <1>3, <2>3
    <3> QED
      BY <2>4, <3>1
  <2> QED
    BY <2>4, <2>5, <2>6 DEF r
<1> QED
  BY <1>1, <1>5, <1>6

----------------------------------------------------------------------------
(***************************************************************************)
(* The text in the buffer.                                                 *)
(***************************************************************************)
\* The loop of vsnprintf has written what was said so far, and nothing past the
\* buffer.
Wrote(r, s, mem) ==
    /\ r = [mem |-> r.mem, i |-> r.i, j |-> r.j] /\ s = [read |-> s.read, text |-> s.text]
    /\ r.mem \in [Bytes -> Chars] /\ s.text \in Seq(Chars) /\ Len(s.text) < BufSize
    /\ r.j = Len(s.text) /\ r.i = s.read /\ r.i \in Nat
    /\ \A k \in 1..Len(s.text) : r.mem[k - 1] = s.text[k]
    /\ \A x \in Bytes : BufSize <= x => r.mem[x] = mem[x]

\* A character or a text.
LEMMA PutChars ==
    ASSUME NEW mem, NEW r, NEW s, Wrote(r, s, mem),
           NEW c \in Seq(Chars), Len(s.text) + Len(c) < BufSize
    PROVE  /\ Write(r.mem, r.j, c) \in [Bytes -> Chars]
           /\ s.text \o c \in Seq(Chars) /\ Len(s.text \o c) = r.j + Len(c)
           /\ \A k \in 1..Len(s.text \o c) :
                  Write(r.mem, r.j, c)[k - 1] = (s.text \o c)[k]
           /\ \A x \in Bytes : BufSize <= x => Write(r.mem, r.j, c)[x] = mem[x]
<1> DEFINE t == s.text
           m == Write(r.mem, r.j, c)
           j == r.j
<1>1. /\ r.mem \in [Bytes -> Chars] /\ t \in Seq(Chars) /\ j = Len(t) /\ j \in Nat
      /\ \A k \in 1..j : r.mem[k - 1] = t[k]
      /\ \A x \in Bytes : BufSize <= x => r.mem[x] = mem[x]
  BY DEF Wrote
<1>2. Bytes \in SUBSET Int /\ BufSize \in Nat /\ \A k \in 1..BufSize : k - 1 \in Bytes
  BY SizesAssumption DEF Bytes
<1>3. Len(c) \in Nat /\ j + Len(c) < BufSize
  BY <1>1
<1> HIDE DEF t, m, j
<1>4. /\ t \o c \in Seq(Chars) /\ Len(t \o c) = j + Len(c)
      /\ \A i \in 1..(j + Len(c)) : (t \o c)[i] = IF i <= j THEN t[i] ELSE c[i - j]
  BY ONLY <1>1, c \in Seq(Chars), ConcatProperties
<1>5. /\ m \in [Bytes -> Chars]
      /\ \A x \in Bytes : m[x] = IF j <= x /\ x < j + Len(c) THEN c[x - j + 1] ELSE r.mem[x]
  <2>1. j \in Int
    BY <1>1
  <2> QED
    BY ONLY <1>1, <1>2, <2>1, c \in Seq(Chars), WriteFacts DEF m, j
<1>6. ASSUME NEW k \in 1..(j + Len(c)) PROVE m[k - 1] = (t \o c)[k]
  <2>1. k \in 1..BufSize /\ k \in Int /\ k - 1 \in Bytes
    <3>1. k \in 1..BufSize /\ k \in Int
      BY ONLY <1>1, <1>2, <1>3, k \in 1..(j + Len(c))
    <3> QED
      BY <1>2, <3>1
  <2>2. CASE k <= j
    <3>1. ~(j <= k - 1 /\ k - 1 < j + Len(c)) /\ k \in 1..j
      BY ONLY <1>1, <2>1, <2>2, k \in 1..(j + Len(c))
    <3> QED
      BY ONLY <1>1, <1>4, <1>5, <2>1, <2>2, <3>1, k \in 1..(j + Len(c))
  <2>3. CASE ~(k <= j)
    <3>1. j <= k - 1 /\ k - 1 < j + Len(c) /\ (k - 1) - j + 1 = k - j
      BY ONLY <1>1, <1>3, <2>1, <2>3, k \in 1..(j + Len(c))
    <3> QED
      BY ONLY <1>4, <1>5, <2>1, <2>3, <3>1, k \in 1..(j + Len(c))
  <2> QED
    BY <2>2, <2>3
<1>7. ASSUME NEW x \in Bytes, BufSize <= x PROVE m[x] = mem[x]
  <2>1. ~(j <= x /\ x < j + Len(c))
    BY ONLY <1>1, <1>2, <1>3, <1>7
  <2> QED
    BY ONLY <1>1, <1>5, <1>7, <2>1
<1> QED
  BY <1>4, <1>5, <1>6, <1>7 DEF t, m, j


\* Min of two numbers is the smaller.
LEMMA MinOfTwo == \A a, b \in Int : Min({a, b}) = IF a <= b THEN a ELSE b
<1> SUFFICES ASSUME NEW a \in Int, NEW b \in Int
             PROVE  Min({a, b}) = IF a <= b THEN a ELSE b
  OBVIOUS
<1>1. \A x \in {a, b} : (\A y \in {a, b} : x <= y) => x = IF a <= b THEN a ELSE b
  OBVIOUS
<1>2. \E x \in {a, b} : \A y \in {a, b} : x <= y
  OBVIOUS
<1> QED
  BY ONLY <1>1, <1>2 DEF Min

\* The first characters of a text.
LEMMA FirstChars ==
    ASSUME NEW t \in Seq(Chars), NEW n \in 0..Len(t)
    PROVE  /\ SubSeq(t, 1, n) \in Seq(Chars) /\ Len(SubSeq(t, 1, n)) = n
           /\ \A i \in 1..n : SubSeq(t, 1, n)[i] = t[i]
<1>1. Len(t) \in Nat
  OBVIOUS
<1>2. n \in Int /\ 1 \in Int /\ \A i \in 1..n : t[i] \in Chars
  BY <1>1, ElementOfSeq
<1>3. /\ SubSeq(t, 1, n) \in Seq(Chars)
      /\ Len(SubSeq(t, 1, n)) = IF 1 <= n THEN n - 1 + 1 ELSE 0
      /\ \A i \in 1..(n - 1 + 1) : SubSeq(t, 1, n)[i] = t[1 + i - 1]
  BY ONLY <1>2, SubSeqProperties
<1> QED
  BY ONLY <1>1, <1>3, n \in 0..Len(t)

\* Cutting a text at m cuts what is added to it.
LEMMA CutConcat ==
    ASSUME NEW t \in Seq(Chars), NEW u \in Seq(Chars), NEW m \in Nat, Len(t) <= m
    PROVE  LET c == SubSeq(u, 1, Min({Len(u), m - Len(t)}))
           IN  /\ c \in Seq(Chars) /\ Len(t) + Len(c) <= m
               /\ SubSeq(t \o u, 1, Min({Len(t \o u), m})) = t \o c
<1> DEFINE a == Min({Len(u), m - Len(t)})
           b == Min({Len(t \o u), m})
           c == SubSeq(u, 1, a)
           w == t \o u
<1>1. Len(t) \in Nat /\ Len(u) \in Nat
  OBVIOUS
<1>2. w \in Seq(Chars) /\ Len(w) = Len(t) + Len(u)
      /\ \A i \in 1..(Len(t) + Len(u)) : w[i] = IF i <= Len(t) THEN t[i] ELSE u[i - Len(t)]
  BY ConcatProperties
<1>3. a = (IF Len(u) <= m - Len(t) THEN Len(u) ELSE m - Len(t)) /\ a \in 0..Len(u)
  <2>1. m - Len(t) \in Int /\ Len(u) \in Int /\ m - Len(t) >= 0
    BY <1>1
  <2>2. a = IF Len(u) <= m - Len(t) THEN Len(u) ELSE m - Len(t)
    BY ONLY <2>1, MinOfTwo
  <2> HIDE DEF a
  <2> QED
    BY ONLY <1>1, <2>1, <2>2
<1>4. b = Len(t) + a /\ b \in 0..Len(w)
  <2>1. Len(w) \in Int /\ m \in Int
    BY <1>1, <1>2
  <2>2. b = IF Len(w) <= m THEN Len(w) ELSE m
    BY ONLY <2>1, MinOfTwo
  <2> HIDE DEF a, b, w
  <2> QED
    BY ONLY <1>1, <1>2, <1>3, <2>2, m \in Nat, Len(t) <= m
<1> HIDE DEF a, b, w
<1>5. c \in Seq(Chars) /\ Len(c) = a /\ \A i \in 1..a : c[i] = u[i]
  BY ONLY <1>3, u \in Seq(Chars), FirstChars
<1>6. /\ SubSeq(w, 1, b) \in Seq(Chars) /\ Len(SubSeq(w, 1, b)) = b
      /\ \A i \in 1..b : SubSeq(w, 1, b)[i] = w[i]
  BY ONLY <1>2, <1>4, FirstChars
<1> HIDE DEF c
<1>7. /\ t \o c \in Seq(Chars) /\ Len(t \o c) = Len(t) + Len(c)
      /\ \A i \in 1..(Len(t) + Len(c)) : (t \o c)[i] = IF i <= Len(t) THEN t[i] ELSE c[i - Len(t)]
  BY ONLY <1>5, t \in Seq(Chars), ConcatProperties
<1>8. \A i \in 1..b : SubSeq(w, 1, b)[i] = (t \o c)[i]
  <2> SUFFICES ASSUME NEW i \in 1..b PROVE SubSeq(w, 1, b)[i] = (t \o c)[i]
    OBVIOUS
  <2>1. i \in 1..(Len(t) + Len(u)) /\ i \in 1..(Len(t) + Len(c))
    BY ONLY <1>1, <1>2, <1>3, <1>4, <1>5, i \in 1..b
  <2>2. CASE i <= Len(t)
    BY ONLY <1>2, <1>6, <1>7, <2>1, <2>2, i \in 1..b
  <2>3. CASE ~(i <= Len(t))
    <3>1. i - Len(t) \in 1..a
      BY ONLY <1>1, <1>3, <1>5, <2>1, <2>3
    <3>2. w[i] = u[i - Len(t)] /\ (t \o c)[i] = c[i - Len(t)]
      BY ONLY <1>2, <1>7, <2>1, <2>3
    <3> QED
      BY ONLY <1>5, <1>6, <3>1, <3>2, i \in 1..b
  <2> QED
    BY <2>2, <2>3
<1>9. SubSeq(w, 1, b) = t \o c
  <2>1. Len(SubSeq(w, 1, b)) = Len(t \o c)
    BY <1>4, <1>5, <1>6, <1>7
  <2>2. \A i \in 1..Len(SubSeq(w, 1, b)) : SubSeq(w, 1, b)[i] = (t \o c)[i]
    BY <1>6, <1>8
  <2> QED
    BY ONLY <1>6, <1>7, <2>1, <2>2, SeqEqual
<1>10. Len(t) + Len(c) <= m
  BY ONLY <1>1, <1>3, <1>5, m \in Nat, Len(t) <= m
<1> QED
  BY <1>5, <1>9, <1>10 DEF a, b, c, w

\* The items of a format, by kind.
LEMMA ItemFacts ==
    ASSUME NEW item \in FormatItems
    PROVE  /\ item.kind \in {"char", "text", "unsigned", "int"} /\ item.size \in {1, 2}
           /\ item.kind = "char" => item.char \in Chars
           /\ item.kind = "text" => item.text \in Seq(Chars)
BY DEF FormatItems

\* One item: what the code writes is what should be said.
LEMMA PutItemWrites ==
    ASSUME NEW item \in FormatItems, NEW mem, NEW r, NEW s, Wrote(r, s, mem),
           HandledAfter(s, item)
    PROVE  Wrote(PutItem(r, item), SayItem(s, item), mem)
<1> DEFINE R == PutItem(r, item)
           S == SayItem(s, item)
           t == s.text
           j == r.j
<1>1. /\ r.mem \in [Bytes -> Chars] /\ t \in Seq(Chars) /\ Len(t) < BufSize /\ j = Len(t)
      /\ r.i = s.read /\ r.i \in Nat
      /\ \A k \in 1..Len(t) : r.mem[k - 1] = t[k]
      /\ \A x \in Bytes : BufSize <= x => r.mem[x] = mem[x]
  BY DEF Wrote
<1>2. item.size \in Nat /\ BufSize \in Nat \ {0} /\ Len(t) \in Nat /\ j \in 0..(BufSize - 1)
  <2>1. Len(t) \in Nat /\ BufSize \in Nat \ {0}
    BY <1>1, SizesAssumption
  <2> HIDE DEF t, j
  <2>2. j \in 0..(BufSize - 1)
    BY <1>1, <2>1
  <2> QED
    BY <2>1, <2>2, ItemFacts
<1>3. CASE r.i + item.size > BufSize - 1
  <2>1. R = [r EXCEPT !.i = BufSize - 1] /\ S = [s EXCEPT !.read = BufSize - 1]
    BY <1>1, <1>3 DEF PutItem, SayItem
  <2>2. /\ r = [mem |-> r.mem, i |-> r.i, j |-> r.j] /\ s = [read |-> s.read, text |-> s.text]
    BY DEF Wrote
  <2>3. R = [mem |-> r.mem, i |-> BufSize - 1, j |-> r.j]
    BY ONLY <2>1, <2>2
  <2>4. S = [read |-> BufSize - 1, text |-> s.text]
    BY ONLY <2>1, <2>2
  <2>5. BufSize - 1 \in Nat
    BY <1>2
  <2> HIDE DEF R, S
  <2> QED
    BY <1>1, <2>3, <2>4, <2>5 DEF Wrote, R, S
<1>5. CASE ~(r.i + item.size > BufSize - 1) /\ IsNumber(item)
  <2> DEFINE N == Numeral(item)
             q == Convert(r.mem, j, item)
             w == t \o N
  <2>1. N \in Seq(Chars) /\ Len(N) \in Nat \ {0}
    BY <1>5, NumeralFacts
  <2>2. Len(t) + Len(N) # BufSize
    <3>1. s.read + item.size <= BufSize - 1
      BY <1>1, <1>2, <1>5
    <3> QED
      BY <1>5, <3>1 DEF HandledAfter
  <2>3. w \in Seq(Chars) /\ Len(w) = Len(t) + Len(N)
        /\ \A i \in 1..(Len(t) + Len(N)) : w[i] = IF i <= Len(t) THEN t[i] ELSE N[i - Len(t)]
    <3> HIDE DEF N
    <3> QED
      BY ONLY <1>1, <2>1, ConcatProperties
  <2>4. R = [mem |-> q.mem, i |-> r.i + item.size, j |-> j + q.width]
    <3>1. item.kind \in {"int", "unsigned"}
      BY <1>5 DEF IsNumber
    <3>2. CASE item.kind = "int"
      BY <1>5, <3>1, <3>2 DEF PutItem, Convert
    <3>3. CASE item.kind = "unsigned"
      BY <1>5, <3>1, <3>3 DEF PutItem, Convert
    <3> QED
      BY <3>1, <3>2, <3>3
  <2>5. S = [read |-> s.read + item.size, text |-> IF Len(w) < BufSize THEN w ELSE t]
    <3>1. item.kind # "char" /\ item.kind # "text"
      BY <1>5 DEF IsNumber
    <3>2. WithItem(t, item) = IF Len(w) < BufSize THEN w ELSE t
      BY <1>5, <3>1 DEF WithItem
    <3>3. S = [read |-> s.read + item.size, text |-> WithItem(t, item)]
      BY <1>1, <1>5 DEF SayItem
    <3> QED
      BY ONLY <3>2, <3>3
  <2>6. CASE Len(w) < BufSize
    <3>1. j + Len(N) < BufSize
      <4> HIDE DEF N, w, t, j
      <4> QED
        BY <1>1, <1>2, <2>1, <2>3, <2>6
    <3>2. /\ q.width = Len(N) /\ q.mem \in [Bytes -> Chars]
          /\ \A x \in Bytes : x < j \/ j + Len(N) < x => q.mem[x] = r.mem[x]
          /\ \A k \in 1..Len(N) : q.mem[j + k - 1] = N[k]
      BY <1>1, <1>2, <1>5, <3>1, ConvertFits
    <3>3. S = [read |-> s.read + item.size, text |-> w]
      BY <2>5, <2>6
    <3> HIDE DEF N, q, w, t, j, R, S
    <3>4. R = [mem |-> q.mem, i |-> r.i + item.size, j |-> Len(w)]
      BY <1>1, <2>3, <2>4, <3>2
    <3>5. \A k \in 1..Len(w) : q.mem[k - 1] = w[k]
      <4> SUFFICES ASSUME NEW k \in 1..Len(w) PROVE q.mem[k - 1] = w[k]
        OBVIOUS
      <4>1. k \in 1..(Len(t) + Len(N)) /\ k - 1 \in Bytes
        <5>1. k \in 1..(Len(t) + Len(N)) /\ k <= BufSize
          BY <1>1, <1>2, <2>1, <2>3, <3>1
        <5> QED
          BY <1>2, <2>1, <5>1, SizesAssumption DEF Bytes
      <4>2. CASE k <= Len(t)
        <5>1. k - 1 < j /\ k \in 1..Len(t)
          BY <1>1, <1>2, <4>1, <4>2
        <5>2. q.mem[k - 1] = r.mem[k - 1]
          BY <3>2, <4>1, <5>1
        <5> QED
          BY <1>1, <2>3, <4>1, <4>2, <5>1, <5>2
      <4>3. CASE ~(k <= Len(t))
        <5>1. k - Len(t) \in 1..Len(N) /\ j + (k - Len(t)) - 1 = k - 1
          BY <1>1, <1>2, <2>1, <4>1, <4>3
        <5>2. q.mem[j + (k - Len(t)) - 1] = N[k - Len(t)]
          BY <3>2, <5>1
        <5> QED
          BY <2>3, <4>1, <4>3, <5>1, <5>2
      <4> QED
        BY <4>2, <4>3
    <3>6. \A x \in Bytes : BufSize <= x => q.mem[x] = mem[x]
      <4> SUFFICES ASSUME NEW x \in Bytes, BufSize <= x PROVE q.mem[x] = mem[x]
        OBVIOUS
      <4>1. j + Len(N) < x
        BY <1>1, <1>2, <2>1, <3>1, SizesAssumption DEF Bytes
      <4> QED
        BY <1>1, <3>2, <4>1
    <3>7. Wrote(R, S, mem)
      BY ONLY <1>1, <1>2, <2>3, <2>6, <3>2, <3>3, <3>4, <3>5, <3>6 DEF Wrote
    <3> QED
      BY <3>7 DEF R, S
  <2>7. CASE ~(Len(w) < BufSize)
    <3>1. j + Len(N) > BufSize
      <4> HIDE DEF N, w, t, j
      <4> QED
        BY <1>1, <1>2, <2>1, <2>2, <2>3, <2>7
    <3>2. /\ q.width = 0 /\ q.mem \in [Bytes -> Chars]
          /\ \A x \in Bytes : x < j \/ BufSize <= x => q.mem[x] = r.mem[x]
      BY <1>1, <1>2, <1>5, <3>1, ConvertTooWide
    <3>3. S = [read |-> s.read + item.size, text |-> t]
      BY <2>5, <2>7
    <3> HIDE DEF N, q, w, t, j, R, S
    <3>4. R = [mem |-> q.mem, i |-> r.i + item.size, j |-> Len(t)]
      BY <1>1, <1>2, <2>4, <3>2
    <3>5. \A k \in 1..Len(t) : q.mem[k - 1] = t[k]
      <4> SUFFICES ASSUME NEW k \in 1..Len(t) PROVE q.mem[k - 1] = t[k]
        OBVIOUS
      <4>1. k - 1 < j /\ k - 1 \in Bytes
        BY <1>1, <1>2, SizesAssumption DEF Bytes
      <4> QED
        BY <1>1, <3>2, <4>1
    <3>6. \A x \in Bytes : BufSize <= x => q.mem[x] = mem[x]
      BY <1>1, <3>2
    <3>7. Wrote(R, S, mem)
      BY ONLY <1>1, <1>2, <3>2, <3>3, <3>4, <3>5, <3>6 DEF Wrote
    <3> QED
      BY <3>7 DEF R, S
  <2> QED
    BY <2>6, <2>7
<1>7. CASE ~(r.i + item.size > BufSize - 1) /\ item.kind = "char"
  <2> DEFINE c == <<item.char>>
  <2>1. item.char \in Chars /\ ~IsNumber(item) /\ item.kind \notin {"int", "unsigned"}
    BY <1>7, ItemFacts DEF IsNumber
  <2>2. c \in Seq(Chars) /\ Len(c) = 1
    BY ONLY <2>1
  <2>3. Len(t) + Len(c) <= BufSize - 1 /\ BufSize - 1 \in Nat
    <3>1. s.read + item.size <= BufSize - 1
      BY <1>1, <1>2, <1>7
    <3>2. Len(t) < BufSize - 1
      BY <1>7, <3>1 DEF HandledAfter
    <3> HIDE DEF t, c
    <3> QED
      BY <1>2, <2>2, <3>2
  <2>4. R = [mem |-> Write(r.mem, j, c), i |-> r.i + item.size, j |-> j + Len(c)]
    BY <1>7, <2>1 DEF PutItem
  <2>5. WithItem(t, item) = SubSeq(t \o c, 1, Min({Len(t \o c), BufSize - 1}))
    BY <1>7, <2>1 DEF WithItem
  <2>6. S = [read |-> s.read + item.size, text |-> WithItem(t, item)]
    BY <1>1, <1>7 DEF SayItem
  <2> HIDE DEF c, R, S, t, j
  <2>7. t \o c \in Seq(Chars) /\ Len(t \o c) = Len(t) + Len(c)
    BY ONLY <1>1, <2>2, ConcatProperties
  <2>8. Min({Len(t \o c), BufSize - 1}) = Len(t \o c)
    <3>1. Len(t \o c) \in Int /\ BufSize - 1 \in Int /\ Len(t \o c) <= BufSize - 1
      BY ONLY <1>2, <2>2, <2>3, <2>7
    <3> QED
      BY ONLY <3>1, MinOfTwo
  <2>9. SubSeq(t \o c, 1, Len(t \o c)) = t \o c
    BY ONLY <2>7, SubSeqFull
  <2>10. Len(t) + Len(c) < BufSize
    BY ONLY <1>2, <2>2, <2>3
  <2> DEFINE m == Write(r.mem, j, c)
             v == t \o c
  <2>11. /\ m \in [Bytes -> Chars] /\ v \in Seq(Chars) /\ Len(v) = j + Len(c)
         /\ \A k \in 1..Len(v) : m[k - 1] = v[k]
         /\ \A x \in Bytes : BufSize <= x => m[x] = mem[x]
    <3>1. Wrote(r, s, mem) /\ c \in Seq(Chars) /\ Len(s.text) + Len(c) < BufSize
      BY <2>2, <2>10 DEF t
    <3> HIDE DEF m, v
    <3>2. /\ Write(r.mem, r.j, c) \in [Bytes -> Chars]
          /\ s.text \o c \in Seq(Chars) /\ Len(s.text \o c) = r.j + Len(c)
          /\ \A k \in 1..Len(s.text \o c) :
                 Write(r.mem, r.j, c)[k - 1] = (s.text \o c)[k]
          /\ \A x \in Bytes : BufSize <= x => Write(r.mem, r.j, c)[x] = mem[x]
      BY ONLY <3>1, PutChars
    <3> QED
      BY ONLY <3>2 DEF m, v, t, j
  <2>12. R = [mem |-> m, i |-> r.i + item.size, j |-> Len(v)] /\ S = [read |-> s.read + item.size, text |-> v]
    BY <2>4, <2>5, <2>6, <2>8, <2>9, <2>11
  <2>13. Len(v) < BufSize
    BY <1>1, <2>10, <2>11
  <2> HIDE DEF m, v
  <2>14. Wrote(R, S, mem)
    <3>1. R.mem = m /\ R.i = r.i + item.size /\ R.j = Len(v) /\ S.text = v /\ S.read = R.i
      BY ONLY <1>1, <2>12
    <3>2. R = [mem |-> R.mem, i |-> R.i, j |-> R.j] /\ S = [read |-> S.read, text |-> S.text]
      BY ONLY <2>12, <3>1
    <3>3. r.i + item.size \in Nat
      BY <1>1, <1>2
    <3>4. R.mem \in [Bytes -> Chars] /\ S.text \in Seq(Chars) /\ Len(S.text) < BufSize
      BY ONLY <2>11, <2>13, <3>1, Zenon
    <3>5. R.j = Len(S.text) /\ R.i = S.read /\ R.i \in Nat
      BY ONLY <3>1, <3>3, Zenon
    <3>6. /\ \A k \in 1..Len(S.text) : R.mem[k - 1] = S.text[k]
          /\ \A x \in Bytes : BufSize <= x => R.mem[x] = mem[x]
      BY ONLY <2>11, <3>1, Zenon
    <3> QED
      BY ONLY <3>2, <3>4, <3>5, <3>6, Zenon DEF Wrote
  <2> QED
    BY <2>14 DEF R, S
<1>8. CASE ~(r.i + item.size > BufSize - 1) /\ item.kind = "text"
  <2> DEFINE u == item.text
             c == SubSeq(u, 1, Min({Len(u), BufSize - 1 - Len(t)}))
             w == t \o u
  <2>1. u \in Seq(Chars) /\ ~IsNumber(item) /\ item.kind \notin {"int", "unsigned"} /\ item.kind # "char"
    BY <1>8, ItemFacts DEF IsNumber
  <2>2. StringRoom(j) = BufSize - 1 - Len(t)
    <3>1. (BufSize - j - 1) % Word = BufSize - j - 1
      BY <1>2, RoomIs
    <3>2. BufSize - j - 1 = BufSize - 1 - Len(t)
      BY <1>1, <1>2
    <3> QED
      BY <3>1, <3>2 DEF StringRoom
  <2>3. R = [mem |-> Write(r.mem, j, c), i |-> r.i + item.size, j |-> j + Len(c)]
    BY <1>8, <2>1, <2>2 DEF PutItem
  <2>4. WithItem(t, item) = SubSeq(w, 1, Min({Len(w), BufSize - 1}))
    BY <1>8, <2>1 DEF WithItem
  <2>5. S = [read |-> s.read + item.size, text |-> WithItem(t, item)]
    BY <1>1, <1>8 DEF SayItem
  <2>6. Len(t) <= BufSize - 1 /\ BufSize - 1 \in Nat
    BY <1>1, <1>2
  <2>7. /\ c \in Seq(Chars) /\ Len(t) + Len(c) <= BufSize - 1
        /\ SubSeq(w, 1, Min({Len(w), BufSize - 1})) = t \o c
    <3> HIDE DEF t, u
    <3> QED
      BY ONLY <1>1, <2>1, <2>6, CutConcat
  <2> HIDE DEF u, c, R, S, t, j
  <2>8. Len(t) + Len(c) < BufSize
    <3>1. Len(c) \in Nat
      BY <2>7
    <3> QED
      BY ONLY <1>2, <2>7, <3>1
  <2> DEFINE m == Write(r.mem, j, c)
             v == t \o c
  <2>9. /\ m \in [Bytes -> Chars] /\ v \in Seq(Chars) /\ Len(v) = j + Len(c)
        /\ \A k \in 1..Len(v) : m[k - 1] = v[k]
        /\ \A x \in Bytes : BufSize <= x => m[x] = mem[x]
    <3>1. Wrote(r, s, mem) /\ c \in Seq(Chars) /\ Len(s.text) + Len(c) < BufSize
      BY <2>7, <2>8 DEF t
    <3> HIDE DEF m, v
    <3>2. /\ Write(r.mem, r.j, c) \in [Bytes -> Chars]
          /\ s.text \o c \in Seq(Chars) /\ Len(s.text \o c) = r.j + Len(c)
          /\ \A k \in 1..Len(s.text \o c) :
                 Write(r.mem, r.j, c)[k - 1] = (s.text \o c)[k]
          /\ \A x \in Bytes : BufSize <= x => Write(r.mem, r.j, c)[x] = mem[x]
      BY ONLY <3>1, PutChars
    <3> QED
      BY ONLY <3>2 DEF m, v, t, j
  <2>10. R = [mem |-> m, i |-> r.i + item.size, j |-> Len(v)] /\ S = [read |-> s.read + item.size, text |-> v]
    BY <2>3, <2>4, <2>5, <2>7, <2>9
  <2>11. Len(v) < BufSize
    BY <1>1, <2>8, <2>9
  <2> HIDE DEF m, v
  <2>12. Wrote(R, S, mem)
    <3>1. R.mem = m /\ R.i = r.i + item.size /\ R.j = Len(v) /\ S.text = v /\ S.read = R.i
      BY ONLY <1>1, <2>10
    <3>2. R = [mem |-> R.mem, i |-> R.i, j |-> R.j] /\ S = [read |-> S.read, text |-> S.text]
      BY ONLY <2>10, <3>1
    <3>3. r.i + item.size \in Nat
      BY <1>1, <1>2
    <3>4. R.mem \in [Bytes -> Chars] /\ S.text \in Seq(Chars) /\ Len(S.text) < BufSize
      BY ONLY <2>9, <2>11, <3>1, Zenon
    <3>5. R.j = Len(S.text) /\ R.i = S.read /\ R.i \in Nat
      BY ONLY <3>1, <3>3, Zenon
    <3>6. /\ \A k \in 1..Len(S.text) : R.mem[k - 1] = S.text[k]
          /\ \A x \in Bytes : BufSize <= x => R.mem[x] = mem[x]
      BY ONLY <2>9, <3>1, Zenon
    <3> QED
      BY ONLY <3>2, <3>4, <3>5, <3>6, Zenon DEF Wrote
  <2> QED
    BY <2>12 DEF R, S
<1>9. \/ r.i + item.size > BufSize - 1
      \/ IsNumber(item) \/ item.kind = "char" \/ item.kind = "text"
  BY ItemFacts DEF IsNumber
<1> QED
  BY <1>3, <1>5, <1>7, <1>8, <1>9


\* vsnprintf, item by item.
LEMMA FormattedIsSaid ==
    ASSUME NEW mem \in [Bytes -> Chars], NEW format \in Seq(FormatItems), Handled(format)
    PROVE  \A k \in 0..Len(format) : Wrote(Formatted(mem, format)[k], Said(format)[k], mem)
<1> DEFINE n == Len(format)
           f == Formatted(mem, format)
           s == Said(format)
           T == {k \in 0..n : ~Wrote(f[k], s[k], mem)}
<1>1. n \in Nat /\ DOMAIN format = 1..n /\ \A k \in 1..n : format[k] \in FormatItems
  OBVIOUS
<1>2. /\ f[0] = [mem |-> mem, i |-> 0, j |-> 0]
      /\ \A k \in 1..n : f[k] = PutItem(f[k - 1], format[k])
  BY <1>1, FormattedIs DEF Puts
<1>3. /\ s[0] = [read |-> 0, text |-> <<>>]
      /\ \A k \in 1..n : s[k] = SayItem(s[k - 1], format[k])
  BY <1>1, SaidIs DEF Says
<1>4. \A k \in 1..n : HandledAfter(s[k - 1], format[k])
  BY <1>1 DEF Handled
<1> HIDE DEF f, s, n
<1> SUFFICES ASSUME T # {} PROVE FALSE
  BY DEF f, s, n
<1>5. PICK k \in T : \A j \in T : k <= j
  <2>1. T \in SUBSET Nat
    BY <1>1
  <2> HIDE DEF T
  <2> QED
    BY ONLY <2>1, T # {}, LeastOf
<1>6. CASE k = 0
  <2>1. <<>> \in Seq(Chars) /\ Len(<<>>) = 0
    OBVIOUS
  <2>2. 0 < BufSize
    BY SizesAssumption
  <2>3. Wrote(f[0], s[0], mem)
    BY <1>2, <1>3, <2>1, <2>2 DEF Wrote
  <2> QED
    BY <1>5, <1>6, <2>3
<1>7. CASE k # 0
  <2>1. k \in 1..n /\ k - 1 \in 0..n /\ k \in Nat /\ ~(k <= k - 1)
    BY <1>1, <1>5, <1>7
  <2>2. k - 1 \notin T
    <3> HIDE DEF T
    <3> QED
      BY <1>5, <2>1
  <2>3. Wrote(f[k - 1], s[k - 1], mem)
    BY <2>1, <2>2
  <2>4. format[k] \in FormatItems /\ HandledAfter(s[k - 1], format[k])
    BY <1>1, <1>4, <2>1
  <2>5. Wrote(PutItem(f[k - 1], format[k]), SayItem(s[k - 1], format[k]), mem)
    BY ONLY <2>3, <2>4, PutItemWrites
  <2>6. f[k] = PutItem(f[k - 1], format[k]) /\ s[k] = SayItem(s[k - 1], format[k])
    BY <1>2, <1>3, <2>1
  <2>7. Wrote(f[k], s[k], mem)
    BY ONLY <2>5, <2>6
  <2> QED
    BY <1>5, <2>7
<1> QED
  BY <1>6, <1>7

\* vsnprintf leaves the text of the format in the buffer.
LEMMA VsnprintfFacts ==
    ASSUME NEW mem \in [Bytes -> Chars], NEW format \in Seq(FormatItems), Handled(format)
    PROVE  LET V == Vsnprintf(mem, format)
               text == TextOf(format)
           IN  /\ V \in [Bytes -> Chars] /\ text \in Seq(Chars) /\ Len(text) < BufSize
               /\ \A k \in 1..Len(text) : V[k - 1] = text[k]
               /\ V[Len(text)] = NUL
               /\ \A x \in Bytes : BufSize <= x => V[x] = mem[x]
<1> DEFINE n == Len(format)
           r == Formatted(mem, format)[n]
           s == Said(format)[n]
           V == Vsnprintf(mem, format)
           text == TextOf(format)
<1>1. n \in 0..Len(format)
  OBVIOUS
<1>2. Wrote(r, s, mem)
  BY <1>1, FormattedIsSaid
<1>3. V = Write(r.mem, r.j, <<NUL>>) /\ text = s.text
  BY DEF Vsnprintf, TextOf
<1> HIDE DEF r, s, V, text
<1>4. /\ r.mem \in [Bytes -> Chars] /\ text \in Seq(Chars) /\ Len(text) < BufSize
      /\ r.j = Len(text)
      /\ \A k \in 1..Len(text) : r.mem[k - 1] = text[k]
      /\ \A x \in Bytes : BufSize <= x => r.mem[x] = mem[x]
  BY <1>2, <1>3 DEF Wrote
<1>5. <<NUL>> \in Seq(Chars) /\ Len(<<NUL>>) = 1 /\ <<NUL>>[1] = NUL
  <2>1. NUL \in Chars
    BY CharsAssumption
  <2> HIDE DEF NUL
  <2> QED
    BY ONLY <2>1
<1>6. Bytes \in SUBSET Int /\ Len(text) \in Nat /\ r.j \in Int /\ \A k \in 0..(BufSize - 1) : k \in Bytes
  BY <1>4, SizesAssumption DEF Bytes
<1>7. /\ V \in [Bytes -> Chars]
      /\ \A x \in Bytes : V[x] = IF r.j <= x /\ x < r.j + Len(<<NUL>>) THEN <<NUL>>[x - r.j + 1]
                                 ELSE r.mem[x]
  BY ONLY <1>3, <1>4, <1>5, <1>6, WriteFacts
<1>8. ASSUME NEW x \in Bytes, x # Len(text) PROVE V[x] = r.mem[x]
  <2>1. ~(r.j <= x /\ x < r.j + Len(<<NUL>>))
    BY ONLY <1>4, <1>5, <1>6, <1>8
  <2> QED
    BY ONLY <1>7, <1>8, <2>1
<1> DEFINE L == Len(text)
<1>a. L \in Nat /\ L < BufSize /\ BufSize \in Nat /\ r.j = L /\ Len(<<NUL>>) = 1
  BY <1>4, <1>5, SizesAssumption
<1> HIDE DEF L
<1>9. V[L] = NUL
  <2>1. L \in 0..(BufSize - 1) /\ L <= L /\ L < L + 1 /\ L - L + 1 = 1
    BY ONLY <1>a
  <2>2. L \in Bytes
    BY ONLY <1>6, <2>1
  <2> QED
    BY ONLY <1>5, <1>7, <1>a, <2>1, <2>2
<1>10. ASSUME NEW k \in 1..L PROVE V[k - 1] = text[k]
  <2>1. k - 1 \in 0..(BufSize - 1) /\ k - 1 # L
    BY ONLY <1>a, k \in 1..L
  <2>2. k - 1 \in Bytes
    BY ONLY <1>6, <2>1
  <2>3. V[k - 1] = r.mem[k - 1]
    BY <1>8, <2>1, <2>2 DEF L
  <2> QED
    BY <1>4, <2>3 DEF L
<1>11. ASSUME NEW x \in Bytes, BufSize <= x PROVE V[x] = mem[x]
  <2>1. x # L
    BY ONLY <1>a, <1>11
  <2>2. V[x] = r.mem[x]
    BY <1>8, <2>1 DEF L
  <2> QED
    BY <1>4, <1>11, <2>2
<1> QED
  BY <1>4, <1>7, <1>9, <1>10, <1>11 DEF V, text, L

\* A remainder is below the modulus.
LEMMA ModRange == ASSUME NEW x \in Int, NEW w \in Nat \ {0} PROVE x % w \in 0..(w - 1)
OBVIOUS

\* Putting characters in order yields characters.
LEMMA ReversedType ==
    ASSUME NEW s \in Seq(Chars), NEW j \in 0..Len(s) PROVE Reversed(s, j) \in Seq(Chars)
<1> DEFINE n == Len(s)
           t == SubSeq(s, j + 1, n)
<1>1. n \in Nat /\ j \in Nat /\ j <= n /\ \A i \in 1..n : s[i] \in Chars
  BY ElementOfSeq
<1> HIDE DEF n
<1>2. SubSeq(s, 1, j) \in Seq(Chars)
  BY FirstChars
<1>3. t \in Seq(Chars)
  <2>1. j + 1 \in Int /\ n \in Int /\ \A i \in (j + 1)..n : s[i] \in Chars
    BY <1>1
  <2> QED
    BY ONLY <2>1, SubSeqProperties
<1> HIDE DEF t
<1>4. Reverse(t) \in Seq(Chars)
  <2>1. Len(t) \in Nat /\ \A i \in 1..Len(t) : t[i] \in Chars
    BY <1>3, ElementOfSeq
  <2>2. \A i \in 1..Len(t) : t[(Len(t) - i) + 1] \in Chars
    BY <2>1
  <2> QED
    BY <2>1, <2>2 DEF Reverse
<1>5. SubSeq(s, 1, j) \o Reverse(t) \in Seq(Chars)
  BY ONLY <1>2, <1>4, ConcatProperties
<1> QED
  BY <1>5 DEF Reversed, t, n

\* A number of any width, in any room, leaves characters in the memory.
LEMMA UToNstrType ==
    ASSUME NEW base \in Bases, NEW value \in Nat, NEW n \in Nat, NEW D \in SUBSET Int,
           NEW mem \in [D -> Chars], NEW b \in Int
    PROVE  LET r == UToNstr(mem, b, value, n, base)
           IN  r.mem \in [D -> Chars] /\ r.width \in Nat
<1> DEFINE p == Prefix(base)
           j == Len(p)
           low == LowFirst(value, base, n - j)
           d == low.digits
           r == UToNstr(mem, b, value, n, base)
<1>1. p \in Seq(Chars) /\ j \in {0, 2}
  BY PrefixFacts
<1>2. <<NUL>> \in Seq(Chars)
  <2>1. NUL \in Chars
    BY CharsAssumption
  <2> HIDE DEF NUL
  <2> QED
    BY ONLY <2>1
<1>3. \A m \in [D -> Chars] : \A t \in Seq(Chars) : Write(m, b, t) \in [D -> Chars]
  BY ONLY b \in Int, D \in SUBSET Int, WriteFacts
<1>4. CASE n = 0
  <2>1. r = [mem |-> mem, width |-> 0]
    BY <1>4 DEF UToNstr
  <2> HIDE DEF r
  <2> QED
    BY <2>1 DEF r
<1>5. CASE n # 0 /\ j > 0 /\ n <= 2
  <2>1. r = [mem |-> Write(mem, b, <<NUL>>), width |-> 0]
    BY <1>5 DEF UToNstr
  <2>2. Write(mem, b, <<NUL>>) \in [D -> Chars]
    BY <1>2, <1>3
  <2> HIDE DEF r
  <2> QED
    BY <2>1, <2>2 DEF r
<1>6. CASE n # 0 /\ ~(j > 0 /\ n <= 2)
  <2>1. n - j \in Nat \ {0}
    <3> HIDE DEF j
    <3> QED
      BY <1>1, <1>6
  <2>2. d \in Seq(Chars) /\ Len(d) \in Nat
    <3>1. \A room \in Nat \ {0} : LowFirst(value, base, room).digits \in Seq(Chars)
      BY LowFirstFacts
    <3>2. d \in Seq(Chars)
      BY ONLY <2>1, <3>1
    <3> HIDE DEF d
    <3> QED
      BY <3>2
  <2> DEFINE w == p \o d
  <2> HIDE DEF d
  <2>3. w \in Seq(Chars) /\ Len(w) = j + Len(d)
    <3>1. p \o d \in Seq(Chars) /\ Len(p \o d) = Len(p) + Len(d)
      BY ONLY <1>1, <2>2, ConcatProperties
    <3> QED
      BY <3>1
  <2>4. j \in 0..Len(w)
    <3> HIDE DEF j, w
    <3> QED
      BY <1>1, <2>2, <2>3
  <2>5. Reversed(w, j) \in Seq(Chars)
    <3> HIDE DEF j, w
    <3> QED
      BY ONLY <2>3, <2>4, ReversedType
  <2>6. Reversed(w, j) \o <<NUL>> \in Seq(Chars)
    <3> HIDE DEF j, w, NUL
    <3> QED
      BY ONLY <1>2, <2>5, ConcatProperties
  <2>7. j + Len(d) \in Nat
    <3> HIDE DEF j
    <3> QED
      BY <1>1, <2>2
  <2>8. CASE low.left = 0
    <3>1. r = [mem |-> Write(mem, b, Reversed(w, j) \o <<NUL>>), width |-> j + Len(d)]
      BY <1>6, <2>8 DEF UToNstr, d
    <3>2. Write(mem, b, Reversed(w, j) \o <<NUL>>) \in [D -> Chars]
      BY <1>3, <2>6
    <3> HIDE DEF r, j, w
    <3> QED
      BY <2>7, <3>1, <3>2 DEF r
  <2>9. CASE low.left # 0
    <3>1. r = [mem |-> Write(Write(mem, b, w), b, <<NUL>>), width |-> 0]
      BY <1>6, <2>9 DEF UToNstr, d
    <3>2. Write(Write(mem, b, w), b, <<NUL>>) \in [D -> Chars]
      BY <1>2, <1>3, <2>3
    <3> HIDE DEF r, j, w
    <3> QED
      BY <3>1, <3>2 DEF r
  <2> QED
    BY <2>8, <2>9
<1> QED
  BY <1>4, <1>5, <1>6

\* The same for numbers with a sign, wherever vsnprintf has come.
LEMMA ConvertType ==
    ASSUME NEW item \in FormatItems, IsNumber(item), NEW mem \in [Bytes -> Chars], NEW j \in Nat
    PROVE  LET r == Convert(mem, j, item)
           IN  r.mem \in [Bytes -> Chars] /\ r.width \in Nat
<1> DEFINE n == (BufSize - j) % Word
           v == item.value
           base == item.base
           c == Convert(mem, j, item)
<1>1. base \in Bases /\ v \in Int /\ (v < 0 => item.kind = "int")
  BY NumeralFacts
<1>2. n \in Nat /\ (n - 1) % Word \in Nat /\ (-v) % Word \in Nat
  <2>1. Word \in Nat \ {0} /\ BufSize - j \in Int
    BY SizesAssumption
  <2>2. \A x \in Int : x % Word \in Nat
    <3>1. \A x \in Int : x % Word \in 0..(Word - 1)
      BY ONLY <2>1, ModRange
    <3> QED
      BY ONLY <2>1, <3>1
  <2>3. n \in Nat
    BY <2>1, <2>2
  <2> HIDE DEF n, v
  <2>4. n - 1 \in Int /\ -v \in Int
    BY <1>1, <2>3
  <2> QED
    BY <2>2, <2>3, <2>4
<1>3. \A m \in Nat, u \in Nat, b \in Int :
          /\ UToNstr(mem, b, u, m, base).mem \in [Bytes -> Chars]
          /\ UToNstr(mem, b, u, m, base).width \in Nat
  <2>1. Bytes \in SUBSET Int
    BY DEF Bytes
  <2> HIDE DEF base
  <2> QED
    BY ONLY <1>1, <2>1, mem \in [Bytes -> Chars], UToNstrType
<1>4. j \in Int /\ j + 1 \in Int
  OBVIOUS
<1>5. CASE v >= 0
  <2>1. c = UToNstr(mem, j, v, n, base)
    <3>1. IToNstr(mem, j, v, n, base) = UToNstr(mem, j, v, n, base)
      BY <1>5 DEF IToNstr
    <3> QED
      BY <3>1, Zenon DEF Convert
  <2>2. v \in Nat
    BY <1>1, <1>5
  <2> HIDE DEF c, v, n, base
  <2> QED
    BY <1>2, <1>3, <1>4, <2>1, <2>2 DEF c
<1>6. CASE v < 0
  <2> DEFINE q == UToNstr(mem, j + 1, (-v) % Word, (n - 1) % Word, base)
  <2>1. c = IF q.width > 0 THEN [mem |-> Write(q.mem, j, <<"-">>), width |-> q.width + 1] ELSE q
    <3>1. ~(v >= 0) /\ item.kind = "int"
      BY <1>1, <1>6
    <3> QED
      BY <3>1, Zenon DEF Convert, IToNstr
  <2>2. q.mem \in [Bytes -> Chars] /\ q.width \in Nat
    <3> HIDE DEF v, n, base
    <3> QED
      BY <1>2, <1>3, <1>4
  <2> HIDE DEF q, c
  <2>3. Write(q.mem, j, <<"-">>) \in [Bytes -> Chars]
    <3>1. <<"-">> \in Seq(Chars)
      BY CharsAssumption
    <3>2. Bytes \in SUBSET Int
      BY DEF Bytes
    <3> QED
      BY ONLY <1>4, <2>2, <3>1, <3>2, WriteFacts
  <2> QED
    BY <2>1, <2>2, <2>3 DEF c
<1> HIDE DEF v
<1> QED
  BY <1>1, <1>5, <1>6

\* What vsnprintf keeps of any format: characters in the memory.
InMemory(r) == r = [mem |-> r.mem, i |-> r.i, j |-> r.j]
               /\ r.mem \in [Bytes -> Chars] /\ r.i \in Nat /\ r.j \in Nat

\* One item of any format.
LEMMA PutItemType ==
    ASSUME NEW item \in FormatItems, NEW r, InMemory(r) PROVE InMemory(PutItem(r, item))
<1> DEFINE R == PutItem(r, item)
           q == Convert(r.mem, r.j, item)
           room == StringRoom(r.j)
           cut == SubSeq(item.text, 1, Min({Len(item.text), room}))
<1>1. /\ r = [mem |-> r.mem, i |-> r.i, j |-> r.j] /\ r.mem \in [Bytes -> Chars]
      /\ r.i \in Nat /\ r.j \in Nat /\ r.i + item.size \in Nat /\ BufSize - 1 \in Nat
  <2>1. BufSize - 1 \in Nat
    BY SizesAssumption
  <2>2. item.size \in Nat
    BY ItemFacts
  <2> QED
    BY <2>1, <2>2 DEF InMemory
<1>2. CASE r.i + item.size > BufSize - 1
  <2>1. R = [r EXCEPT !.i = BufSize - 1]
    BY <1>2 DEF PutItem
  <2>2. R = [mem |-> r.mem, i |-> BufSize - 1, j |-> r.j]
    BY ONLY <1>1, <2>1
  <2> HIDE DEF R
  <2> QED
    BY <1>1, <2>2 DEF InMemory, R
<1>3. CASE ~(r.i + item.size > BufSize - 1) /\ IsNumber(item)
  <2>1. R = [mem |-> q.mem, i |-> r.i + item.size, j |-> r.j + q.width]
    <3>1. item.kind \in {"int", "unsigned"}
      BY <1>3 DEF IsNumber
    <3>2. CASE item.kind = "int"
      BY <1>3, <3>1, <3>2 DEF PutItem, Convert
    <3>3. CASE item.kind = "unsigned"
      BY <1>3, <3>1, <3>3 DEF PutItem, Convert
    <3> QED
      BY <3>1, <3>2, <3>3
  <2>2. q.mem \in [Bytes -> Chars] /\ q.width \in Nat
    BY <1>1, <1>3, ConvertType
  <2> HIDE DEF R, q
  <2>3. r.j + q.width \in Nat
    BY <1>1, <2>2
  <2> QED
    BY ONLY <1>1, <2>1, <2>2, <2>3 DEF InMemory, R
<1>4. ASSUME ~(r.i + item.size > BufSize - 1), ~IsNumber(item), NEW c \in Seq(Chars),
             R = [mem |-> Write(r.mem, r.j, c), i |-> r.i + item.size, j |-> r.j + Len(c)]
      PROVE  InMemory(R)
  <2>1. Bytes \in SUBSET Int /\ r.j \in Int
    BY <1>1 DEF Bytes
  <2>2. Write(r.mem, r.j, c) \in [Bytes -> Chars]
    BY ONLY <1>1, <2>1, c \in Seq(Chars), WriteFacts
  <2>3. r.j + Len(c) \in Nat
    BY <1>1
  <2> HIDE DEF R
  <2> QED
    BY ONLY <1>1, <1>4, <2>2, <2>3 DEF InMemory
<1>5. CASE ~(r.i + item.size > BufSize - 1) /\ item.kind = "char"
  <2>1. ~IsNumber(item)
    BY <1>5 DEF IsNumber
  <2>2. <<item.char>> \in Seq(Chars)
    BY <1>5, ItemFacts
  <2>3. R = [mem |-> Write(r.mem, r.j, <<item.char>>), i |-> r.i + item.size,
             j |-> r.j + Len(<<item.char>>)]
    BY <1>5, <2>1 DEF PutItem, IsNumber
  <2> HIDE DEF R
  <2>4. InMemory(R)
    BY <1>4, <1>5, <2>1, <2>2, <2>3
  <2> QED
    BY <2>4 DEF R
<1>6. CASE ~(r.i + item.size > BufSize - 1) /\ item.kind = "text"
  <2>1. ~IsNumber(item)
    BY <1>6 DEF IsNumber
  <2>2. item.text \in Seq(Chars) /\ Len(item.text) \in Nat
    BY <1>6, ItemFacts
  <2>3. room \in Nat
    <3>1. Word \in Nat \ {0} /\ BufSize - r.j - 1 \in Int
      BY <1>1, SizesAssumption
    <3>2. (BufSize - r.j - 1) % Word \in 0..(Word - 1)
      BY ONLY <3>1, ModRange
    <3>3. room = (BufSize - r.j - 1) % Word
      BY DEF StringRoom
    <3> HIDE DEF room
    <3> QED
      BY ONLY <3>1, <3>2, <3>3
  <2>4. Min({Len(item.text), room}) \in 0..Len(item.text)
    <3> HIDE DEF room
    <3>1. Min({Len(item.text), room}) = IF Len(item.text) <= room THEN Len(item.text) ELSE room
      BY <2>2, <2>3, MinOfTwo
    <3> QED
      BY ONLY <2>2, <2>3, <3>1
  <2>5. cut \in Seq(Chars)
    <3> HIDE DEF room
    <3> QED
      BY ONLY <2>2, <2>4, FirstChars
  <2>6. R = [mem |-> Write(r.mem, r.j, cut), i |-> r.i + item.size, j |-> r.j + Len(cut)]
    BY <1>6, <2>1 DEF PutItem, IsNumber
  <2> HIDE DEF R, cut
  <2>7. InMemory(R)
    BY <1>4, <1>6, <2>1, <2>5, <2>6
  <2> QED
    BY <2>7 DEF R
<1>7. \/ r.i + item.size > BufSize - 1
      \/ IsNumber(item) \/ item.kind = "char" \/ item.kind = "text"
  BY ItemFacts DEF IsNumber
<1> QED
  BY <1>2, <1>3, <1>5, <1>6, <1>7

\* Any format, handled or not, leaves characters in the memory.
LEMMA VsnprintfType ==
    ASSUME NEW mem \in [Bytes -> Chars], NEW format \in Seq(FormatItems)
    PROVE  Vsnprintf(mem, format) \in [Bytes -> Chars]
<1> DEFINE n == Len(format)
           f == Formatted(mem, format)
           T == {k \in 0..n : ~InMemory(f[k])}
<1>1. n \in Nat /\ \A k \in 1..n : format[k] \in FormatItems
  OBVIOUS
<1>2. /\ f[0] = [mem |-> mem, i |-> 0, j |-> 0]
      /\ \A k \in 1..n : f[k] = PutItem(f[k - 1], format[k])
  BY <1>1, FormattedIs DEF Puts
<1>3. Vsnprintf(mem, format) = Write(f[n].mem, f[n].j, <<NUL>>)
  BY DEF Vsnprintf
<1> HIDE DEF f, n
<1>4. T = {}
  <2> SUFFICES ASSUME T # {} PROVE FALSE
    OBVIOUS
  <2>1. PICK k \in T : \A j \in T : k <= j
    <3>1. T \in SUBSET Nat
      BY <1>1
    <3> HIDE DEF T
    <3> QED
      BY ONLY <3>1, T # {}, LeastOf
  <2>2. CASE k = 0
    <3>1. InMemory(f[0])
      BY <1>2 DEF InMemory
    <3> QED
      BY <2>1, <2>2, <3>1
  <2>3. CASE k # 0
    <3>1. k \in 1..n /\ k - 1 \in 0..n /\ ~(k <= k - 1)
      BY <1>1, <2>1, <2>3
    <3>2. InMemory(f[k - 1])
      BY <2>1, <3>1
    <3>3. InMemory(PutItem(f[k - 1], format[k]))
      BY <1>1, <3>1, <3>2, PutItemType
    <3> QED
      BY <1>2, <2>1, <3>1, <3>3
  <2> QED
    BY <2>2, <2>3
<1>5. f[n].mem \in [Bytes -> Chars] /\ f[n].j \in Int
  <2>1. InMemory(f[n])
    BY <1>1, <1>4
  <2> QED
    BY <2>1 DEF InMemory
<1>6. <<NUL>> \in Seq(Chars) /\ Bytes \in SUBSET Int
  <2>1. NUL \in Chars
    BY CharsAssumption
  <2> HIDE DEF NUL
  <2> QED
    BY <2>1 DEF Bytes
<1>7. Write(f[n].mem, f[n].j, <<NUL>>) \in [Bytes -> Chars]
  BY ONLY <1>5, <1>6, WriteFacts
<1> QED
  BY <1>3, <1>7

----------------------------------------------------------------------------
(***************************************************************************)
(* The screen.                                                             *)
(***************************************************************************)
\* memmove towards the start moves every cell, although the buffers overlap.
LEMMA MemmoveFacts ==
    ASSUME NEW N \in Nat, NEW cells \in [0..(N - 1) -> Chars],
           NEW src \in Nat, NEW num \in Nat, src + num <= N
    PROVE  Memmove(cells, 0, src, num) =
               [x \in 0..(N - 1) |-> IF x < num THEN cells[src + x] ELSE cells[x]]
<1> DEFINE D == 0..(N - 1)
           at == CopyOrder(0, src, num)
           s == Copies(cells, 0, src, num)
           After(k) == [x \in D |-> IF x < k THEN cells[src + x] ELSE cells[x]]
           T == {k \in 0..num : s[k] # After(k)}
<1>1. at = [k \in 1..num |-> k - 1]
  BY DEF CopyOrder
<1>2. s[0] = cells /\ \A k \in 1..num : s[k] = CopyCell(s[k - 1], 0 + at[k], src + at[k])
  BY CopiesIs DEF CopiesCells
<1> HIDE DEF s, at
<1>3. \A k \in 1..num : s[k] = [s[k - 1] EXCEPT ![k - 1] = s[k - 1][src + (k - 1)]]
  <2> SUFFICES ASSUME NEW k \in 1..num
               PROVE  s[k] = [s[k - 1] EXCEPT ![k - 1] = s[k - 1][src + (k - 1)]]
    OBVIOUS
  <2>1. at[k] = k - 1 /\ 0 + at[k] = k - 1
    BY <1>1
  <2> QED
    BY <1>2, <2>1 DEF CopyCell
<1>4. T = {}
  <2> SUFFICES ASSUME T # {} PROVE FALSE
    OBVIOUS
  <2>1. PICK k \in T : \A j \in T : k <= j
    <3>1. T \in SUBSET Nat
      OBVIOUS
    <3> HIDE DEF T
    <3> QED
      BY ONLY <3>1, T # {}, LeastOf
  <2>2. k # 0
    <3>1. After(0) = cells
      <4>1. \A x \in D : ~(x < 0)
        OBVIOUS
      <4>2. After(0) = [x \in D |-> cells[x]]
        BY <4>1
      <4> QED
        BY <4>2
    <3> QED
      BY <1>2, <2>1, <3>1
  <2>3. k \in 1..num /\ k - 1 \in 0..num /\ k \in Nat /\ ~(k <= k - 1)
    BY <2>1, <2>2
  <2>4. k - 1 \notin T
    <3> HIDE DEF T
    <3> QED
      BY <2>1, <2>3
  <2>5. s[k - 1] = After(k - 1)
    BY <2>3, <2>4
  <2>6. k - 1 \in D /\ src + (k - 1) \in D /\ ~(src + (k - 1) < k - 1)
    BY <2>3
  <2>7. s[k] = [s[k - 1] EXCEPT ![k - 1] = s[k - 1][src + (k - 1)]]
    BY <1>3, <2>3
  <2>8. s[k - 1][src + (k - 1)] = cells[src + (k - 1)]
    BY <2>5, <2>6
  <2>9. s[k] = After(k)
    <3>1. s[k] = [x \in D |-> IF x = k - 1 THEN cells[src + (k - 1)] ELSE After(k - 1)[x]]
      <4>1. DOMAIN After(k - 1) = D
        OBVIOUS
      <4> HIDE DEF After
      <4> QED
        BY ONLY <2>5, <2>6, <2>7, <2>8, <4>1
    <3>2. \A x \in D : (IF x = k - 1 THEN cells[src + (k - 1)] ELSE After(k - 1)[x])
                         = IF x < k THEN cells[src + x] ELSE cells[x]
      BY <2>3
    <3> QED
      BY <3>1, <3>2
  <2> QED
    BY <2>1, <2>9
<1>5. s[num] = After(num)
  <2>1. num \in 0..num
    OBVIOUS
  <2>2. num \notin T
    BY ONLY <1>4
  <2> HIDE DEF After
  <2> QED
    BY ONLY <2>1, <2>2 DEF T
<1> QED
  BY <1>5 DEF Memmove, s

\* The indices of the screen, and the rows of the paper.
Cells == 0..(Rows * Columns - 1)
PaperRows == [0..(Columns - 1) -> Chars]

\* Products with the number of columns.
LEMMA ColumnTimes ==
    /\ \A a \in Int : Columns * a \in Int /\ Columns * (a + 1) = Columns * a + Columns
    /\ \A a, b \in Int : a <= b => Columns * a <= Columns * b
    /\ Columns * 0 = 0 /\ Rows * Columns = Columns * Rows
    /\ Columns \in Nat \ {0} /\ Rows \in Nat \ {0}
<1>1. Columns \in Nat \ {0} /\ Rows \in Nat \ {0}
  BY SizesAssumption
<1>2. \A a \in Int : Columns * a \in Int /\ Columns * (a + 1) = Columns * a + Columns
  BY ONLY <1>1
<1>3. \A a, b \in Int : a <= b => Columns * a <= Columns * b
  BY ONLY <1>1
<1>4. Columns * 0 = 0 /\ Rows * Columns = Columns * Rows
  BY ONLY <1>1
<1> QED
  BY <1>1, <1>2, <1>3, <1>4

\* Every row and column of the screen has a cell, and no two have the same.
LEMMA CellsApart ==
    /\ \A r \in 0..(Rows - 1), c \in 0..(Columns - 1) : Columns * r + c \in Cells
    /\ \A r, s \in 0..(Rows - 1), c, d \in 0..(Columns - 1) :
           Columns * r + c = Columns * s + d => r = s /\ c = d
<1>0. Columns \in Nat \ {0} /\ Rows \in Nat \ {0}
  BY SizesAssumption
<1>1. ASSUME NEW r \in 0..(Rows - 1), NEW c \in 0..(Columns - 1)
      PROVE  Columns * r + c \in Cells
  <2> DEFINE P == Columns * r
             Q == Columns * Rows
  <2>1. 0 <= P /\ P + Columns <= Q /\ P \in Int /\ Q \in Int /\ Rows * Columns = Q
    <3>1. r \in Int /\ r + 1 \in Int /\ 0 \in Int /\ Rows \in Int /\ 0 <= r /\ r + 1 <= Rows
      BY <1>0
    <3>2. Columns * (r + 1) = P + Columns /\ Columns * (r + 1) <= Q /\ Columns * 0 <= P
      BY <3>1, ColumnTimes
    <3> QED
      BY <3>1, <3>2, ColumnTimes
  <2> HIDE DEF P, Q
  <2>2. P + c \in 0..(Q - 1)
    BY ONLY <2>1, <1>0, c \in 0..(Columns - 1)
  <2> QED
    BY <2>1, <2>2 DEF Cells, P
<1>2. ASSUME NEW r \in 0..(Rows - 1), NEW s \in 0..(Rows - 1),
             NEW c \in 0..(Columns - 1), NEW d \in 0..(Columns - 1), r < s
      PROVE  Columns * r + c < Columns * s + d
  <2> DEFINE P == Columns * r
             Q == Columns * s
  <2>1. P + Columns <= Q /\ P \in Int /\ Q \in Int
    <3>1. r \in Int /\ r + 1 \in Int /\ s \in Int /\ r + 1 <= s
      BY <1>0, <1>2
    <3> QED
      BY <3>1, ColumnTimes
  <2> HIDE DEF P, Q
  <2>2. P + c < Q + d
    BY ONLY <2>1, <1>0, c \in 0..(Columns - 1), d \in 0..(Columns - 1)
  <2> QED
    BY <2>2 DEF P, Q
<1>3. ASSUME NEW r \in 0..(Rows - 1), NEW s \in 0..(Rows - 1),
             NEW c \in 0..(Columns - 1), NEW d \in 0..(Columns - 1),
             Columns * r + c = Columns * s + d
      PROVE  r = s /\ c = d
  <2> DEFINE P == Columns * r + c
             Q == Columns * s + d
  <2>1. P \in Int /\ Q \in Int
    BY <1>1 DEF Cells
  <2>2. r < s => P < Q
    BY <1>2
  <2>3. s < r => Q < P
    BY <1>2
  <2>4. P = Q
    BY <1>3
  <2>5. r = s
    <3> HIDE DEF P, Q
    <3> QED
      BY <2>1, <2>2, <2>3, <2>4, <1>0
  <2>6. Columns * r \in Int /\ Columns * s = Columns * r
    BY <2>5, ColumnTimes
  <2> QED
    BY <1>0, <1>3, <2>5, <2>6
<1> QED
  BY <1>1, <1>3

\* Every row goes up by one and the bottom row is blank.
LEMMA ScrolledUpFacts ==
    ASSUME NEW cells \in [Cells -> Chars]
    PROVE  /\ ScrolledUp(cells) \in [Cells -> Chars]
           /\ \A r \in 0..(Rows - 2), c \in 0..(Columns - 1) :
                  ScrolledUp(cells)[Columns * r + c] = cells[Columns * (r + 1) + c]
           /\ \A c \in 0..(Columns - 1) : ScrolledUp(cells)[Columns * (Rows - 1) + c] = NUL
<1> DEFINE N == Rows * Columns
           num == Columns * (Rows - 1)
           moved == Memmove(cells, 0, Columns, num)
           up == ScrolledUp(cells)
<1>1. /\ Columns \in Nat \ {0} /\ Rows \in Nat \ {0} /\ N \in Nat /\ num \in Nat
      /\ Columns + num = N
  <2>1. Columns \in Nat \ {0} /\ Rows \in Nat \ {0}
    BY SizesAssumption
  <2>2. Rows - 1 \in Nat /\ (Rows - 1) + 1 = Rows
    BY <2>1
  <2>3. num + Columns = Columns * Rows /\ Columns * 0 <= num /\ num \in Int
    BY <2>2, ColumnTimes
  <2> QED
    BY <2>1, <2>3, ColumnTimes
<1> HIDE DEF num, N
<1>2. cells \in [0..(N - 1) -> Chars] /\ Columns + num <= N /\ Columns \in Nat
  BY <1>1 DEF N, Cells
<1>3. moved = [x \in 0..(N - 1) |-> IF x < num THEN cells[Columns + x] ELSE cells[x]]
  <2>1. N \in Nat /\ num \in Nat
    BY <1>1
  <2>2. \A cc \in [0..(N - 1) -> Chars], src \in Nat, k \in Nat : src + k <= N =>
          Memmove(cc, 0, src, k) = [x \in 0..(N - 1) |-> IF x < k THEN cc[src + x] ELSE cc[x]]
    BY ONLY <2>1, MemmoveFacts
  <2>3. Memmove(cells, 0, Columns, num)
          = [x \in 0..(N - 1) |-> IF x < num THEN cells[Columns + x] ELSE cells[x]]
    BY ONLY <1>2, <2>1, <2>2
  <2> QED
    BY <2>3 DEF moved
<1> HIDE DEF moved
<1>4. up = [x \in 0..(N - 1) |-> IF x - num \in 0..(Columns - 1) THEN NUL ELSE moved[x]]
  BY <1>3 DEF ScrolledUp, Memset, num, moved
<1> HIDE DEF up
<1>5. \A x \in 0..(N - 1) : up[x] = IF x < num THEN cells[Columns + x] ELSE NUL
  <2> SUFFICES ASSUME NEW x \in 0..(N - 1)
               PROVE  up[x] = IF x < num THEN cells[Columns + x] ELSE NUL
    OBVIOUS
  <2>1. x - num \in 0..(Columns - 1) <=> ~(x < num)
    BY ONLY <1>1, x \in 0..(N - 1)
  <2>2. up[x] = IF x - num \in 0..(Columns - 1) THEN NUL ELSE moved[x]
    BY ONLY <1>4, x \in 0..(N - 1)
  <2>3. moved[x] = IF x < num THEN cells[Columns + x] ELSE cells[x]
    BY ONLY <1>3, x \in 0..(N - 1)
  <2> HIDE DEF NUL
  <2> QED
    BY ONLY <2>1, <2>2, <2>3
<1>6. up \in [Cells -> Chars]
  <2>1. NUL \in Chars
    BY CharsAssumption
  <2>2. ASSUME NEW x \in 0..(N - 1) PROVE up[x] \in Chars
    <3>1. x < num => Columns + x \in 0..(N - 1)
      BY ONLY <1>1, x \in 0..(N - 1)
    <3> HIDE DEF NUL
    <3> QED
      BY ONLY <1>2, <1>5, <2>1, <3>1, x \in 0..(N - 1)
  <2>3. DOMAIN up = 0..(N - 1) /\ up = [x \in 0..(N - 1) |-> up[x]]
    BY <1>4
  <2> QED
    BY <2>2, <2>3 DEF Cells, N
<1>7. ASSUME NEW r \in 0..(Rows - 2), NEW c \in 0..(Columns - 1)
      PROVE  up[Columns * r + c] = cells[Columns * (r + 1) + c]
  <2> DEFINE P == Columns * r
  <2>1. P \in Int /\ 0 <= P /\ P + Columns <= num /\ Columns * (r + 1) = P + Columns
    <3>1. r \in Int /\ 0 <= r /\ r + 1 \in Int /\ r + 1 <= Rows - 1 /\ Rows - 1 \in Int
      BY <1>1
    <3>2. /\ Columns * 0 <= P /\ Columns * 0 = 0 /\ P \in Int
          /\ Columns * (r + 1) = P + Columns /\ Columns * (r + 1) <= num
      BY <3>1, ColumnTimes DEF num
    <3> QED
      BY <3>2
  <2> HIDE DEF P
  <2>2. /\ P + c \in 0..(N - 1) /\ P + c < num
        /\ Columns + (P + c) = (P + Columns) + c
    BY ONLY <1>1, <2>1, c \in 0..(Columns - 1)
  <2>3. up[P + c] = cells[(P + Columns) + c]
    BY ONLY <1>5, <2>2
  <2> QED
    BY <2>1, <2>3 DEF P
<1>8. ASSUME NEW c \in 0..(Columns - 1) PROVE up[num + c] = NUL
  <2>1. num + c \in 0..(N - 1) /\ ~(num + c < num)
    BY ONLY <1>1, c \in 0..(Columns - 1)
  <2> HIDE DEF NUL
  <2> QED
    BY ONLY <1>5, <2>1
<1> QED
  BY <1>6, <1>7, <1>8 DEF up, num

\* The screen shows the last rows of the paper.
Shows(scr, pap) ==
    \A r \in 0..(Rows - 1), c \in 0..(Columns - 1) :
        scr[Columns * r + c] = pap[Len(pap) - Rows + 1 + r][c]

\* A character put on the screen and on the paper.
LEMMA WrittenShows ==
    ASSUME NEW scr \in [Cells -> Chars], NEW pap \in Seq(PaperRows), Len(pap) >= Rows,
           Shows(scr, pap), NEW l \in 0..(Rows - 1), NEW k \in 0..(Columns - 1),
           NEW ch \in Chars
    PROVE  LET W == [scr EXCEPT ![Columns * l + k] = ch]
               P == [pap EXCEPT ![Len(pap) - Rows + l + 1][k] = ch]
           IN  /\ W \in [Cells -> Chars] /\ P \in Seq(PaperRows) /\ Len(P) = Len(pap)
               /\ Shows(W, P)
<1> DEFINE W == [scr EXCEPT ![Columns * l + k] = ch]
           row == Len(pap) - Rows + l + 1
           P == [pap EXCEPT ![row][k] = ch]
           n == Len(pap)
<1>1. /\ Columns \in Nat \ {0} /\ Rows \in Nat \ {0} /\ n \in Nat /\ n >= Rows
      /\ pap \in [1..n -> PaperRows]
  BY SizesAssumption
<1> HIDE DEF n
<1>2. row \in 1..n /\ row = n - Rows + 1 + l
  BY <1>1 DEF n
<1> HIDE DEF row
<1>3. P = [pap EXCEPT ![row] = [pap[row] EXCEPT ![k] = ch]]
  BY <1>1, <1>2
<1>4. pap[row] \in PaperRows /\ [pap[row] EXCEPT ![k] = ch] \in PaperRows
  BY <1>1, <1>2 DEF PaperRows
<1>5. P \in [1..n -> PaperRows]
  BY <1>1, <1>2, <1>3, <1>4
<1>6. P \in Seq(PaperRows) /\ Len(P) = n
  BY <1>1, <1>5
<1>7. W \in [Cells -> Chars]
  BY CellsApart
<1>8. ASSUME NEW r \in 0..(Rows - 1), NEW c \in 0..(Columns - 1)
      PROVE  W[Columns * r + c] = P[n - Rows + 1 + r][c]
  <2> DEFINE x == Columns * r + c
             y == n - Rows + 1 + r
  <2>1. x \in Cells /\ Columns * l + k \in Cells /\ (x = Columns * l + k <=> r = l /\ c = k)
    BY CellsApart
  <2>2. y \in 1..n /\ (y = row <=> r = l)
    BY <1>1, <1>2
  <2>3. scr[x] = pap[y][c]
    BY DEF Shows, n
  <2> HIDE DEF x, y
  <2>4. W[x] = IF r = l /\ c = k THEN ch ELSE scr[x]
    BY <2>1
  <2>5. P[y] = IF r = l THEN [pap[row] EXCEPT ![k] = ch] ELSE pap[y]
    BY <1>1, <1>2, <1>3, <2>2
  <2>6. DOMAIN pap[row] = 0..(Columns - 1)
    BY <1>4 DEF PaperRows
  <2>7. r = l => [pap[row] EXCEPT ![k] = ch][c] = IF c = k THEN ch ELSE pap[y][c]
    BY <2>2, <2>6
  <2>8. W[x] = P[y][c]
    BY <2>3, <2>4, <2>5, <2>7
  <2> QED
    BY <2>8 DEF x, y
<1>9. Shows(W, P)
  BY <1>6, <1>8 DEF Shows
<1> QED
  BY <1>6, <1>7, <1>9 DEF row, n

\* A scrolled screen beside a paper with one more row.
LEMMA ScrolledShows ==
    ASSUME NEW scr \in [Cells -> Chars], NEW pap \in Seq(PaperRows), Len(pap) >= Rows,
           Shows(scr, pap)
    PROVE  LET P == Append(pap, BlankRow(NUL))
           IN  /\ ScrolledUp(scr) \in [Cells -> Chars] /\ P \in Seq(PaperRows)
               /\ Len(P) = Len(pap) + 1 /\ Shows(ScrolledUp(scr), P)
<1> DEFINE P == Append(pap, BlankRow(NUL))
           n == Len(pap)
           S == ScrolledUp(scr)
<1>0. NUL \in Chars
  BY CharsAssumption
<1>1. Columns \in Nat \ {0} /\ Rows \in Nat \ {0} /\ n \in Nat /\ n >= Rows
  BY SizesAssumption
<1>2. BlankRow(NUL) \in PaperRows /\ \A c \in 0..(Columns - 1) : BlankRow(NUL)[c] = NUL
  BY <1>0 DEF BlankRow, PaperRows
<1>3. /\ P \in Seq(PaperRows) /\ Len(P) = n + 1 /\ P[n + 1] = BlankRow(NUL)
      /\ \A y \in 1..n : P[y] = pap[y]
  BY <1>2
<1>4. /\ S \in [Cells -> Chars]
      /\ \A r \in 0..(Rows - 2), c \in 0..(Columns - 1) :
             S[Columns * r + c] = scr[Columns * (r + 1) + c]
      /\ \A c \in 0..(Columns - 1) : S[Columns * (Rows - 1) + c] = NUL
  BY ONLY scr \in [Cells -> Chars], ScrolledUpFacts
<1>5. \A r \in 0..(Rows - 1), c \in 0..(Columns - 1) :
          scr[Columns * r + c] = pap[n - Rows + 1 + r][c]
  BY DEF Shows
<1> HIDE DEF P, n, S, NUL
<1>6. ASSUME NEW r \in 0..(Rows - 1), NEW c \in 0..(Columns - 1)
      PROVE  S[Columns * r + c] = P[(n + 1) - Rows + 1 + r][c]
  <2>1. CASE r = Rows - 1
    <3>1. (n + 1) - Rows + 1 + r = n + 1
      BY <1>1, <2>1
    <3> QED
      BY <1>2, <1>3, <1>4, <2>1, <3>1
  <2>2. CASE r # Rows - 1
    <3>1. /\ r \in 0..(Rows - 2) /\ r + 1 \in 0..(Rows - 1)
          /\ (n + 1) - Rows + 1 + r = n - Rows + 1 + (r + 1)
          /\ n - Rows + 1 + (r + 1) \in 1..n
      BY <1>1, <2>2
    <3>2. S[Columns * r + c] = scr[Columns * (r + 1) + c]
      BY <1>4, <3>1
    <3>3. scr[Columns * (r + 1) + c] = pap[n - Rows + 1 + (r + 1)][c]
      BY <1>5, <3>1
    <3> QED
      BY <1>3, <3>1, <3>2, <3>3
  <2> QED
    BY <2>1, <2>2
<1>7. Shows(S, P)
  BY <1>3, <1>6 DEF Shows
<1> QED
  BY <1>3, <1>4, <1>7 DEF P, n, S

----------------------------------------------------------------------------
(***************************************************************************)
(* The invariant.                                                          *)
(***************************************************************************)
\* What the text of the last format is to the loop that prints.
LEMMA TextParts ==
    BufferHoldsText <=>
        (index >= 0 /\ Handled(items) =>
                       /\ \A k \in DOMAIN TextOf(items) : memory[k - 1] = TextOf(items)[k]
                       /\ memory[Len(TextOf(items))] = NUL)
  BY DEF BufferHoldsText

\* The state before the first call.
LEMMA InitConsole == Init => ConsoleInv
<1> SUFFICES ASSUME Init PROVE ConsoleInv
  OBVIOUS
<1> USE DEF Init
<1>1. /\ Columns \in Nat \ {0} /\ Rows \in Nat \ {0} /\ BufSize \in Nat \ {0} /\ Memory \in Nat
      /\ BufSize <= Memory /\ MaxCalls \in Nat
  BY SizesAssumption
<1>2. NUL \in Chars /\ "boot" \in Chars /\ "beyond" \in Chars
  BY CharsAssumption
<1> HIDE DEF NUL
<1>3. BlankRow("boot") \in [0..(Columns - 1) -> Chars]
  BY <1>2 DEF BlankRow
<1>4. paper \in [1..Rows -> [0..(Columns - 1) -> Chars]]
  BY <1>3
<1>5. paper \in Seq([0..(Columns - 1) -> Chars]) /\ Len(paper) = Rows
  BY <1>1, <1>4
<1>6. TypeOK
  <2>1. memory \in [0..(Memory - 1) -> Chars]
    BY <1>2
  <2>2. screen \in [0..(Rows * Columns - 1) -> Chars]
    BY <1>2
  <2>3. line \in 0..(Rows - 1) /\ column \in 0..(Columns - 1) /\ index \in -1..(Memory - 1)
    BY <1>1
  <2>4. calls \in 0..MaxCalls /\ items \in Formats \cup {<<>>}
    BY <1>1
  <2> QED
    BY <1>5, <2>1, <2>2, <2>3, <2>4 DEF TypeOK
<1>7. ScreenShowsEnd
  <2> SUFFICES ASSUME NEW r \in 0..(Rows - 1), NEW c \in 0..(Columns - 1)
               PROVE  screen[Columns * r + c] = paper[Len(paper) - Rows + 1 + r][c]
    BY DEF ScreenShowsEnd
  <2>1. Columns * r + c \in 0..(Rows * Columns - 1)
    BY CellsApart DEF Cells
  <2>2. Len(paper) - Rows + 1 + r \in 1..Rows
    BY <1>1, <1>5
  <2>3. screen[Columns * r + c] = "boot"
    BY <2>1
  <2>4. paper[Len(paper) - Rows + 1 + r] = BlankRow("boot")
    BY <2>2
  <2>5. BlankRow("boot")[c] = "boot"
    BY DEF BlankRow
  <2> QED
    BY <2>3, <2>4, <2>5
<1>8. BufferHoldsText
  BY DEF BufferHoldsText
<1>9. NothingPastBuffer
  BY <1>1 DEF NothingPastBuffer
<1>10. Len(paper) >= Rows /\ ~(index >= 0)
  BY <1>1, <1>5
<1> QED
  BY <1>6, <1>7, <1>8, <1>9, <1>10 DEF ConsoleInv

\* A call of a handled format leaves its text in the buffer and touches nothing else.
LEMMA KprintfKeeps ==
    ASSUME ConsoleInv, NEW f \in Formats, Kprintf(f), Handled(f) PROVE ConsoleInv'
<1> DEFINE V == Vsnprintf(memory, f)
           text == TextOf(f)
<1>1. /\ BufSize \in Nat \ {0} /\ Memory \in Nat /\ BufSize <= Memory /\ MaxCalls \in Nat
  BY SizesAssumption
<1>2. /\ memory \in [Bytes -> Chars] /\ f \in Seq(FormatItems)
  BY FormatsAssumption DEF ConsoleInv, TypeOK, Bytes
<1>3. /\ V \in [Bytes -> Chars] /\ text \in Seq(Chars) /\ Len(text) < BufSize
      /\ \A k \in 1..Len(text) : V[k - 1] = text[k]
      /\ V[Len(text)] = NUL
      /\ \A x \in Bytes : BufSize <= x => V[x] = memory[x]
  BY <1>2, VsnprintfFacts
<1>4. /\ memory' = V /\ items' = f /\ index' = 0 /\ calls' = calls + 1 /\ calls < MaxCalls
      /\ screen' = screen /\ line' = line /\ column' = column /\ paper' = paper
  BY DEF Kprintf
<1>5. text = TextOf(items')
  BY <1>4
<1> HIDE DEF V, text
<1>6. Len(text) \in Nat /\ DOMAIN text = 1..Len(text)
  BY <1>3
<1>7. TypeOK'
  <2>1. calls + 1 \in 0..MaxCalls /\ 0 \in -1..(Memory - 1)
    BY <1>1, <1>4 DEF ConsoleInv, TypeOK
  <2> QED
    BY <1>3, <1>4, <2>1 DEF ConsoleInv, TypeOK, Bytes
<1>8. ScreenShowsEnd'
  BY <1>4 DEF ConsoleInv, ScreenShowsEnd
<1>9. BufferHoldsText'
  <2>1. /\ \A k \in DOMAIN text : memory'[k - 1] = text[k]
        /\ memory'[Len(text)] = NUL
    BY <1>3, <1>4, <1>6
  <2> HIDE DEF NUL
  <2> QED
    BY <1>5, <2>1 DEF BufferHoldsText
<1>10. NothingPastBuffer'
  <2> SUFFICES ASSUME NEW b \in BufSize..(Memory - 1) PROVE memory'[b] = "beyond"
    BY DEF NothingPastBuffer
  <2>1. b \in Bytes /\ BufSize <= b
    BY <1>1 DEF Bytes
  <2>2. memory[b] = "beyond"
    BY DEF ConsoleInv, NothingPastBuffer, Overran, Kprintf
  <2> QED
    BY <1>3, <1>4, <2>1, <2>2
<1>11. /\ TextOf(items') \in Seq(Chars) /\ index' <= Len(TextOf(items'))
       /\ Len(TextOf(items')) < BufSize
  BY <1>3, <1>4, <1>5, <1>6
<1>12. (Len(paper) >= Rows)'
  BY <1>4 DEF ConsoleInv
<1> QED
  BY <1>7, <1>8, <1>9, <1>10, <1>11, <1>12 DEF ConsoleInv

\* Another one leaves characters, wherever they are.
LEMMA KprintfOverruns ==
    ASSUME ConsoleInv, NEW f \in Formats, Kprintf(f), ~Handled(f) PROVE ConsoleInv'
<1>1. /\ items' = f /\ index' = 0 /\ calls' = calls + 1 /\ calls < MaxCalls
      /\ screen' = screen /\ line' = line /\ column' = column /\ paper' = paper
      /\ memory' = Vsnprintf(memory, f)
  BY DEF Kprintf
<1>2. memory' \in [Bytes -> Chars]
  <2>1. memory \in [Bytes -> Chars] /\ f \in Seq(FormatItems)
    BY FormatsAssumption DEF ConsoleInv, TypeOK, Bytes
  <2> QED
    BY <1>1, <2>1, VsnprintfType
<1>3. TypeOK'
  <2>1. calls + 1 \in 0..MaxCalls /\ 0 \in -1..(Memory - 1)
    BY <1>1, SizesAssumption DEF ConsoleInv, TypeOK
  <2> QED
    BY <1>1, <1>2, <2>1 DEF ConsoleInv, TypeOK, Bytes
<1>4. Overran' /\ ~Handled(items')
  BY <1>1 DEF Overran
<1>5. ScreenShowsEnd' /\ (Len(paper) >= Rows)'
  BY <1>1 DEF ConsoleInv, ScreenShowsEnd
<1>6. BufferHoldsText'
  BY <1>4 DEF BufferHoldsText
<1> QED
  BY <1>3, <1>4, <1>5, <1>6 DEF ConsoleInv

\* The end of a call.
LEMMA KprintfReturnsKeeps == ASSUME ConsoleInv, Handled(items), KprintfReturns PROVE ConsoleInv'
<1>1. /\ index' = -1 /\ memory' = memory /\ screen' = screen /\ line' = line
      /\ column' = column /\ items' = items /\ calls' = calls /\ paper' = paper
  BY DEF KprintfReturns
<1>2. ~(index' >= 0)
  BY <1>1
<1>3. TypeOK'
  <2>1. -1 \in -1..(Memory - 1)
    BY SizesAssumption
  <2> QED
    BY <1>1, <2>1 DEF ConsoleInv, TypeOK
<1>4. ScreenShowsEnd' /\ NothingPastBuffer' /\ (Len(paper) >= Rows)'
  BY <1>1 DEF ConsoleInv, ScreenShowsEnd, NothingPastBuffer, Overran
<1>5. BufferHoldsText'
  BY <1>2 DEF BufferHoldsText
<1> QED
  BY <1>2, <1>3, <1>4, <1>5 DEF ConsoleInv

\* Where the cursor goes: to a column of the screen after the wrap, and at most
\* one line down, since a new line starts in column 0.
LEMMA CursorMoves ==
    ASSUME TypeOK, NEW c \in Chars
    PROVE  LET col == ColumnAfter(c)
               l   == line + (IF c = "nl" THEN 1 ELSE 0) + (IF col > Columns - 1 THEN 1 ELSE 0)
           IN  col % Columns \in 0..(Columns - 1) /\ l \in 0..Rows
<1> DEFINE col == ColumnAfter(c)
           l == line + (IF c = "nl" THEN 1 ELSE 0) + (IF col > Columns - 1 THEN 1 ELSE 0)
<1>1. /\ Columns \in Nat \ {0} /\ Rows \in Nat \ {0} /\ TabWidth \in Nat
      /\ line \in 0..(Rows - 1) /\ column \in 0..(Columns - 1)
  BY SizesAssumption DEF TypeOK
<1>2. col \in Nat
  BY <1>1 DEF ColumnAfter
<1>3. c = "nl" => col = 0
  BY DEF ColumnAfter
<1> HIDE DEF col
<1>4. col % Columns \in 0..(Columns - 1)
  BY ONLY <1>1, <1>2
<1>5. ~(c = "nl" /\ col > Columns - 1)
  BY ONLY <1>1, <1>3
<1>6. l \in 0..Rows
  BY ONLY <1>1, <1>5
<1> QED
  BY <1>4, <1>6 DEF col

\* The screen after one character shows the paper after it.
LEMMA PrintedShows ==
    ASSUME TypeOK, Len(paper) >= Rows, Shows(screen, paper), PrintChar
    PROVE  /\ screen' \in [Cells -> Chars] /\ paper' \in Seq(PaperRows)
           /\ Len(paper') >= Rows /\ Shows(screen', paper')
<1> DEFINE c == memory[index]
           col == ColumnAfter(c)
           l == line + (IF c = "nl" THEN 1 ELSE 0) + (IF col > Columns - 1 THEN 1 ELSE 0)
           row == Len(paper) - Rows + line + 1
           W == IF c \in Escapes THEN screen ELSE [screen EXCEPT ![Columns * line + column] = c]
           P == IF c \in Escapes THEN paper ELSE [paper EXCEPT ![row][column] = c]
<1>1. /\ screen \in [Cells -> Chars] /\ paper \in Seq(PaperRows) /\ line \in 0..(Rows - 1)
      /\ column \in 0..(Columns - 1)
  BY DEF TypeOK, Cells, PaperRows
<1>2. c \in Chars
  <2>1. index \in 0..(Memory - 1)
    BY SizesAssumption DEF TypeOK, PrintChar
  <2> QED
    BY <2>1 DEF TypeOK
<1>3. /\ screen' = IF OffScreen(l) THEN ScrolledUp(W) ELSE W
      /\ paper' = IF l > Rows - 1 THEN Append(P, BlankRow(NUL)) ELSE P
  BY DEF PrintChar, PaperAfter
<1>4. /\ W \in [Cells -> Chars] /\ P \in Seq(PaperRows) /\ Len(P) = Len(paper)
      /\ Shows(W, P)
  <2>1. CASE c \in Escapes
    BY <1>1, <2>1
  <2>2. CASE c \notin Escapes
    <3> DEFINE X == [screen EXCEPT ![Columns * line + column] = c]
               Y == [paper EXCEPT ![row][column] = c]
    <3>1. /\ X \in [Cells -> Chars] /\ Y \in Seq(PaperRows) /\ Len(Y) = Len(paper)
          /\ Shows(X, Y)
      <4> HIDE DEF c
      <4> QED
        BY <1>1, <1>2, WrittenShows
    <3>2. W = X /\ P = Y
      BY <2>2
    <3> HIDE DEF W, P, X, Y
    <3> QED
      BY ONLY <3>1, <3>2
  <2> QED
    BY <2>1, <2>2
<1> HIDE DEF W, P, l, c
<1>5. OffScreen(l) <=> l > Rows - 1
  BY DEF OffScreen
<1>6. CASE l > Rows - 1
  <2> DEFINE Q == Append(P, BlankRow(NUL))
  <2>1. screen' = ScrolledUp(W) /\ paper' = Q
    BY <1>3, <1>5, <1>6
  <2>2. Len(P) >= Rows
    BY <1>4
  <2>3. /\ ScrolledUp(W) \in [Cells -> Chars] /\ Q \in Seq(PaperRows)
        /\ Len(Q) = Len(P) + 1 /\ Shows(ScrolledUp(W), Q)
    BY ONLY <1>4, <2>2, ScrolledShows
  <2>4. Len(Q) >= Rows
    <3>1. Len(P) \in Nat /\ Rows \in Nat
      BY <1>4, SizesAssumption
    <3> HIDE DEF Q
    <3> QED
      BY ONLY <2>2, <2>3, <3>1
  <2> HIDE DEF Q
  <2> QED
    BY ONLY <2>1, <2>3, <2>4
<1>7. CASE ~(l > Rows - 1)
  <2>1. screen' = W /\ paper' = P
    BY <1>3, <1>5, <1>7
  <2> QED
    BY <1>4, <2>1
<1> QED
  BY <1>6, <1>7

\* One iteration of the loop that prints: it stops before the end of the buffer,
\* because the text ends there, and leaves the buffer alone.
LEMMA PrintCharKeeps == ASSUME ConsoleInv, Handled(items), PrintChar PROVE ConsoleInv'
<1> DEFINE text == TextOf(items)
           c == memory[index]
           col == ColumnAfter(c)
           l == line + (IF c = "nl" THEN 1 ELSE 0) + (IF col > Columns - 1 THEN 1 ELSE 0)
<1>1. /\ Columns \in Nat \ {0} /\ Rows \in Nat \ {0} /\ BufSize \in Nat \ {0} /\ Memory \in Nat
      /\ BufSize <= Memory
  BY SizesAssumption
<1>2. /\ TypeOK /\ Len(paper) >= Rows /\ Shows(screen, paper)
      /\ index \in 0..(Memory - 1) /\ c # NUL
      /\ text \in Seq(Chars) /\ index <= Len(text) /\ Len(text) < BufSize
      /\ memory[Len(text)] = NUL
  <2>1. /\ TypeOK /\ Len(paper) >= Rows /\ Shows(screen, paper)
        /\ index \in 0..(Memory - 1) /\ index >= 0 /\ c # NUL
    BY <1>1 DEF ConsoleInv, TypeOK, PrintChar, ScreenShowsEnd, Shows
  <2>2. text \in Seq(Chars) /\ index <= Len(text) /\ Len(text) < BufSize
    BY <2>1 DEF ConsoleInv
  <2>3. memory[Len(text)] = NUL
    <3> HIDE DEF NUL
    <3> QED
      BY <2>1, TextParts DEF ConsoleInv
  <2> QED
    BY <2>1, <2>2, <2>3
<1>3. /\ index' = index + 1 /\ memory' = memory /\ items' = items /\ calls' = calls
      /\ column' = col % Columns /\ line' = IF OffScreen(l) THEN Rows - 1 ELSE l
  BY DEF PrintChar
<1>4. text = TextOf(items')
  BY <1>3
<1>5. index + 1 <= Len(text) /\ index + 1 \in 0..(Memory - 1)
  <2>1. index # Len(text)
    BY <1>2
  <2>2. Len(text) \in Nat
    BY <1>2
  <2> HIDE DEF text
  <2> QED
    BY <1>1, <1>2, <2>1, <2>2
<1>6. col % Columns \in 0..(Columns - 1) /\ l \in 0..Rows
  <2>1. c \in Chars
    BY <1>2 DEF TypeOK
  <2> HIDE DEF c
  <2> QED
    BY <1>2, <2>1, CursorMoves
<1>7. /\ screen' \in [Cells -> Chars] /\ paper' \in Seq(PaperRows)
      /\ Len(paper') >= Rows /\ Shows(screen', paper')
  BY <1>2, PrintedShows
<1> HIDE DEF text, l, c, col
<1>8. TypeOK'
  <2>1. line' \in 0..(Rows - 1)
    BY <1>1, <1>3, <1>6 DEF OffScreen
  <2>2. column' \in 0..(Columns - 1) /\ index' \in -1..(Memory - 1)
    BY <1>1, <1>3, <1>5, <1>6
  <2> QED
    BY <1>2, <1>3, <1>7, <2>1, <2>2 DEF TypeOK, Cells, PaperRows
<1>9. ScreenShowsEnd'
  BY <1>7 DEF ScreenShowsEnd, Shows
<1>10. BufferHoldsText'
  <2>1. \A k \in DOMAIN text : memory[k - 1] = text[k]
    BY <1>2 DEF ConsoleInv, BufferHoldsText, text
  <2> HIDE DEF NUL
  <2>2. memory'[Len(text)] = NUL
    BY <1>2, <1>3
  <2> QED
    BY <1>3, <1>4, <2>1, <2>2 DEF BufferHoldsText
<1>11. NothingPastBuffer'
  BY <1>3 DEF ConsoleInv, NothingPastBuffer, Overran
<1>12. /\ TextOf(items') \in Seq(Chars) /\ index' <= Len(TextOf(items'))
       /\ Len(TextOf(items')) < BufSize
  BY <1>2, <1>3, <1>4, <1>5
<1> QED
  BY <1>7, <1>8, <1>9, <1>10, <1>11, <1>12 DEF ConsoleInv

\* Every step keeps the invariant.
LEMMA ConsoleSteps == ConsoleInv /\ [Next]_vars => ConsoleInv'
<1> SUFFICES ASSUME ConsoleInv, [Next]_vars PROVE ConsoleInv'
  OBVIOUS
<1>1. ASSUME NEW f \in Formats, Kprintf(f) PROVE ConsoleInv'
  BY <1>1, KprintfKeeps, KprintfOverruns
<1>2. CASE Handled(items) /\ PrintChar
  BY <1>2, PrintCharKeeps
<1>3. CASE Handled(items) /\ KprintfReturns
  BY <1>3, KprintfReturnsKeeps
<1>4. CASE UNCHANGED vars
  <2>1. /\ memory' = memory /\ screen' = screen /\ line' = line /\ column' = column
        /\ items' = items /\ index' = index /\ calls' = calls /\ paper' = paper
    BY <1>4 DEF vars
  <2>2. TypeOK' /\ ScreenShowsEnd' /\ (Len(paper) >= Rows)'
        /\ (~Overran => NothingPastBuffer)'
    BY <2>1 DEF ConsoleInv, TypeOK, ScreenShowsEnd, NothingPastBuffer, Overran
  <2>3. BufferHoldsText'
    BY <2>1 DEF ConsoleInv, BufferHoldsText
  <2>4. (index >= 0 /\ Handled(items) =>
            /\ TextOf(items) \in Seq(Chars)
            /\ index <= Len(TextOf(items)) /\ Len(TextOf(items)) < BufSize)'
    BY <2>1 DEF ConsoleInv
  <2> QED
    BY <2>2, <2>3, <2>4 DEF ConsoleInv
<1> QED
  BY <1>1, <1>2, <1>3, <1>4 DEF Next

\* The invariant that the console run checks, for screens, buffers, words and
\* formats of any size: kprintf meets the end of its text before that of the
\* buffer, and its static cursor stays on the screen.
THEOREM ConsoleInvariant == Spec => []ConsoleInv
<1>1. Init => ConsoleInv
  BY InitConsole
<1>2. ConsoleInv /\ [Next]_vars => ConsoleInv'
  BY ConsoleSteps
<1> QED
  BY <1>1, <1>2, PTL DEF Spec

\* kprintf: wrapping, tabs and backspaces never put the cursor off the screen.
THEOREM ConsoleTypeCorrect == Spec => []TypeOK
<1>1. ConsoleInv => TypeOK
  BY DEF ConsoleInv
<1> QED
  BY <1>1, ConsoleInvariant, PTL

\* kprintf, memmove and memset: the screen shows the last rows of all that was
\* printed, whatever the size of the screen.
THEOREM ScreenShowsLastRows == Spec => []ScreenShowsEnd
<1>1. ConsoleInv => ScreenShowsEnd
  BY DEF ConsoleInv
<1> QED
  BY <1>1, ConsoleInvariant, PTL

\* vsnprintf, i_to_nstr and u_to_nstr: the buffer holds the text of the format,
\* computed from the numbers themselves, for every format of handled items.
THEOREM BufferHoldsItsText == Spec => []BufferHoldsText
<1>1. ConsoleInv => BufferHoldsText
  BY DEF ConsoleInv
<1> QED
  BY <1>1, ConsoleInvariant, PTL

\* vsnprintf: nothing is written past the buffer but by the formats that
\* Handled excludes, for any buffer and any format: the half of OverrunsExactly
\* that clients rely on.
THEOREM BufferNeverOverrun == Spec => [](~Overran => NothingPastBuffer)
<1>1. ConsoleInv => (~Overran => NothingPastBuffer)
  BY DEF ConsoleInv
<1> QED
  BY <1>1, ConsoleInvariant, PTL
=============================================================================
