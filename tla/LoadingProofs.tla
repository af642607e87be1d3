----------------------------- MODULE LoadingProofs -----------------------------
(***************************************************************************)
(* What main() of queue_performance.c makes of any file.  The rows have    *)
(* room for what is added to them, all of it is freed, and there is one    *)
(* round of the loop more than the file has pairs, at most.  The numbers   *)
(* of a well-formed file stay inside the array, and its rows hold its      *)
(* links, and no others but for one that this round may add.               *)
(*                                                                         *)
(* The first part is about the text that is left when lines are taken away *)
(* (FlattenSeq) and the numbers scanf() finds (Matched).                   *)
(***************************************************************************)
EXTENDS Loading, FiniteSetTheorems, SequenceTheorems, WellFoundedInduction, TLAPS

(* Every nonempty set of natural numbers has a least element, and if it is *)
(* bounded, a greatest.                                                    *)
LEMMA LeastNat ==
  ASSUME NEW T, T \subseteq Nat, T # {}
  PROVE  \E x \in T : \A y \in T : x <= y
<1> DEFINE R == OpToRel(<, Nat)
<1>1. \E x \in T : \A y \in T : ~ (<<y, x>> \in R)
  <2> HIDE DEF R
  <2>1. IsWellFoundedOn(R, Nat)
    BY NatLessThanWellFounded DEF R
  <2> QED BY <2>1, WFMin, Zenon
<1>2. \A x, y \in Nat : y < x => <<y, x>> \in R
  BY DEF OpToRel
<1> HIDE DEF R
<1>3. PICK x \in T : \A y \in T : ~ (<<y, x>> \in R)
  BY <1>1, Zenon
<1>4. \A y \in T : ~ (y < x)
  BY <1>2, <1>3, Zenon
<1> QED
  BY <1>4

LEMMA GreatestNat ==
  ASSUME NEW m \in Nat, NEW T, T \subseteq 0..m, T # {}
  PROVE  Max(T) \in T /\ \A y \in T : Max(T) >= y
<1> DEFINE U == {m - y : y \in T}
<1>1. PICK u \in U : \A v \in U : u <= v
  <2>1. U \subseteq Nat /\ U # {}
    <3>1. \A y \in T : m - y \in Nat
      OBVIOUS
    <3> QED
      BY <3>1
  <2> HIDE DEF U
  <2> QED
    BY <2>1, LeastNat
<1>2. PICK x \in T : u = m - x
  OBVIOUS
<1>3. \A y \in T : x >= y
  <2> SUFFICES ASSUME NEW y \in T PROVE x >= y
    OBVIOUS
  <2>1. m - x <= m - y
    BY <1>1, <1>2
  <2> QED
    BY <2>1
<1> QED
  BY <1>3 DEF Max

----------------------------------------------------------------------------
(* FlattenSeq, line by line.                                               *)
Flat(g, s) ==
  g = [a \in 1..Len(s) |-> IF a = 1 THEN s[a] ELSE g[a - 1] \o s[a]]

Joins(g, s, m) ==
  \A a \in 1..m : g[a] = IF a = 1 THEN s[a] ELSE g[a - 1] \o s[a]

LEMMA FlatJoins ==
  ASSUME NEW s, NEW g, Flat(g, s)
  PROVE  Joins(g, s, Len(s))
<1> DEFINE h == [a \in 1..Len(s) |-> IF a = 1 THEN s[a] ELSE g[a - 1] \o s[a]]
<1>1. \A a \in 1..Len(s) : h[a] = IF a = 1 THEN s[a] ELSE g[a - 1] \o s[a]
  OBVIOUS
<1>2. g = h
  BY DEF Flat
<1> HIDE DEF h
<1> QED
  BY <1>1, <1>2 DEF Joins

LEMMA FlatTypes ==
  ASSUME NEW T, NEW s \in Seq(Seq(T)), NEW m \in 0..Len(s), NEW g, Joins(g, s, m)
  PROVE  \A a \in 1..m : g[a] \in Seq(T)
<1> DEFINE Bad == {a \in 1..m : g[a] \notin Seq(T)}
<1> SUFFICES ASSUME Bad # {} PROVE FALSE
  OBVIOUS
<1>0. m \in Nat /\ m <= Len(s) /\ Len(s) \in Nat
  OBVIOUS
<1>1. PICK a \in Bad : \A b \in Bad : a <= b
  <2>1. Bad \subseteq Nat
    BY <1>0
  <2> HIDE DEF Bad
  <2> QED
    BY <2>1, LeastNat
<1>2. a \in 1..m /\ a \in 1..Len(s) /\ s[a] \in Seq(T)
  BY <1>0, ElementOfSeq
<1>3. CASE a = 1
  BY <1>2, <1>3 DEF Joins
<1>4. CASE a # 1
  <2>1. a - 1 \in 1..m /\ ~ (a <= a - 1)
    BY <1>0, <1>2, <1>4
  <2>2. g[a - 1] \in Seq(T)
    BY <1>1, <2>1
  <2>3. g[a] = g[a - 1] \o s[a]
    BY <1>2, <1>4 DEF Joins
  <2> QED
    BY <1>2, <2>2, <2>3, ConcatProperties
<1> QED
  BY <1>3, <1>4

LEMMA FlatExists ==
  ASSUME NEW T, NEW s \in Seq(Seq(T))
  PROVE  \E g : Flat(g, s)
<1>0. Len(s) \in Nat
  OBVIOUS
<1> DEFINE Upto(m) == \E g : g = [a \in 1..m |-> IF a = 1 THEN s[a] ELSE g[a - 1] \o s[a]]
           Bad == {m \in 0..Len(s) : ~Upto(m)}
<1>1. Bad = {}
  <2> SUFFICES ASSUME Bad # {} PROVE FALSE
    OBVIOUS
  <2>1. PICK m \in Bad : \A b \in Bad : m <= b
    <3> HIDE DEF Upto
    <3>1. Bad \subseteq Nat
      BY <1>0
    <3> HIDE DEF Bad
    <3> QED
      BY <3>1, LeastNat
  <2>2. m # 0
    <3>1. Upto(0)
      <4> DEFINE e == [a \in 1..0 |-> s[a]]
      <4>1. e = [a \in 1..0 |-> IF a = 1 THEN s[a] ELSE e[a - 1] \o s[a]]
        OBVIOUS
      <4> QED
        BY <4>1
    <3> QED
      BY <3>1
  <2>3. m - 1 \in 0..Len(s) /\ ~ (m <= m - 1) /\ m \in Nat /\ m >= 1
    BY <1>0, <2>2
  <2>4. Upto(m - 1)
    BY <2>1, <2>3, ZenonT(30)
  <2>5. PICK g : g = [a \in 1..m - 1 |-> IF a = 1 THEN s[a] ELSE g[a - 1] \o s[a]]
    BY <2>4
  <2> DEFINE e == [a \in 1..m |-> IF a = 1 THEN s[a] ELSE g[a - 1] \o s[a]]
             f == [a \in 1..m |-> IF a = 1 THEN s[a] ELSE e[a - 1] \o s[a]]
  <2>6. \A a \in 1..m - 1 : e[a] = g[a]
    <3> DEFINE d == [a \in 1..m - 1 |-> IF a = 1 THEN s[a] ELSE g[a - 1] \o s[a]]
    <3>1. \A a \in 1..m - 1 : e[a] = d[a]
      BY <2>3
    <3>2. d = g
      BY <2>5
    <3> HIDE DEF d
    <3> QED
      BY <3>1, <3>2
  <2>7. \A a \in 1..m : e[a] = f[a]
    <3> SUFFICES ASSUME NEW a \in 1..m PROVE e[a] = f[a]
      OBVIOUS
    <3>1. CASE a = 1
      BY <3>1
    <3>2. CASE a # 1
      <4>1. a - 1 \in 1..m - 1
        BY <3>2, <2>3
      <4>2. e[a - 1] = g[a - 1]
        BY <4>1, <2>6
      <4>3. e[a] = g[a - 1] \o s[a]
        BY <3>2
      <4>4. f[a] = e[a - 1] \o s[a]
        BY <3>2
      <4> QED
        BY <4>2, <4>3, <4>4
    <3> QED
      BY <3>1, <3>2
  <2>8. e = f
    BY <2>7, ZenonT(30)
  <2>9. Upto(m)
    BY <2>8
  <2> QED
    BY <2>9
<1>2. Upto(Len(s))
  <2> HIDE DEF Upto
  <2>1. Len(s) \in 0..Len(s)
    BY <1>0
  <2> QED
    BY <1>1, <2>1
<1> QED
  BY <1>2 DEF Flat

(* Flattening, and without the first of the sequences.                     *)
LEMMA FlattenIs ==
  ASSUME NEW T, NEW s \in Seq(Seq(T)), s # <<>>
  PROVE  \E g : Flat(g, s) /\ FlattenSeq(s) = g[Len(s)]
<1> DEFINE at == CHOOSE g : Flat(g, s)
<1>1. Flat(at, s)
  BY FlatExists
<1>2. Len(s) # 0
  BY EmptySeq
<1>3. FlattenSeq(s) = at[Len(s)]
  BY <1>2 DEF FlattenSeq, Flat
<1> QED
  BY <1>1, <1>3

LEMMA FlattenNone ==
  FlattenSeq(<<>>) = <<>>
BY DEF FlattenSeq

LEMMA FlattenType ==
  ASSUME NEW T, NEW s \in Seq(Seq(T))
  PROVE  FlattenSeq(s) \in Seq(T)
<1>1. CASE s = <<>>
  BY <1>1, FlattenNone, EmptySeq
<1>2. CASE s # <<>>
  <2>1. PICK g : Flat(g, s) /\ FlattenSeq(s) = g[Len(s)]
    BY <1>2, FlattenIs
  <2>2. Len(s) \in 0..Len(s) /\ Len(s) \in 1..Len(s)
    BY <1>2, EmptySeq
  <2>3. Joins(g, s, Len(s))
    BY <2>1, FlatJoins
  <2> QED
    BY <2>1, <2>2, <2>3, FlatTypes
<1> QED
  BY <1>1, <1>2

LEMMA FlattenHead ==
  ASSUME NEW T, NEW s \in Seq(Seq(T)), s # <<>>
  PROVE  /\ Head(s) \in Seq(T) /\ Tail(s) \in Seq(Seq(T)) /\ FlattenSeq(Tail(s)) \in Seq(T)
         /\ FlattenSeq(s) = Head(s) \o FlattenSeq(Tail(s))
<1>0. \A x, y, z \in Seq(T) : (x \o y) \o z = x \o (y \o z)
  <2> SUFFICES ASSUME NEW x \in Seq(T), NEW y \in Seq(T), NEW z \in Seq(T)
               PROVE  (x \o y) \o z = x \o (y \o z)
    OBVIOUS
  <2> QED
    BY ConcatAssociative, SMTT(30)
<1> DEFINE r == Tail(s)
           c == s[1]
<1>1. /\ Len(s) \in Nat /\ Len(s) > 0 /\ r \in Seq(Seq(T)) /\ Len(r) = Len(s) - 1
      /\ \A a \in 1..Len(r) : r[a] = s[a + 1]
      /\ Head(s) = c /\ c \in Seq(T)
  BY HeadTailProperties, EmptySeq
<1>2. FlattenSeq(r) \in Seq(T)
  BY <1>1, FlattenType
<1>3. PICK g : Flat(g, s) /\ FlattenSeq(s) = g[Len(s)]
  BY FlattenIs
<1>4. Joins(g, s, Len(s))
  BY <1>3, FlatJoins
<1>5. g[1] = c
  BY <1>1, <1>4 DEF Joins
<1> HIDE DEF r, c
<1>6. CASE r = <<>>
  <2>1. Len(s) = 1
    BY <1>1, <1>6, EmptySeq
  <2>2. c \o <<>> = c
    BY <1>1, ConcatEmptySeq
  <2> QED
    BY <1>1, <1>2, <1>3, <1>5, <1>6, <2>1, <2>2, FlattenNone DEF r
<1>7. CASE r # <<>>
  <2>1. PICK h : Flat(h, r) /\ FlattenSeq(r) = h[Len(r)]
    BY <1>1, <1>7, FlattenIs
  <2>2. Joins(h, r, Len(r))
    BY <2>1, FlatJoins
  <2>3. Len(r) \in 0..Len(r) /\ Len(r) \in 1..Len(r)
    BY <1>1, <1>7, EmptySeq
  <2>4. \A a \in 1..Len(r) : h[a] \in Seq(T)
    BY <1>1, <2>2, <2>3, FlatTypes
  <2> DEFINE Bad == {a \in 1..Len(r) : g[a + 1] # c \o h[a]}
  <2>5. Bad = {}
    <3> SUFFICES ASSUME Bad # {} PROVE FALSE
      OBVIOUS
    <3>1. PICK a \in Bad : \A b \in Bad : a <= b
      <4>1. Bad \subseteq Nat
        OBVIOUS
      <4> HIDE DEF Bad
      <4> QED
        BY <4>1, LeastNat
    <3>2. a \in 1..Len(r) /\ a + 1 \in 1..Len(s) /\ a + 1 # 1 /\ (a + 1) - 1 = a /\ a \in Nat
      BY <1>1
    <3>3. g[a + 1] = g[a] \o s[a + 1]
      BY <1>4, <3>2 DEF Joins
    <3>4. r[a] = s[a + 1] /\ r[a] \in Seq(T)
      BY <1>1, <3>2, ElementOfSeq
    <3>5. CASE a = 1
      <4>1. h[a] = r[a]
        BY <2>2, <3>2, <3>5 DEF Joins
      <4> QED
        BY <3>3, <3>4, <3>5, <4>1, <1>5
    <3>6. CASE a # 1
      <4>1. a - 1 \in 1..Len(r) /\ ~ (a <= a - 1) /\ (a - 1) + 1 = a
        BY <3>2, <3>6
      <4>2. g[a] = c \o h[a - 1]
        BY <3>1, <4>1
      <4>3. h[a] = h[a - 1] \o r[a]
        BY <2>2, <3>2, <3>6 DEF Joins
      <4>4. h[a - 1] \in Seq(T)
        BY <2>4, <4>1
      <4>5. (c \o h[a - 1]) \o r[a] = c \o (h[a - 1] \o r[a])
        <5>1. c \in Seq(T) /\ r[a] \in Seq(T)
          BY <1>1, <3>4
        <5> QED
          BY <5>1, <4>4, <1>0, Zenon
      <4> QED
        BY <3>3, <3>4, <4>2, <4>3, <4>5
    <3> QED
      BY <3>5, <3>6
  <2>6. Len(r) + 1 = Len(s)
    BY <1>1
  <2>7. g[Len(s)] = c \o h[Len(r)]
    <3>1. \A a \in 1..Len(r) : g[a + 1] = c \o h[a]
      BY <2>5
    <3> QED
      BY <2>3, <2>6, <3>1
  <2> QED
    BY <1>1, <1>2, <1>3, <2>1, <2>7 DEF r
<1> QED
  BY <1>6, <1>7

LEMMA FlattenOne ==
  ASSUME NEW T, NEW t \in Seq(T)
  PROVE  FlattenSeq(<<t>>) = t
<1>1. <<t>> \in Seq(Seq(T)) /\ <<t>> # <<>> /\ Head(<<t>>) = t /\ Tail(<<t>>) = <<>>
  OBVIOUS
<1>2. FlattenSeq(<<t>>) = t \o <<>>
  BY <1>1, FlattenHead, FlattenNone
<1> QED
  BY <1>2, ConcatEmptySeq

----------------------------------------------------------------------------
(* What scanf() finds.                                                     *)
LEMMA MinOfTwo ==
  ASSUME NEW a \in Nat, NEW b \in Nat
  PROVE  Min({a, b}) = IF a <= b THEN a ELSE b
<1> DEFINE m == IF a <= b THEN a ELSE b
<1>1. m \in {a, b} /\ \A y \in {a, b} : m <= y
  OBVIOUS
<1>2. \A x \in {a, b} : (\A y \in {a, b} : x <= y) => x = m
  OBVIOUS
<1> HIDE DEF m
<1> QED
  BY <1>1, <1>2 DEF Min, m

LEMMA MatchedNow ==
  ASSUME NEW text \in Seq(Int), NEW k \in Nat
  PROVE  /\ Matched(text, k) \in Nat /\ Matched(text, k) <= k /\ Matched(text, k) <= Len(text)
         /\ \A t \in 1..Matched(text, k) : text[t] \in Nat
         /\ Len(text) >= k /\ (\A t \in 1..k : text[t] \in Nat) => Matched(text, k) = k
<1> DEFINE l == Min({k, Len(text)})
           N == {n \in 0..l : \A t \in 1..n : IsNumber(text[t])}
<1>1. Len(text) \in Nat /\ l = (IF k <= Len(text) THEN k ELSE Len(text)) /\ l \in Nat
  BY MinOfTwo, LenProperties
<1> HIDE DEF l
<1>2. N \subseteq 0..l /\ 0 \in N
  BY <1>1
<1>3. Max(N) \in N /\ \A y \in N : Max(N) >= y
  <2> HIDE DEF N
  <2> QED
    BY <1>1, <1>2, GreatestNat
<1>4. Matched(text, k) = Max(N)
  BY DEF Matched, l
<1> DEFINE m == Max(N)
<1> HIDE DEF m
<1>5. m \in 0..l /\ \A t \in 1..m : IsNumber(text[t])
  BY <1>3 DEF m
<1>6. m \in Nat /\ m <= k /\ m <= Len(text)
  BY <1>1, <1>5
<1>7. \A t \in 1..m : text[t] \in Nat
  <2> SUFFICES ASSUME NEW t \in 1..m PROVE text[t] \in Nat
    OBVIOUS
  <2>1. t \in 1..Len(text)
    BY <1>1, <1>6
  <2>2. text[t] \in Int
    BY <2>1, ElementOfSeq
  <2> QED
    BY <1>5, <2>2 DEF IsNumber
<1>8. ASSUME Len(text) >= k, \A t \in 1..k : text[t] \in Nat PROVE m = k
  <2>1. k \in N
    BY <1>1, <1>8 DEF IsNumber
  <2> QED
    BY <2>1, <1>3, <1>6 DEF m
<1> QED
  BY <1>4, <1>6, <1>7, <1>8 DEF m

----------------------------------------------------------------------------
(* How a row grows: behind a multiple of Chunk there is room for Chunk     *)
(* values, and the values fill less of it.                                 *)
Grown(l, c) ==
  \/ c = 0 /\ l = 0
  \/ \E m \in Nat : m % Chunk = 0 /\ c = m + Chunk /\ m <= l /\ l < m + Chunk

LEMMA Multiples ==
  ASSUME NEW m \in Nat, NEW r \in 0..Chunk - 1, m % Chunk = 0
  PROVE  (m + r) % Chunk = r /\ (m + Chunk) % Chunk = 0
<1>1. Chunk \in Nat /\ Chunk > 1
  BY SizesAssumption
<1>2. \A a \in Int : a >= 1 => Chunk * a >= Chunk
  BY <1>1
<1>3. m = Chunk * (m \div Chunk) /\ m \div Chunk \in Nat
  BY <1>1
<1> DEFINE q == m \div Chunk
<1> HIDE DEF q
<1>4. ASSUME NEW e \in 0..Chunk - 1, NEW x \in Nat, NEW b \in Int, x = Chunk * b + e
      PROVE  x % Chunk = e
  <2> DEFINE d == x \div Chunk
             f == x % Chunk
  <2>1. d \in Int /\ f \in 0..Chunk - 1 /\ x = Chunk * d + f
    BY <1>1
  <2> HIDE DEF d, f
  <2>2. Chunk * d + f = Chunk * b + e /\ e \in Int /\ f \in Int
    BY <1>1, <1>4, <2>1
  <2>3. ~ (d - b >= 1)
    <3>1. Chunk * (d - b) = Chunk * d - Chunk * b /\ Chunk * d \in Int /\ Chunk * b \in Int
      BY <1>1, <2>1
    <3>2. d - b >= 1 => Chunk * (d - b) >= Chunk
      BY <1>2, <2>1
    <3> QED
      BY <1>1, <2>1, <2>2, <3>1, <3>2
  <2>4. ~ (b - d >= 1)
    <3>1. Chunk * (b - d) = Chunk * b - Chunk * d /\ Chunk * d \in Int /\ Chunk * b \in Int
      BY <1>1, <2>1
    <3>2. b - d >= 1 => Chunk * (b - d) >= Chunk
      BY <1>2, <2>1
    <3> QED
      BY <1>1, <2>1, <2>2, <3>1, <3>2
  <2>5. d = b
    BY <2>1, <2>3, <2>4
  <2>6. Chunk * d = Chunk * b /\ Chunk * b \in Int
    BY <1>1, <2>5
  <2>7. f = e
    BY <2>2, <2>6
  <2> QED
    BY <2>7 DEF f
<1>5. m + r = Chunk * q + r /\ m + Chunk = Chunk * (q + 1) + 0 /\ q \in Int
  BY <1>1, <1>3 DEF q
<1>6. m + r \in Nat /\ m + Chunk \in Nat /\ 0 \in 0..Chunk - 1 /\ q + 1 \in Int
  BY <1>1, <1>5
<1> QED
  BY <1>4, <1>5, <1>6

LEMMA GrowsFirst == Grown(1, Chunk)
<1>1. Chunk \in Nat /\ Chunk > 1 /\ 0 % Chunk = 0
  BY SizesAssumption
<1> QED
  BY <1>1 DEF Grown

LEMMA GrowsNext ==
  ASSUME NEW l \in Nat, NEW c \in Nat, c # 0, Grown(l, c)
  PROVE  /\ NeedsCells(l) => l + 1 = c /\ Grown(l + 1, l + 1 + Chunk)
         /\ ~NeedsCells(l) => Grown(l + 1, c)
<1>1. Chunk \in Nat /\ Chunk > 1
  BY SizesAssumption
<1>2. PICK m \in Nat : m % Chunk = 0 /\ c = m + Chunk /\ m <= l /\ l < m + Chunk
  BY DEF Grown
<1>3. l - m \in 0..Chunk - 1 /\ m + (l - m) = l
  BY <1>1, <1>2
<1>4. l % Chunk = l - m /\ (m + Chunk) % Chunk = 0
  BY <1>2, <1>3, Multiples
<1>5. ASSUME NeedsCells(l) PROVE l + 1 = c /\ Grown(l + 1, l + 1 + Chunk)
  <2>1. l - m = Chunk - 1
    BY <1>4, <1>5 DEF NeedsCells
  <2>2. l + 1 = m + Chunk /\ m + Chunk \in Nat
    BY <1>1, <1>2, <2>1
  <2> QED
    BY <1>1, <1>2, <1>4, <2>2 DEF Grown
<1>6. ASSUME ~NeedsCells(l) PROVE Grown(l + 1, c)
  <2>1. l - m # Chunk - 1
    BY <1>4, <1>6 DEF NeedsCells
  <2>2. l + 1 < m + Chunk /\ m <= l + 1
    BY <1>1, <1>2, <2>1
  <2> QED
    BY <1>1, <1>2, <2>2 DEF Grown
<1> QED
  BY <1>5, <1>6

----------------------------------------------------------------------------
(* The inductive invariant.                                                *)
Token == Nat \cup {Percent, Word}

(* The head of the file is read: nothing is allocated yet.                 *)
Before == {"opening", "banner", "comments", "scanning", "sized"}

Statuses == Before \cup {"reading", "loaded"} \cup Ended

Types ==
  /\ file \in Files
  /\ input \in Seq(Seq(Token))
  /\ size \in Matrix
  /\ i \in Nat /\ j \in Nat /\ line_count \in Nat /\ row \in Nat
  /\ eof \in BOOLEAN
  /\ status \in Statuses

NoRows == rows = None /\ cells = None

Built ==
  /\ rows \in [Rows -> Seq(Nat)]
  /\ cells \in [Rows -> Nat]
  /\ \A n \in Rows : Grown(Len(rows[n]), cells[n])

(* The rows that row has passed have no cells any more.                    *)
Memory ==
  /\ status \in Before => NoRows /\ line_count = 0 /\ row = 0
  /\ status = "reading" => row = 0
  /\ status \in {"reading", "loaded", "outside", "crashed"} => Built
  /\ status = "loaded" => row <= size[1] + 1 /\ \A n \in Rows : n < row => cells[n] = 0
  /\ status = "failed" => NoRows \/ Built
  /\ status = "done" => rows = None /\ cells \in [Rows -> Nat] /\ \A n \in Rows : cells[n] = 0

(* Each pair that was added is one the text has lost.                      *)
Total == Len(FlattenSeq(file.lines))

Counted ==
  /\ line_count <= Total + 1
  /\ ~eof \/ status \in Before => line_count + Len(Text) <= Total

Inv == Types /\ Memory /\ Counted

----------------------------------------------------------------------------
(* The text that is left.                                                  *)
LEMMA FileLines ==
  ASSUME NEW f \in Files
  PROVE  f.lines \in Seq(Seq(Token)) /\ Len(FlattenSeq(f.lines)) \in Nat
<1>1. f.lines \in Seq(Seq(Token))
  BY FilesAssumption DEF Token
<1> QED
  BY <1>1, FlattenType, LenProperties

LEMMA TextNow ==
  ASSUME NEW s \in Seq(Seq(Token))
  PROVE  FlattenSeq(s) \in Seq(Token) /\ FlattenSeq(s) \in Seq(Int) /\ Len(FlattenSeq(s)) \in Nat
<1>1. FlattenSeq(s) \in Seq(Token)
  BY FlattenType
<1>2. Token \subseteq Int
  BY DEF Token, Percent, Word
<1>3. FlattenSeq(s) \in Seq(Int)
  BY <1>1, <1>2, SeqMonotonic
<1> QED
  BY <1>1, <1>3, LenProperties

LEMMA TailText ==
  ASSUME NEW s \in Seq(Seq(Token)), s # <<>>
  PROVE  /\ Tail(s) \in Seq(Seq(Token))
         /\ Len(FlattenSeq(Tail(s))) <= Len(FlattenSeq(s))
<1>1. /\ Head(s) \in Seq(Token) /\ Tail(s) \in Seq(Seq(Token))
      /\ FlattenSeq(s) = Head(s) \o FlattenSeq(Tail(s))
      /\ FlattenSeq(Tail(s)) \in Seq(Token)
  BY FlattenHead
<1>2. Len(FlattenSeq(s)) = Len(Head(s)) + Len(FlattenSeq(Tail(s)))
  BY <1>1, ConcatProperties
<1> QED
  BY <1>1, <1>2, LenProperties

(* What fscanf() leaves of the text.                                       *)
LEMMA ConsumeNow ==
  ASSUME NEW T, NEW text \in Seq(T), NEW m \in 0..Len(text)
  PROVE  LET t == SubSeq(text, m + 1, Len(text)) IN
         /\ t \in Seq(T) /\ <<t>> \in Seq(Seq(T)) /\ FlattenSeq(<<t>>) = t
         /\ Len(t) = Len(text) - m
<1> DEFINE t == SubSeq(text, m + 1, Len(text))
<1>0. Len(text) \in Nat
  BY LenProperties
<1>1. t \in Seq(T) /\ Len(t) = Len(text) - m
  BY <1>0, SubSeqProperties
<1> HIDE DEF t
<1>2. <<t>> \in Seq(Seq(T)) /\ FlattenSeq(<<t>>) = t
  BY <1>1, FlattenOne
<1> QED
  BY <1>1, <1>2 DEF t

(* What scanf() returns: the end of the file is that of the text.          *)
LEMMA RetvalNow ==
  ASSUME NEW text \in Seq(Int), NEW k \in Nat \ {0}
  PROVE  /\ Retval(text, k) = EOF <=> text = <<>>
         /\ Retval(text, k) # EOF => Retval(text, k) = Matched(text, k)
         /\ Matched(text, k) \in 0..Len(text)
         /\ \A t \in 1..k : t <= Retval(text, k) => text[t] \in Nat
         /\ Retval(text, k) \in -1..k
<1>1. /\ Matched(text, k) \in Nat /\ Matched(text, k) <= k /\ Matched(text, k) <= Len(text)
      /\ \A t \in 1..Matched(text, k) : text[t] \in Nat
  BY MatchedNow
<1>2. Len(text) \in Nat
  BY LenProperties
<1> QED
  BY <1>1, <1>2 DEF Retval, EOF

(* A row gets a value, or the program ends.                                *)
LEMMA AddEdge ==
  ASSUME Types, Built, status = "reading", NEW n \in Nat, NEW m \in Nat,
         add_edge(n, m), UNCHANGED <<size, failing>>
  PROVE  /\ Built'
         /\ status' \in {"reading", "failed", "outside", "crashed"}
         /\ status' = "outside" => n \notin Rows
<1>0. /\ DOMAIN rows = Rows /\ Rows' = Rows /\ \A a \in Rows : rows[a] \in Seq(Nat) /\ cells[a] \in Nat
      /\ \A a \in Rows : Len(rows[a]) \in Nat
      /\ Chunk \in Nat /\ Chunk > 1
  BY SizesAssumption, LenProperties DEF Built, Rows
<1>1. CASE n \notin Rows
  <2>1. status' = "outside" /\ rows' = rows /\ cells' = cells
    BY <1>0, <1>1 DEF add_edge, Goto
  <2> QED
    BY <1>0, <1>1, <2>1 DEF Built
<1>2. CASE n \in Rows /\ cells[n] = 0
  <2>0. NewRow(n, m)
    BY <1>0, <1>2 DEF add_edge
  <2>1. CASE failing \in {"row", "cells"}
    <3>1. status' = "failed" /\ rows' = rows /\ cells' = cells
      BY <2>0, <2>1 DEF NewRow, Goto
    <3> QED
      BY <1>0, <3>1 DEF Built
  <2>2. CASE failing \notin {"row", "cells"}
    <3>1. /\ rows' = [rows EXCEPT ![n] = <<m>>] /\ cells' = [cells EXCEPT ![n] = Chunk]
          /\ status' = status
      BY <2>0, <2>2 DEF NewRow
    <3>2. <<m>> \in Seq(Nat) /\ Len(<<m>>) = 1
      OBVIOUS
    <3>3. rows' \in [Rows -> Seq(Nat)] /\ cells' \in [Rows -> Nat]
      BY <1>0, <3>1, <3>2 DEF Built
    <3>4. \A a \in Rows : Grown(Len(rows'[a]), cells'[a])
      <4> SUFFICES ASSUME NEW a \in Rows PROVE Grown(Len(rows'[a]), cells'[a])
        OBVIOUS
      <4>1. CASE a = n
        <5>1. rows'[a] = <<m>> /\ cells'[a] = Chunk
          BY <1>0, <1>2, <3>1, <4>1 DEF Built
        <5> QED
          BY <3>2, <5>1, GrowsFirst
      <4>2. CASE a # n
        <5>1. rows'[a] = rows[a] /\ cells'[a] = cells[a]
          BY <1>0, <3>1, <4>2 DEF Built
        <5> QED
          BY <5>1 DEF Built
      <4> QED
        BY <4>1, <4>2
    <3>5. Built'
      BY <1>0, <3>3, <3>4 DEF Built
    <3> QED
      BY <3>1, <3>5
  <2> QED
    BY <2>1, <2>2
<1>3. CASE n \in Rows /\ cells[n] # 0
  <2> DEFINE s == Len(rows[n])
  <2>0. AppendToRow(n, m)
    BY <1>0, <1>3 DEF add_edge
  <2>1. /\ s \in Nat /\ cells[n] \in Nat /\ Grown(s, cells[n])
    BY <1>0, <1>3 DEF Built
  <2>2. /\ NeedsCells(s) => s + 1 = cells[n] /\ Grown(s + 1, s + 1 + Chunk)
        /\ ~NeedsCells(s) => Grown(s + 1, cells[n])
    <3> HIDE DEF s
    <3> QED
      BY <1>3, <2>1, GrowsNext
  <2>3. CASE NeedsCells(s) /\ failing = "realloc"
    <3>1. status' = "crashed" /\ rows' = rows /\ cells' = cells
      BY <2>0, <2>3 DEF AppendToRow, Goto
    <3>2. Built'
      BY <1>0, <3>1 DEF Built
    <3> QED
      BY <3>1, <3>2
  <2>4. CASE ~(NeedsCells(s) /\ failing = "realloc")
    <3> DEFINE c == IF NeedsCells(s) THEN s + 1 + Chunk ELSE cells[n]
               r == Append(rows[n], m)
    <3>1. /\ rows' = [rows EXCEPT ![n] = r] /\ cells' = [cells EXCEPT ![n] = c]
          /\ status' = status
      BY <2>0, <2>4 DEF AppendToRow
    <3>2. r \in Seq(Nat) /\ Len(r) = s + 1
      BY <1>0, <1>3, AppendProperties
    <3>3. c \in Nat
      BY <1>0, <2>1
    <3>4. Grown(s + 1, c)
      BY <2>2
    <3> HIDE DEF c, r
    <3>5. rows' \in [Rows -> Seq(Nat)] /\ cells' \in [Rows -> Nat]
      BY <1>0, <3>1, <3>2, <3>3 DEF Built
    <3>6. \A a \in Rows : Grown(Len(rows'[a]), cells'[a])
      <4> SUFFICES ASSUME NEW a \in Rows PROVE Grown(Len(rows'[a]), cells'[a])
        OBVIOUS
      <4>1. CASE a = n
        <5>1. rows'[a] = r /\ cells'[a] = c
          BY <1>0, <1>3, <3>1, <4>1 DEF Built
        <5> QED
          BY <3>2, <3>4, <5>1
      <4>2. CASE a # n
        <5>1. rows'[a] = rows[a] /\ cells'[a] = cells[a]
          BY <1>0, <3>1, <4>2 DEF Built
        <5> QED
          BY <5>1 DEF Built
      <4> QED
        BY <4>1, <4>2
    <3>7. Built'
      BY <1>0, <3>5, <3>6 DEF Built
    <3> QED
      BY <3>1, <3>7
  <2> QED
    BY <2>3, <2>4
<1> QED
  BY <1>1, <1>2, <1>3

----------------------------------------------------------------------------
(* What the steps do to the text.                                          *)
LEMMA TextTypes ==
  Types => /\ Text \in Seq(Token) /\ Text \in Seq(Int) /\ Len(Text) \in Nat
           /\ Total \in Nat
BY TextNow, FileLines DEF Types, Text, Total

LEMMA ConsumeText ==
  ASSUME Types, NEW k \in Nat \ {0}, Consume(k)
  PROVE  LET m == Matched(Text, k) IN
         /\ m \in 0..Len(Text)
         /\ Text' = SubSeq(Text, m + 1, Len(Text)) /\ Len(Text') = Len(Text) - m
         /\ input' \in Seq(Seq(Token)) /\ eof' \in BOOLEAN
<1> DEFINE m == Matched(Text, k)
<1>1. Text \in Seq(Token) /\ Text \in Seq(Int) /\ Len(Text) \in Nat
  BY TextTypes
<1>2. m \in 0..Len(Text)
  BY <1>1, RetvalNow
<1>3. input' = <<SubSeq(Text, m + 1, Len(Text))>> /\ eof' = (eof \/ MeetsEnd(Text, k, file.newline))
  BY DEF Consume
<1> HIDE DEF m
<1>4. /\ input' \in Seq(Seq(Token)) /\ FlattenSeq(input') = SubSeq(Text, m + 1, Len(Text))
      /\ Len(FlattenSeq(input')) = Len(Text) - m
  BY <1>1, <1>2, <1>3, ConsumeNow
<1>5. eof' \in BOOLEAN
  BY <1>3 DEF Types, MeetsEnd
<1>6. Text' = FlattenSeq(input')
  BY DEF Text
<1> QED
  BY <1>2, <1>4, <1>5, <1>6 DEF m

LEMMA PairRead ==
  ASSUME Types, ReadPair
  PROVE  /\ Len(Text) >= 2 /\ Text[1] \in Nat /\ Text[2] \in Nat
         /\ i' = Text[1] /\ j' = Text[2] /\ add_edge(Text[1], Text[2])
         /\ Text' = SubSeq(Text, 3, Len(Text)) /\ Len(Text') = Len(Text) - 2
         /\ input' \in Seq(Seq(Token)) /\ eof' \in BOOLEAN
         /\ line_count' = line_count + 1 /\ UNCHANGED <<file, failing, size, row>>
<1>1. Text \in Seq(Int) /\ Len(Text) \in Nat
  BY TextTypes
<1>2. /\ Retval(Text, 2) = 2 /\ Consume(2)
      /\ i' = Text[1] /\ j' = Text[2] /\ add_edge(Text[1], Text[2])
      /\ line_count' = line_count + 1 /\ UNCHANGED <<file, failing, size, row>>
  BY DEF ReadPair, Pair
<1>3. Matched(Text, 2) = 2 /\ 2 \in 0..Len(Text) /\ Text[1] \in Nat /\ Text[2] \in Nat
  BY <1>1, <1>2, RetvalNow DEF EOF
<1>4. /\ Text' = SubSeq(Text, 3, Len(Text)) /\ Len(Text') = Len(Text) - 2
      /\ input' \in Seq(Seq(Token)) /\ eof' \in BOOLEAN
  <2> DEFINE m == Matched(Text, 2)
  <2>1. /\ Text' = SubSeq(Text, m + 1, Len(Text)) /\ Len(Text') = Len(Text) - m
        /\ input' \in Seq(Seq(Token)) /\ eof' \in BOOLEAN
    BY <1>2, ConsumeText
  <2>2. m = 2
    BY <1>3
  <2> HIDE DEF m
  <2> QED
    BY <2>1, <2>2
<1> QED
  BY <1>1, <1>2, <1>3, <1>4

LEMMA EndRead ==
  ASSUME Types, ReadEnd
  PROVE  /\ Text = <<>> /\ eof' = TRUE
         /\ i' \in Nat /\ j' \in Nat /\ add_edge(i', j')
         /\ line_count' = line_count + 1
         /\ UNCHANGED <<file, failing, input, size, row>>
<1>1. Text = <<>>
  BY TextTypes, RetvalNow DEF ReadEnd
<1>2. /\ eof' = TRUE /\ line_count' = line_count + 1
      /\ UNCHANGED <<file, failing, input, size, row>>
  BY DEF ReadEnd, EndNoticed
<1>3. PICK a, b \in Junk : i' = a /\ j' = b /\ add_edge(a, b)
  BY DEF ReadEnd
<1>4. a \in Nat /\ b \in Nat
  BY SizesAssumption
<1> QED
  BY <1>1, <1>2, <1>3, <1>4

(* The three numbers of the size.                                          *)
LEMMA SizeRead ==
  ASSUME Types, NEW text \in Seq(Int), NEW got \in -1..3,
         \A k \in 1..3 : k <= got => text[k] \in Nat,
         size' = [k \in 1..3 |-> IF k <= got THEN text[k] ELSE size[k]]
  PROVE  size' \in Matrix
<1>1. \A k \in 1..3 : size[k] \in Nat
  BY DEF Types, Matrix
<1>2. \A k \in 1..3 : (IF k <= got THEN text[k] ELSE size[k]) \in Nat
  BY <1>1
<1> QED
  BY <1>2 DEF Matrix

LEMMA SizeLineRead ==
  ASSUME Types, ReadSizeLine
  PROVE  LET line == Head(input)
             got  == Matched(line, 3) IN
         /\ input # <<>> /\ line \in Seq(Int) /\ got \in 0..3
         /\ size' = [k \in 1..3 |-> IF k <= got THEN line[k] ELSE size[k]] /\ size' \in Matrix
         /\ status' = IF got = 3 THEN "sized" ELSE "scanning"
         /\ input' = Tail(input) /\ input' \in Seq(Seq(Token))
         /\ Len(Text') <= Len(Text) /\ eof' \in BOOLEAN
         /\ UNCHANGED <<file, failing, graph>>
<1> DEFINE line == Head(input)
           got  == Matched(line, 3)
<1>1. /\ input # <<>> /\ input' = Tail(input) /\ eof' = AtEnd(Tail(input))
      /\ size' = [k \in 1..3 |-> IF k <= got THEN line[k] ELSE size[k]]
      /\ status' = IF got = 3 THEN "sized" ELSE "scanning"
      /\ UNCHANGED <<file, failing, graph>>
  BY DEF ReadSizeLine, Goto
<1>2. input \in Seq(Seq(Token))
  BY DEF Types
<1>3. line \in Seq(Token) /\ Tail(input) \in Seq(Seq(Token))
  BY <1>1, <1>2, FlattenHead
<1>4. line \in Seq(Int)
  <2>1. Token \subseteq Int
    BY DEF Token, Percent, Word
  <2> QED
    BY <1>3, <2>1, SeqMonotonic
<1>5. Len(FlattenSeq(Tail(input))) <= Len(FlattenSeq(input))
  BY <1>1, <1>2, TailText
<1>6. Len(Text') <= Len(Text)
  BY <1>1, <1>5 DEF Text
<1> HIDE DEF line
<1>7. got \in Nat /\ got <= 3 /\ \A t \in 1..got : line[t] \in Nat
  BY <1>4, MatchedNow
<1> HIDE DEF got
<1>8. size' \in Matrix
  <2>1. got \in -1..3 /\ \A k \in 1..3 : k <= got => line[k] \in Nat
    BY <1>7
  <2> QED
    BY <1>1, <1>4, <2>1, SizeRead
<1>9. eof' \in BOOLEAN
  BY <1>1 DEF AtEnd
<1>10. got \in 0..3
  BY <1>7
<1> QED
  BY <1>1, <1>3, <1>4, <1>6, <1>8, <1>9, <1>10 DEF line, got

LEMMA SizesScanned ==
  ASSUME Types, ScanSizes
  PROVE  LET got == Retval(Text, 3) IN
         /\ got \in -1..3
         /\ size' = [k \in 1..3 |-> IF k <= got THEN Text[k] ELSE size[k]] /\ size' \in Matrix
         /\ got = EOF => status' = "failed"
         /\ got # EOF => /\ got = Matched(Text, 3)
                         /\ status' = IF got = 3 THEN "sized" ELSE "scanning"
         /\ Consume(3) /\ UNCHANGED <<file, failing, graph>>
<1> DEFINE got == Retval(Text, 3)
<1>1. /\ size' = [k \in 1..3 |-> IF k <= got THEN Text[k] ELSE size[k]]
      /\ status' = IF got = EOF THEN "failed" ELSE IF got = 3 THEN "sized" ELSE "scanning"
      /\ Consume(3) /\ UNCHANGED <<file, failing, graph>>
  BY DEF ScanSizes, Goto, AtEOF
<1>2. Text \in Seq(Int)
  BY TextTypes
<1>3. /\ got \in -1..3 /\ \A k \in 1..3 : k <= got => Text[k] \in Nat
      /\ got # EOF => got = Matched(Text, 3)
  BY <1>2, RetvalNow
<1> HIDE DEF got
<1>4. size' \in Matrix
  BY <1>1, <1>2, <1>3, SizeRead
<1> QED
  BY <1>1, <1>3, <1>4 DEF got

----------------------------------------------------------------------------
(* The steps keep the invariant: those of the head of the file, where      *)
(* nothing is allocated.                                                   *)
LEMMA HeadStep ==
  ASSUME Inv, status \in Before, status' \in Before \cup {"failed"},
         UNCHANGED <<file, failing, graph>>,
         size' \in Matrix, input' \in Seq(Seq(Token)), eof' \in BOOLEAN,
         Len(Text') <= Len(Text)
  PROVE  Inv'
<1>1. Types'
  BY DEF Inv, Types, graph, Before, Statuses, Ended
<1>2. Memory'
  BY DEF Inv, Memory, graph, Before, NoRows
<1>3. Counted'
  <2>1. Total' = Total
    BY DEF Total
  <2>2. Len(Text) \in Nat /\ Len(Text') \in Nat /\ Total \in Nat /\ line_count \in Nat
    BY <1>1, TextTypes, TextNow DEF Inv, Types, Text
  <2>3. line_count' = line_count
    BY DEF graph
  <2> QED
    BY <2>1, <2>2, <2>3 DEF Inv, Counted
<1> QED
  BY <1>1, <1>2, <1>3 DEF Inv

LEMMA HeadKeeps ==
  ASSUME Inv, Open \/ ReadBanner \/ SkipComment \/ ReadSizeLine \/ OnlyComments \/ ScanSizes
  PROVE  Inv'
<1>0. Types /\ input \in Seq(Seq(Token)) /\ size \in Matrix /\ eof \in BOOLEAN
  BY DEF Inv, Types
<1>1. Len(Text) \in Nat /\ (input' = input => Text' = Text)
  BY <1>0, TextTypes DEF Text
<1>2. CASE Open
  <2>1. status \in Before /\ status' \in Before \cup {"failed"}
    BY <1>2 DEF Open, Goto, Before
  <2>2. UNCHANGED <<file, failing, input, eof, size, graph>>
    BY <1>2 DEF Open
  <2> QED
    BY <1>0, <1>1, <2>1, <2>2, HeadStep
<1>3. CASE ReadBanner
  <2>1. status \in Before /\ status' \in Before \cup {"failed"}
    BY <1>3 DEF ReadBanner, Goto, Before
  <2>2. UNCHANGED <<file, failing, input, size, graph>> /\ eof' \in BOOLEAN
    BY <1>3 DEF ReadBanner, AtEnd
  <2> QED
    BY <1>0, <1>1, <2>1, <2>2, HeadStep
<1>4. CASE SkipComment
  <2>1. status \in Before /\ status' \in Before \cup {"failed"}
    BY <1>4 DEF SkipComment, Before
  <2>2. UNCHANGED <<file, failing, size, graph>> /\ eof' \in BOOLEAN
    BY <1>4 DEF SkipComment, AtEnd
  <2>3. input # <<>> /\ input' = Tail(input)
    BY <1>4 DEF SkipComment
  <2>4. input' \in Seq(Seq(Token)) /\ Len(FlattenSeq(input')) <= Len(FlattenSeq(input))
    BY <1>0, <2>3, TailText
  <2>5. Len(Text') <= Len(Text)
    BY <2>4 DEF Text
  <2> QED
    BY <1>0, <2>1, <2>2, <2>4, <2>5, HeadStep
<1>5. CASE ReadSizeLine
  <2>1. status \in Before /\ status' \in Before \cup {"failed"}
    BY <1>0, <1>5, SizeLineRead DEF ReadSizeLine, Before
  <2>2. /\ UNCHANGED <<file, failing, graph>> /\ eof' \in BOOLEAN /\ size' \in Matrix
        /\ input' \in Seq(Seq(Token)) /\ Len(Text') <= Len(Text)
    BY <1>0, <1>5, SizeLineRead
  <2> QED
    BY <2>1, <2>2, HeadStep
<1>6. CASE OnlyComments
  <2>1. status \in Before /\ status' \in Before \cup {"failed"}
    BY <1>6 DEF OnlyComments, Goto, Before
  <2>2. UNCHANGED <<file, failing, input, size, graph>> /\ eof' \in BOOLEAN
    BY <1>6 DEF OnlyComments
  <2> QED
    BY <1>0, <1>1, <2>1, <2>2, HeadStep
<1>7. CASE ScanSizes
  <2>1. status \in Before /\ status' \in Before \cup {"failed"}
    BY <1>0, <1>7, SizesScanned DEF ScanSizes, Before
  <2>2. UNCHANGED <<file, failing, graph>> /\ size' \in Matrix /\ Consume(3)
    BY <1>0, <1>7, SizesScanned
  <2>3. Len(Text') <= Len(Text) /\ input' \in Seq(Seq(Token)) /\ eof' \in BOOLEAN
    <3> DEFINE m == Matched(Text, 3)
    <3>1. /\ m \in 0..Len(Text) /\ Len(Text') = Len(Text) - m
          /\ input' \in Seq(Seq(Token)) /\ eof' \in BOOLEAN
      BY <1>0, <2>2, ConsumeText
    <3> HIDE DEF m
    <3> QED
      BY <1>1, <3>1
  <2> QED
    BY <2>1, <2>2, <2>3, HeadStep
<1> QED
  BY <1>2, <1>3, <1>4, <1>5, <1>6, <1>7

(* Those of the rows and their links.                                      *)
LEMMA AllocateRowsKeeps ==
  ASSUME Inv, AllocateRows
  PROVE  Inv'
<1>1. /\ status = "sized" /\ status' \in {"failed", "reading"}
      /\ UNCHANGED <<file, failing, input, eof, size, i, j, line_count, row>>
  BY DEF AllocateRows, Goto
<1>2. Types'
  BY <1>1 DEF Inv, Types, Statuses, Before, Ended
<1>3. Memory'
  <2>1. NoRows /\ line_count = 0 /\ row = 0
    BY <1>1 DEF Inv, Memory, Before
  <2>2. CASE status' = "failed"
    <3>1. rows' = rows /\ cells' = cells
      BY <2>2 DEF AllocateRows, Goto
    <3> QED
      BY <2>1, <2>2, <3>1 DEF Memory, NoRows, Before
  <2>3. CASE status' = "reading"
    <3>1. rows' = [n \in Rows |-> <<>>] /\ cells' = [n \in Rows |-> 0]
      BY <2>3 DEF AllocateRows, Goto
    <3>2. Rows' = Rows /\ <<>> \in Seq(Nat) /\ Len(<<>>) = 0
      BY <1>1 DEF Rows
    <3>3. Built'
      BY <3>1, <3>2 DEF Built, Grown
    <3> QED
      BY <1>1, <2>1, <2>3, <3>3 DEF Memory, Before
  <2> QED
    BY <1>1, <2>2, <2>3
<1>4. Counted'
  <2>1. Total' = Total /\ Text' = Text
    BY <1>1 DEF Total, Text
  <2> QED
    BY <1>1, <2>1 DEF Inv, Counted, Before
<1> QED
  BY <1>2, <1>3, <1>4 DEF Inv

LEMMA ReadKeeps ==
  ASSUME Inv, Read
  PROVE  Inv'
<1>0. Types /\ Built /\ status = "reading" /\ row = 0 /\ line_count \in Nat
  BY DEF Inv, Types, Memory, Read
<1>1. Len(Text) \in Nat /\ Total \in Nat /\ line_count <= Total + 1
  BY <1>0, TextTypes DEF Inv, Counted
<1>2. CASE eof
  <2>1. status' = "loaded" /\ UNCHANGED <<file, failing, input, eof, size, graph>>
    BY <1>2 DEF Read, ReadingDone, Goto
  <2>2. Rows' = Rows /\ Text' = Text /\ Total' = Total
    BY <2>1 DEF Rows, Text, Total
  <2>3. Types'
    BY <1>0, <2>1 DEF Types, graph, Statuses, Before, Ended
  <2>4. Memory'
    <3>1. Built' /\ row' = 0 /\ \A n \in Rows : ~ (n < 0)
      BY <1>0, <2>1, <2>2 DEF Built, graph, Rows
    <3>2. size[1] \in Nat /\ size' = size
      BY <1>0, <2>1 DEF Types, Matrix
    <3> QED
      BY <2>1, <2>2, <3>1, <3>2 DEF Memory, Before
  <2>5. Counted'
    BY <1>2, <2>1, <2>2 DEF Inv, Counted, Before, graph
  <2> QED
    BY <2>3, <2>4, <2>5 DEF Inv
<1>3. CASE ~eof /\ ReadPair
  <2>1. /\ Len(Text) >= 2 /\ Text[1] \in Nat /\ Text[2] \in Nat
        /\ i' = Text[1] /\ j' = Text[2] /\ add_edge(Text[1], Text[2])
        /\ Len(Text') = Len(Text) - 2
        /\ input' \in Seq(Seq(Token)) /\ eof' \in BOOLEAN
        /\ line_count' = line_count + 1 /\ UNCHANGED <<file, failing, size, row>>
    BY <1>0, <1>3, PairRead
  <2>2. Built' /\ status' \in {"reading", "failed", "outside", "crashed"}
    BY <1>0, <2>1, AddEdge
  <2>3. Types'
    BY <1>0, <2>1, <2>2 DEF Types, Statuses, Before, Ended
  <2>4. Memory'
    BY <1>0, <2>1, <2>2 DEF Memory, Before
  <2>5. Counted'
    <3>1. line_count + Len(Text) <= Total /\ Total' = Total
      BY <1>3, <2>1 DEF Inv, Counted, Total
    <3>2. line_count' + Len(Text') <= Total'
      BY <1>0, <1>1, <2>1, <3>1
    <3>3. line_count' <= Total' + 1
      BY <1>0, <1>1, <2>1, <3>1
    <3> QED
      BY <3>2, <3>3 DEF Counted
  <2> QED
    BY <2>3, <2>4, <2>5 DEF Inv
<1>4. CASE ~eof /\ ReadEnd
  <2>1. /\ eof' = TRUE
        /\ i' \in Nat /\ j' \in Nat /\ add_edge(i', j')
        /\ line_count' = line_count + 1
        /\ UNCHANGED <<file, failing, input, size, row>>
    BY <1>0, <1>4, EndRead
  <2>2. Built' /\ status' \in {"reading", "failed", "outside", "crashed"}
    BY <1>0, <2>1, AddEdge
  <2>3. Types'
    BY <1>0, <2>1, <2>2 DEF Types, Statuses, Before, Ended
  <2>4. Memory'
    BY <1>0, <2>1, <2>2 DEF Memory, Before
  <2>5. Counted'
    <3>1. line_count + Len(Text) <= Total /\ Total' = Total
      BY <1>4, <2>1 DEF Inv, Counted, Total
    <3>2. line_count' <= Total' + 1
      BY <1>0, <1>1, <2>1, <3>1
    <3>3. status' \notin Before
      BY <2>2 DEF Before
    <3> QED
      BY <2>1, <3>2, <3>3 DEF Counted
  <2> QED
    BY <2>3, <2>4, <2>5 DEF Inv
<1>5. CASE ~eof /\ ReadBad
  <2>1. status' = "failed" /\ Consume(2) /\ UNCHANGED <<file, failing, size, graph>>
    BY <1>5 DEF ReadBad, Goto
  <2>2. Len(Text') <= Len(Text) /\ input' \in Seq(Seq(Token)) /\ eof' \in BOOLEAN
                                /\ Len(Text') \in Int
    <3> DEFINE m == Matched(Text, 2)
    <3>1. /\ m \in 0..Len(Text) /\ Len(Text') = Len(Text) - m
          /\ input' \in Seq(Seq(Token)) /\ eof' \in BOOLEAN
      BY <1>0, <2>1, ConsumeText
    <3> HIDE DEF m
    <3> QED
      BY <1>1, <3>1
  <2>3. Types'
    BY <1>0, <2>1, <2>2 DEF Types, graph, Statuses, Ended
  <2>4. Memory'
    <3>1. Built'
      BY <1>0, <2>1 DEF Built, graph, Rows
    <3> QED
      BY <2>1, <3>1 DEF Memory, Before
  <2>5. Counted'
    <3>1. line_count + Len(Text) <= Total /\ Total' = Total /\ line_count' = line_count
      BY <1>5, <2>1 DEF Inv, Counted, Total, graph
    <3> QED
      BY <1>0, <1>1, <2>2, <3>1 DEF Counted
  <2> QED
    BY <2>3, <2>4, <2>5 DEF Inv
<1> QED
  BY <1>2, <1>3, <1>4, <1>5 DEF Read

LEMMA FreeRowKeeps ==
  ASSUME Inv, FreeRow
  PROVE  Inv'
<1>1. /\ status = "loaded" /\ ~ (row >= size[1] + 1)
      /\ rows' = [rows EXCEPT ![row] = <<>>] /\ cells' = [cells EXCEPT ![row] = 0]
      /\ row' = row + 1
      /\ UNCHANGED <<file, failing, input, eof, size, i, j, line_count, status>>
  BY DEF FreeRow, NoMoreRows
<1>2. /\ Built /\ row \in Nat /\ size[1] \in Nat /\ \A n \in Rows : n < row => cells[n] = 0
      /\ Rows' = Rows /\ Rows \subseteq Nat
  BY <1>1 DEF Inv, Memory, Types, Matrix, Rows
<1>3. Types'
  BY <1>1, <1>2 DEF Inv, Types
<1>4. Memory'
  <2>1. <<>> \in Seq(Nat) /\ Len(<<>>) = 0 /\ Grown(0, 0)
    BY DEF Grown
  <2>2. rows' \in [Rows -> Seq(Nat)] /\ cells' \in [Rows -> Nat]
    BY <1>1, <1>2, <2>1 DEF Built
  <2>3. ASSUME NEW n \in Rows
        PROVE  Grown(Len(rows'[n]), cells'[n]) /\ (n < row + 1 => cells'[n] = 0)
    <3>1. CASE n = row
      <4>1. rows'[n] = <<>> /\ cells'[n] = 0
        BY <1>1, <1>2, <3>1 DEF Built
      <4> QED
        BY <2>1, <4>1
    <3>2. CASE n # row
      <4>1. rows'[n] = rows[n] /\ cells'[n] = cells[n]
        BY <1>1, <1>2, <3>2 DEF Built
      <4>2. n \in Nat /\ (n < row + 1 => n < row)
        BY <1>2, <3>2
      <4> QED
        BY <1>2, <4>1, <4>2 DEF Built
    <3> QED
      BY <3>1, <3>2
  <2>4. Built'
    BY <1>2, <2>2, <2>3 DEF Built
  <2>5. row' <= size'[1] + 1 /\ \A n \in Rows' : n < row' => cells'[n] = 0
    BY <1>1, <1>2, <2>3
  <2> QED
    BY <1>1, <2>4, <2>5 DEF Memory, Before
<1>5. Counted'
  <2>1. Total' = Total /\ Text' = Text
    BY <1>1 DEF Total, Text
  <2> QED
    BY <1>1, <2>1 DEF Inv, Counted
<1> QED
  BY <1>3, <1>4, <1>5 DEF Inv

LEMMA FreeRowsKeeps ==
  ASSUME Inv, FreeRows
  PROVE  Inv'
<1>1. /\ status = "loaded" /\ row >= size[1] + 1
      /\ rows' = None /\ status' = "done"
      /\ UNCHANGED <<file, failing, input, eof, size, cells, i, j, line_count, row>>
  BY DEF FreeRows, NoMoreRows, Goto
<1>2. /\ Built /\ row \in Nat /\ size[1] \in Nat /\ \A n \in Rows : n < row => cells[n] = 0
      /\ Rows' = Rows
  BY <1>1 DEF Inv, Memory, Types, Matrix, Rows
<1>3. Types'
  BY <1>1, <1>2 DEF Inv, Types, Statuses, Ended
<1>4. Memory'
  <2>1. \A n \in Rows : n < row
    BY <1>1, <1>2 DEF Rows
  <2>2. cells' \in [Rows -> Nat] /\ \A n \in Rows : cells'[n] = 0
    BY <1>1, <1>2, <2>1 DEF Built
  <2> QED
    BY <1>1, <1>2, <2>2 DEF Memory, Before
<1>5. Counted'
  <2>1. Total' = Total /\ Text' = Text
    BY <1>1 DEF Total, Text
  <2> QED
    BY <1>1, <2>1 DEF Inv, Counted, Before
<1> QED
  BY <1>3, <1>4, <1>5 DEF Inv

LEMMA InitHolds == Init => Inv
<1> SUFFICES ASSUME Init PROVE Inv
  OBVIOUS
<1>1. input = file.lines /\ file \in Files /\ status = "opening" /\ line_count = 0
  BY DEF Init
<1>2. Types
  <2>1. input \in Seq(Seq(Token))
    BY <1>1, FileLines
  <2>2. size \in Matrix
    BY DEF Init, Matrix
  <2> QED
    BY <2>1, <2>2 DEF Init, Types, Statuses, Before
<1>3. Memory
  BY DEF Init, Memory, NoRows, Before
<1>4. Counted
  <2>1. Total = Len(Text) /\ Total \in Nat
    BY <1>1, FileLines DEF Total, Text
  <2> QED
    BY <1>1, <2>1 DEF Counted
<1> QED
  BY <1>1, <1>2, <1>3, <1>4 DEF Inv

LEMMA NextKeeps == Inv /\ [Next]_vars => Inv'
<1> SUFFICES ASSUME Inv, [Next]_vars PROVE Inv'
  OBVIOUS
<1>1. CASE Next
  BY <1>1, HeadKeeps, AllocateRowsKeeps, ReadKeeps, FreeRowKeeps, FreeRowsKeeps DEF Next
<1>2. CASE UNCHANGED vars
  <2>1. Rows' = Rows /\ Text' = Text /\ Total' = Total
    BY <1>2 DEF vars, Rows, Text, Total
  <2>2. Types' /\ Counted'
    BY <1>2, <2>1 DEF vars, Inv, Types, Counted
  <2>3. Memory'
    BY <1>2, <2>1 DEF vars, Inv, Memory, NoRows, Built
  <2> QED
    BY <2>2, <2>3 DEF Inv
<1> QED
  BY <1>1, <1>2

----------------------------------------------------------------------------
(* The lines of a file from one on.                                        *)
LEMMA FromPlace ==
  ASSUME NEW T, NEW s \in Seq(T), NEW k \in 1..Len(s) + 1
  PROVE  /\ SubSeq(s, k, Len(s)) \in Seq(T)
         /\ Len(SubSeq(s, k, Len(s))) = Len(s) - k + 1
         /\ \A a \in 1..Len(s) - k + 1 : SubSeq(s, k, Len(s))[a] = s[k + a - 1]
<1>1. Len(s) \in Nat /\ k \in Nat /\ k >= 1 /\ k <= Len(s) + 1
  BY LenProperties
<1>2. \A a \in k..Len(s) : s[a] \in T
  BY <1>1, ElementOfSeq
<1> QED
  BY <1>1, <1>2, SubSeqProperties

(* A well-formed file.                                                     *)
LEMMA WellFormedFile ==
  ASSUME NEW f \in Files, WellFormed(f)
  PROVE  LET s == SizeLine(f)
             n == f.lines[s][1] IN
         /\ s \in 1..Len(f.lines) /\ Len(f.lines) \in Nat
         /\ f.lines[s] \in Seq(Nat) /\ Len(f.lines[s]) = 3 /\ Matched(f.lines[s], 3) = 3
         /\ n \in Nat
         /\ \A h \in 1..s - 1 :
              \/ f.lines[h] = <<>>
              \/ IsComment(f.lines[h]) /\ \A b \in 1..Len(f.lines) : f.lines[b] = <<>> => b > h
         /\ Links(f) \in Seq(Seq(1..n))
         /\ Links(f) # <<>> => FlattenSeq(Links(f)) # <<>>
         /\ \A a \in 1..Len(Links(f)) : Len(Links(f)[a]) = 2
<1> DEFINE L == f.lines
           S == SizeLine(f)
           n == L[S][1]
           K == Links(f)
<1>0. L \in Seq(Seq(Token)) /\ Len(L) \in Nat /\ DOMAIN L = 1..Len(L)
  BY FileLines, LenProperties
<1>1. \A k \in 1..Len(L) : L[k] \in Seq(Int)
  <2>1. Token \subseteq Int
    BY DEF Token, Percent, Word
  <2>2. \A k \in 1..Len(L) : L[k] \in Seq(Token)
    BY <1>0, ElementOfSeq
  <2> QED
    BY <2>1, <2>2, SeqMonotonic
<1>2. /\ \E k \in DOMAIN L : Matched(L[k], 3) = 3
      /\ Len(L[S]) = 3
      /\ \A h \in 1..S - 1 :
           L[h] = <<>> \/ (IsComment(L[h]) /\ \A b \in DOMAIN L : L[b] = <<>> => b > h)
      /\ \A h \in S + 1..Len(L) : L[h] \in (1..n) \X (1..n)
  <2>1. /\ \E k \in DOMAIN L : Matched(L[k], 3) = 3
        /\ Len(L[S]) = 3
        /\ \A h \in S + 1..Len(L) : L[h] \in (1..n) \X (1..n)
        /\ \A h \in 1..S - 1 :
             \/ h \in {k \in DOMAIN L : L[k] = <<>>}
             \/ (IsComment(L[h]) /\ \A b \in {k \in DOMAIN L : L[k] = <<>>} : b > h)
    BY Zenon DEF WellFormed
  <2> HIDE DEF L, S
  <2> QED
    BY <2>1
<1>3. S \in DOMAIN L /\ Matched(L[S], 3) = 3
  <2> DEFINE T == {k \in DOMAIN L : Matched(L[k], 3) = 3}
  <2>1. PICK k \in T : \A h \in T : k <= h
    <3>1. T \subseteq Nat /\ T # {}
      BY <1>0, <1>2
    <3> HIDE DEF T
    <3> QED
      BY <3>1, LeastNat
  <2>2. \A h \in 1..k - 1 : Matched(L[h], 3) < 3
    <3> SUFFICES ASSUME NEW h \in 1..k - 1 PROVE Matched(L[h], 3) < 3
      OBVIOUS
    <3>1. h \in 1..Len(L) /\ ~ (k <= h)
      BY <1>0, <2>1
    <3>2. Matched(L[h], 3) # 3
      BY <1>0, <2>1, <3>1
    <3>3. Matched(L[h], 3) \in Nat /\ Matched(L[h], 3) <= 3
      BY <1>1, <3>1, MatchedNow
    <3> QED
      BY <3>2, <3>3
  <2>3. k \in DOMAIN f.lines /\ Matched(f.lines[k], 3) = 3
        /\ \A h \in 1..k - 1 : Matched(f.lines[h], 3) < 3
    BY <2>1, <2>2
  <2> QED
    BY <2>3, Zenon DEF SizeLine
<1> HIDE DEF L, S
<1>4. L[S] \in Seq(Nat) /\ n \in Nat
  <2>1. L[S] \in Seq(Int)
    BY <1>0, <1>1, <1>3
  <2>2. \A t \in 1..3 : L[S][t] \in Nat
    BY <1>3, <2>1, MatchedNow
  <2>3. L[S] \in Seq(Nat)
    <3> DEFINE q == L[S]
    <3> HIDE DEF q
    <3>1. q \in Seq(Int) /\ \A t \in 1..Len(q) : q[t] \in Nat
      BY <1>2, <2>1, <2>2 DEF q
    <3>2. q \in Seq(Nat)
      BY <3>1
    <3> QED
      BY <3>2 DEF q
  <2> QED
    BY <2>2, <2>3
<1>5. K = SubSeq(L, S + 1, Len(L))
  BY DEF Links, L, S
<1> HIDE DEF K, n
<1>6. Len(K) = Len(L) - S /\ \A a \in 1..Len(K) : K[a] = L[S + a] /\ S + a \in S + 1..Len(L)
  <2>1. S + 1 \in 1..Len(L) + 1 /\ S \in Nat
    BY <1>0, <1>3
  <2>2. Len(K) = Len(L) - S /\ \A a \in 1..Len(L) - S : K[a] = L[S + a]
    <3>1. /\ Len(K) = Len(L) - (S + 1) + 1
          /\ \A a \in 1..Len(L) - (S + 1) + 1 : K[a] = L[(S + 1) + a - 1]
      <4> DEFINE k == S + 1
      <4>1. k \in 1..Len(L) + 1 /\ K = SubSeq(L, k, Len(L))
        BY <1>5, <2>1
      <4> HIDE DEF k
      <4>2. Len(K) = Len(L) - k + 1 /\ \A a \in 1..Len(L) - k + 1 : K[a] = L[k + a - 1]
        BY <1>0, <4>1, FromPlace
      <4> QED
        BY <4>2 DEF k
    <3>2. Len(K) = Len(L) - S
      BY <1>0, <2>1, <3>1
    <3>3. ASSUME NEW a \in 1..Len(L) - S PROVE K[a] = L[S + a]
      <4>1. a \in 1..Len(L) - (S + 1) + 1 /\ (S + 1) + a - 1 = S + a
        BY <1>0, <2>1
      <4> QED
        BY <3>1, <4>1
    <3> QED
      BY <3>2, <3>3
  <2> QED
    BY <1>0, <2>1, <2>2
<1>7. K \in Seq(Seq(1..n)) /\ \A a \in 1..Len(K) : Len(K[a]) = 2 /\ K[a] # <<>>
  <2>1. ASSUME NEW a \in 1..Len(K) PROVE K[a] \in Seq(1..n) /\ Len(K[a]) = 2 /\ K[a] # <<>>
    <3>0. K[a] = L[S + a] /\ L[S + a] \in (1..n) \X (1..n)
      BY <1>2, <1>6, <2>1
    <3>1. PICK b, c \in 1..n : K[a] = <<b, c>>
      BY <3>0
    <3> QED
      BY <3>1
  <2>2. K \in Seq(Seq(Token))
    <3>1. S + 1 \in 1..Len(L) + 1 /\ S \in Nat
      BY <1>0, <1>3
    <3> QED
      BY <1>0, <1>5, <3>1, FromPlace
  <2>3. K \in Seq(Seq(1..n))
    BY <2>1, <2>2
  <2> QED
    BY <2>1, <2>3
<1>8. ASSUME K # <<>> PROVE FlattenSeq(K) # <<>>
  <2>1. /\ Head(K) \in Seq(1..n) /\ FlattenSeq(Tail(K)) \in Seq(1..n)
        /\ FlattenSeq(K) = Head(K) \o FlattenSeq(Tail(K))
    BY <1>7, <1>8, FlattenHead
  <2>2. Head(K) = K[1] /\ 1 \in 1..Len(K)
    BY <1>7, <1>8, EmptySeq, HeadTailProperties
  <2>3. Head(K) # <<>>
    BY <1>7, <2>2
  <2> QED
    BY <2>1, <2>3, ConcatEqualIffEmpty
<1> QED
  BY <1>0, <1>2, <1>3, <1>4, <1>7, <1>8 DEF L, S, n, K

(* The lines from one on, and blank lines do not count.                    *)
LEMMA FromLine ==
  ASSUME NEW T, NEW s \in Seq(T), NEW k \in 1..Len(s)
  PROVE  LET r == SubSeq(s, k, Len(s)) IN
         r \in Seq(T) /\ r # <<>> /\ Head(r) = s[k] /\ Tail(r) = SubSeq(s, k + 1, Len(s))
<1> DEFINE n == Len(s)
           r == SubSeq(s, k, n)
           t == SubSeq(s, k + 1, n)
<1>0. n \in Nat /\ k \in Nat /\ k <= n /\ k >= 1
  BY LenProperties
<1>1. r \in Seq(T) /\ Len(r) = n - k + 1 /\ \A a \in 1..n - k + 1 : r[a] = s[k + a - 1]
  <2>1. k \in 1..n + 1
    BY <1>0
  <2> QED
    BY <1>0, <2>1, FromPlace
<1>2. t \in Seq(T) /\ Len(t) = n - k /\ \A a \in 1..n - k : t[a] = s[k + a]
  <2>1. k + 1 \in 1..n + 1
    BY <1>0
  <2> QED
    BY <1>0, <2>1, FromPlace
<1> HIDE DEF n, r, t
<1>3. r # <<>> /\ Head(r) = s[k]
  BY <1>0, <1>1, HeadTailProperties
<1>4. Tail(r) \in Seq(T) /\ Len(Tail(r)) = n - k /\ \A a \in 1..n - k : Tail(r)[a] = r[a + 1]
  BY <1>0, <1>1, <1>3, HeadTailProperties
<1>5. \A a \in 1..n - k : Tail(r)[a] = t[a]
  BY <1>0, <1>1, <1>2, <1>4
<1>6. Tail(r) = t
  BY <1>2, <1>4, <1>5, SeqEqual
<1> QED
  BY <1>1, <1>3, <1>6 DEF n, r, t

LEMMA BlankLines ==
  ASSUME NEW T, NEW s \in Seq(Seq(T)), NEW m \in 1..Len(s), NEW k \in 1..m,
         \A h \in k..m - 1 : s[h] = <<>>
  PROVE  FlattenSeq(SubSeq(s, k, Len(s))) = s[m] \o FlattenSeq(SubSeq(s, m + 1, Len(s)))
<1> DEFINE F(a) == FlattenSeq(SubSeq(s, a, Len(s)))
<1>0. Len(s) \in Nat /\ m \in Nat /\ k \in Nat
  BY LenProperties
<1>1. \A a \in 1..Len(s) : F(a) = s[a] \o F(a + 1) /\ F(a + 1) \in Seq(T) /\ s[a] \in Seq(T)
  <2> SUFFICES ASSUME NEW a \in 1..Len(s)
               PROVE  F(a) = s[a] \o F(a + 1) /\ F(a + 1) \in Seq(T) /\ s[a] \in Seq(T)
    OBVIOUS
  <2> DEFINE r == SubSeq(s, a, Len(s))
  <2>1. r \in Seq(Seq(T)) /\ r # <<>> /\ Head(r) = s[a] /\ Tail(r) = SubSeq(s, a + 1, Len(s))
    BY FromLine
  <2>2. /\ Head(r) \in Seq(T) /\ FlattenSeq(Tail(r)) \in Seq(T)
        /\ FlattenSeq(r) = Head(r) \o FlattenSeq(Tail(r))
    <3> HIDE DEF r
    <3> QED
      BY <2>1, FlattenHead
  <2> QED
    BY <2>1, <2>2
<1> HIDE DEF F
<1>2. \A a \in k..m - 1 : F(a) = F(a + 1)
  <2> SUFFICES ASSUME NEW a \in k..m - 1 PROVE F(a) = F(a + 1)
    OBVIOUS
  <2>1. a \in 1..Len(s) /\ s[a] = <<>>
    BY <1>0, SMTT(30)
  <2>2. F(a) = <<>> \o F(a + 1) /\ F(a + 1) \in Seq(T)
    BY <1>1, <2>1
  <2> QED
    BY <2>2, ConcatEmptySeq
<1>3. F(k) = F(m)
  <2> DEFINE Up == {d \in 0..m - k : F(m - d) # F(m)}
  <2>1. Up = {}
    <3> SUFFICES ASSUME Up # {} PROVE FALSE
      OBVIOUS
    <3>1. PICK d \in Up : \A e \in Up : d <= e
      <4>1. Up \subseteq Nat
        BY <1>0
      <4> HIDE DEF Up
      <4> QED
        BY <4>1, LeastNat
    <3>2. d \in 0..m - k /\ F(m - d) # F(m) /\ d # 0
      BY <1>0, <3>1
    <3>3. d - 1 \in 0..m - k /\ ~ (d <= d - 1) /\ m - d \in k..m - 1 /\ (m - d) + 1 = m - (d - 1)
      BY <1>0, <3>2
    <3>4. F(m - (d - 1)) = F(m)
      BY <3>1, <3>3
    <3> QED
      BY <1>2, <3>2, <3>3, <3>4
  <2>2. m - k \in 0..m - k /\ m - (m - k) = k
    BY <1>0
  <2>3. \A d \in 0..m - k : F(m - d) = F(m)
    BY <2>1
  <2> HIDE DEF Up
  <2> QED
    BY <2>2, <2>3
<1>4. m \in 1..Len(s)
  OBVIOUS
<1>5. F(k) = s[m] \o F(m + 1)
  BY <1>1, <1>3, <1>4
<1> QED
  BY <1>5 DEF F

----------------------------------------------------------------------------
(* Where a well-formed file is: what is left of it at each place of the    *)
(* program.  Blank lines may come before the size, which is found among    *)
(* the words then.                                                         *)
SizeNumbers == file.lines[SizeLine(file)]

(* The last number met the end of the file unless a newline follows it.    *)
Noticed == Text = <<>> /\ ~file.newline => eof

Place ==
  /\ status \in {"opening", "banner"} => input = file.lines
  /\ status = "comments" =>
       \E k \in 1..SizeLine(file) : input = SubSeq(file.lines, k, Len(file.lines))
  /\ status = "scanning" => Text = SizeNumbers \o FlattenSeq(Links(file))
  /\ status \in {"sized", "reading"} => size[1] = SizeNumbers[1] /\ Noticed
  /\ status = "sized" => Text = FlattenSeq(Links(file))
  /\ status = "reading" =>
       /\ Text \in Seq(1..size[1])
       /\ line_count = 0 => Text = FlattenSeq(Links(file))

InPlace == WellFormed(file) => Place

LEMMA WholeFile ==
  ASSUME NEW T, NEW s \in Seq(T)
  PROVE  s = SubSeq(s, 1, Len(s))
<1>1. Len(s) \in Nat /\ 1 \in 1..Len(s) + 1
  BY LenProperties
<1> DEFINE r == SubSeq(s, 1, Len(s))
<1>2. r \in Seq(T) /\ Len(r) = Len(s) /\ \A a \in 1..Len(s) : r[a] = s[a]
  <2>1. /\ r \in Seq(T) /\ Len(r) = Len(s) - 1 + 1
        /\ \A a \in 1..Len(s) - 1 + 1 : r[a] = s[1 + a - 1]
    BY <1>1, FromPlace
  <2> HIDE DEF r
  <2> QED
    BY <1>1, <2>1
<1> HIDE DEF r
<1>3. s = r
  BY <1>2, SeqEqual
<1> QED
  BY <1>3 DEF r

(* What is in front of the text, and what follows it.                      *)
LEMMA Parts ==
  ASSUME NEW T, NEW a \in Seq(T), NEW b \in Seq(T)
  PROVE  /\ a \o b \in Seq(T) /\ Len(b) \in Nat /\ Len(a \o b) = Len(a) + Len(b)
         /\ \A k \in 1..Len(a) : (a \o b)[k] = a[k]
         /\ SubSeq(a \o b, Len(a) + 1, Len(a \o b)) = b
<1> DEFINE t == a \o b
           l == Len(a)
           h == l + 1
           r == SubSeq(t, h, Len(t))
<1>1. Len(b) \in Nat /\ l \in Nat
  BY LenProperties
<1>2. /\ t \in Seq(T) /\ Len(t) = l + Len(b)
      /\ \A k \in 1..l + Len(b) : t[k] = IF k <= l THEN a[k] ELSE b[k - l]
  BY ConcatProperties
<1> HIDE DEF t, l
<1>3. \A k \in 1..l : t[k] = a[k]
  BY <1>1, <1>2
<1>4. h \in 1..Len(t) + 1 /\ Len(t) - h + 1 = Len(b)
  BY <1>1, <1>2
<1> HIDE DEF h
<1>5. /\ r \in Seq(T) /\ Len(r) = Len(t) - h + 1
      /\ \A k \in 1..Len(t) - h + 1 : r[k] = t[h + k - 1]
  BY <1>2, <1>4, FromPlace
<1> HIDE DEF r
<1>6. ASSUME NEW k \in 1..Len(b) PROVE r[k] = b[k]
  <2>1. h + k - 1 = k + l
    BY <1>1 DEF h
  <2>2. k + l \in 1..l + Len(b) /\ ~ (k + l <= l) /\ (k + l) - l = k
    BY <1>1
  <2>3. r[k] = t[k + l]
    BY <1>4, <1>5, <2>1
  <2> QED
    BY <1>2, <2>2, <2>3
<1>7. Len(r) = Len(b)
  BY <1>4, <1>5
<1>8. r = b
  BY <1>5, <1>6, <1>7, SeqEqual
<1> QED
  BY <1>1, <1>2, <1>3, <1>8 DEF t, l, r, h

(* The numbers of the size.                                                *)
LEMMA SizeFirst ==
  ASSUME NEW a \in Seq(Nat), Len(a) = 3, NEW b \in Seq(Nat)
  PROVE  LET t == a \o b IN
         Matched(t, 3) = 3 /\ t # <<>> /\ t[1] = a[1] /\ SubSeq(t, 4, Len(t)) = b
<1> DEFINE t == a \o b
<1>1. Len(a) = 3 /\ Len(a) + 1 = 4
  OBVIOUS
<1>2. /\ t \in Seq(Nat) /\ Len(b) \in Nat /\ Len(t) = Len(a) + Len(b)
      /\ \A k \in 1..Len(a) : t[k] = a[k]
      /\ SubSeq(t, Len(a) + 1, Len(t)) = b
  BY Parts, ZenonT(30)
<1> HIDE DEF t
<1>3. Len(t) >= 3 /\ \A k \in 1..3 : t[k] = a[k]
  BY <1>1, <1>2
<1>4. \A k \in 1..3 : t[k] \in Nat
  <2>1. \A k \in 1..3 : a[k] \in Nat
    BY ElementOfSeq
  <2> QED
    BY <1>3, <2>1
<1>5. Matched(t, 3) = 3
  <2>1. t \in Seq(Int)
    BY <1>2, SeqMonotonic
  <2> QED
    BY <1>3, <1>4, <2>1, MatchedNow
<1>6. t # <<>>
  BY <1>3, EmptySeq
<1>7. t[1] = a[1] /\ SubSeq(t, 4, Len(t)) = b
  BY <1>1, <1>2, <1>3
<1> QED
  BY <1>5, <1>6, <1>7 DEF t

LEMMA ConsumeNotices ==
  ASSUME Types, file' = file, NEW k \in Nat \ {0}, Consume(k), Matched(Text, k) = k
  PROVE  Noticed'
<1> SUFFICES ASSUME Text' = <<>>, ~file.newline PROVE eof'
  BY DEF Noticed
<1>1. Len(Text') = Len(Text) - k /\ Len(Text) \in Nat
  <2> DEFINE m == Matched(Text, k)
  <2>1. Len(Text') = Len(Text) - m /\ Len(Text) \in Nat
    BY ConsumeText, TextTypes
  <2>2. m = k
    OBVIOUS
  <2> HIDE DEF m
  <2> QED
    BY <2>1, <2>2
<1>2. Len(Text') = 0
  BY EmptySeq
<1>3. Len(Text) = k
  BY <1>1, <1>2
<1>4. MeetsEnd(Text, k, file.newline)
  BY <1>3 DEF MeetsEnd
<1> QED
  BY <1>4 DEF Consume

LEMMA PlaceKept ==
  ASSUME Inv, Place, WellFormed(file), Next
  PROVE  Place'
<1> DEFINE L == file.lines
           S == SizeLine(file)
           z == SizeNumbers
           K == Links(file)
<1>0. Types /\ file \in Files /\ file' = file
  <2>1. file' = file
    BY DEF Next, Open, ReadBanner, SkipComment, ReadSizeLine, OnlyComments, ScanSizes,
           AllocateRows, Read, ReadPair, ReadEnd, ReadBad, ReadingDone, FreeRow, FreeRows
  <2> QED
    BY <2>1 DEF Inv, Types
<1>1. /\ S \in 1..Len(L) /\ Len(L) \in Nat /\ S \in Nat
      /\ z = L[S] /\ z \in Seq(Nat) /\ Len(z) = 3 /\ Matched(z, 3) = 3 /\ z[1] \in Nat
      /\ \A h \in 1..S - 1 :
           \/ L[h] = <<>>
           \/ IsComment(L[h]) /\ \A b \in 1..Len(L) : L[b] = <<>> => b > h
      /\ K \in Seq(Seq(1..z[1])) /\ (K # <<>> => FlattenSeq(K) # <<>>)
  <2>1. /\ S \in 1..Len(L) /\ Len(L) \in Nat
        /\ z = L[S] /\ z \in Seq(Nat) /\ Len(z) = 3 /\ Matched(z, 3) = 3 /\ z[1] \in Nat
        /\ \A h \in 1..S - 1 :
             \/ L[h] = <<>>
             \/ IsComment(L[h]) /\ \A b \in 1..Len(L) : L[b] = <<>> => b > h
        /\ K \in Seq(Seq(1..z[1])) /\ (K # <<>> => FlattenSeq(K) # <<>>)
    BY <1>0, WellFormedFile, Zenon DEF SizeNumbers
  <2> HIDE DEF L, S, z, K
  <2>2. S \in Nat
    BY <2>1
  <2> QED
    BY <2>1, <2>2
<1>2. FlattenSeq(K) \in Seq(1..z[1])
  BY <1>1, FlattenType
<1>3. K = SubSeq(L, S + 1, Len(L)) /\ L \in Seq(Seq(Token))
  BY <1>0, FileLines DEF Links
<1>4. SizeNumbers' = z /\ SizeLine(file') = S /\ Links(file') = K
  BY <1>0 DEF SizeNumbers
<1>5. ASSUME status' \in {"failed", "crashed", "outside", "loaded", "done"} PROVE Place'
  BY <1>5 DEF Place
<1>6. CASE Open
  <2>1. status = "opening" /\ status' \in {"failed", "banner"} /\ input' = input
    BY <1>6 DEF Open, Goto
  <2>2. input' = file'.lines
    BY <1>0, <2>1 DEF Place
  <2>3. status' = "banner" => Place'
    BY <2>2 DEF Place
  <2> QED
    BY <1>5, <2>1, <2>3
<1>7. CASE ReadBanner
  <2>1. status = "banner" /\ status' \in {"failed", "comments"} /\ input' = input
    BY <1>7 DEF ReadBanner, Goto
  <2>2. input' = SubSeq(L, 1, Len(L)) /\ 1 \in 1..S
    BY <1>1, <1>3, <2>1, WholeFile, SMTT(30) DEF Place
  <2>3. status' = "comments" => Place'
    BY <1>0, <2>2 DEF Place
  <2> QED
    BY <1>5, <2>1, <2>3
<1>8. CASE SkipComment
  <2>1. /\ status = "comments" /\ status' = "comments" /\ IsComment(Head(input))
        /\ input' = Tail(input)
    BY <1>8 DEF SkipComment
  <2>2. PICK k \in 1..S : input = SubSeq(L, k, Len(L))
    BY <2>1 DEF Place
  <2>3. Head(input) = L[k] /\ input' = SubSeq(L, k + 1, Len(L))
    <3>1. k \in 1..Len(L)
      BY <1>1
    <3>2. /\ Head(SubSeq(L, k, Len(L))) = L[k]
          /\ Tail(SubSeq(L, k, Len(L))) = SubSeq(L, k + 1, Len(L))
      BY <1>3, <3>1, FromLine
    <3> QED
      BY <2>1, <2>2, <3>2
  <2>4. k # S
    <3>1. z # <<>> /\ Head(z) = z[1]
      BY <1>1
    <3> QED
      BY <1>1, <2>1, <2>3, <3>1, SMTT(30) DEF IsComment, Percent
  <2>5. k + 1 \in 1..S
    BY <1>1, <2>4
  <2> QED
    BY <1>0, <2>1, <2>3, <2>5 DEF Place
<1>9. CASE ReadSizeLine
  <2>1. /\ status = "comments" /\ ~IsComment(Head(input)) /\ input' = Tail(input)
    BY <1>9 DEF ReadSizeLine
  <2>2. PICK k \in 1..S : input = SubSeq(L, k, Len(L))
    BY <2>1 DEF Place
  <2>3. Head(input) = L[k] /\ input' = SubSeq(L, k + 1, Len(L))
    <3>1. k \in 1..Len(L)
      BY <1>1
    <3>2. /\ Head(SubSeq(L, k, Len(L))) = L[k]
          /\ Tail(SubSeq(L, k, Len(L))) = SubSeq(L, k + 1, Len(L))
      BY <1>3, <3>1, FromLine
    <3> QED
      BY <2>1, <2>2, <3>2
  <2>4. /\ size' = [t \in 1..3 |-> IF t <= Matched(L[k], 3) THEN L[k][t] ELSE size[t]]
        /\ status' = IF Matched(L[k], 3) = 3 THEN "sized" ELSE "scanning"
    BY <1>0, <1>9, <2>3, SizeLineRead
  <2>5. Text' = FlattenSeq(SubSeq(L, k + 1, Len(L)))
    BY <2>3 DEF Text
  <2>6. CASE k = S
    <3>1. status' = "sized" /\ size'[1] = z[1]
      BY <1>1, <2>4, <2>6
    <3>2. Text' = FlattenSeq(K)
      BY <1>3, <2>5, <2>6
    <3>3. Noticed'
      <4>1. eof' = AtEnd(K)
        BY <1>3, <1>9, <2>1, <2>3, <2>6 DEF ReadSizeLine
      <4>2. Text' = <<>> => K = <<>>
        BY <1>1, <3>2
      <4> QED
        BY <1>0, <4>1, <4>2 DEF Noticed, AtEnd
    <3> QED
      BY <1>4, <3>1, <3>2, <3>3 DEF Place
  <2>7. CASE k # S
    <3>1. k \in 1..S - 1 /\ k + 1 \in 1..S /\ k \in 1..Len(L)
      BY <1>1, <2>7, SMTT(30)
    <3>2. L[k] = <<>>
      BY <1>1, <2>1, <2>3, <3>1
    <3>3. Matched(L[k], 3) # 3
      <4>1. <<>> \in Seq(Int) /\ Len(<<>>) = 0
        OBVIOUS
      <4>2. Matched(<<>>, 3) <= 0 /\ Matched(<<>>, 3) \in Nat
        <5> DEFINE e == <<>>
        <5>1. e \in Seq(Int) /\ Len(e) = 0
          BY <4>1
        <5> HIDE DEF e
        <5>2. Matched(e, 3) \in Nat /\ Matched(e, 3) <= Len(e)
          BY <5>1, MatchedNow
        <5> QED
          BY <5>1, <5>2 DEF e
      <4>3. Matched(<<>>, 3) # 3
        BY <4>2
      <4> QED
        BY <3>2, <4>3
    <3>4. status' = "scanning"
      BY <2>4, <3>3
    <3>5. \A h \in k + 1..S - 1 : L[h] = <<>>
      <4> SUFFICES ASSUME NEW h \in k + 1..S - 1 PROVE L[h] = <<>>
        OBVIOUS
      <4>1. h \in 1..S - 1 /\ ~ (k > h)
        BY <1>1, <3>1, SMTT(30)
      <4> QED
        BY <1>1, <3>1, <3>2, <4>1
    <3>6. Text' = z \o FlattenSeq(K)
      <4>1. FlattenSeq(SubSeq(L, k + 1, Len(L)))
              = L[S] \o FlattenSeq(SubSeq(L, S + 1, Len(L)))
        <5> DEFINE a == k + 1
        <5>1. a \in 1..S /\ \A h \in a..S - 1 : L[h] = <<>>
          BY <3>1, <3>5
        <5> HIDE DEF a, S, L
        <5>2. FlattenSeq(SubSeq(L, a, Len(L))) = L[S] \o FlattenSeq(SubSeq(L, S + 1, Len(L)))
          BY <1>1, <1>3, <5>1, BlankLines
        <5> QED
          BY <5>2 DEF a
      <4> QED
        BY <1>1, <1>3, <2>5, <4>1
    <3> QED
      BY <1>4, <3>4, <3>6 DEF Place
  <2> QED
    BY <2>6, <2>7
<1>10. CASE OnlyComments
  BY <1>5, <1>10 DEF OnlyComments, Goto
<1>11. CASE ScanSizes
  <2>1. status = "scanning" /\ Text = z \o FlattenSeq(K)
    BY <1>11 DEF ScanSizes, Place
  <2>2. /\ Matched(Text, 3) = 3 /\ Text # <<>> /\ Text[1] = z[1]
        /\ SubSeq(Text, 4, Len(Text)) = FlattenSeq(K)
    <3> DEFINE b == FlattenSeq(K)
    <3>1. b \in Seq(Nat)
      <4> DEFINE R == 1..z[1]
      <4>1. R \subseteq Nat
        OBVIOUS
      <4>2. b \in Seq(R)
        BY <1>2
      <4> HIDE DEF R, b
      <4> QED
        BY <4>1, <4>2, SeqMonotonic
    <3>2. z \in Seq(Nat) /\ Len(z) = 3 /\ Text = z \o b
      BY <1>1, <2>1
    <3> HIDE DEF z, K, b
    <3>3. /\ Matched(z \o b, 3) = 3 /\ z \o b # <<>> /\ (z \o b)[1] = z[1]
          /\ SubSeq(z \o b, 4, Len(z \o b)) = b
      BY <3>1, <3>2, SizeFirst
    <3> QED
      BY <3>2, <3>3 DEF b
  <2>3. Retval(Text, 3) = 3
    BY <2>2 DEF Retval
  <2>4. /\ size' = [k \in 1..3 |-> IF k <= Retval(Text, 3) THEN Text[k] ELSE size[k]]
        /\ Retval(Text, 3) # EOF => status' = IF Retval(Text, 3) = 3 THEN "sized" ELSE "scanning"
        /\ Consume(3)
    BY <1>0, <1>11, SizesScanned
  <2>5. status' = "sized" /\ size'[1] = z[1]
    BY <2>2, <2>3, <2>4 DEF EOF
  <2>6. Text' = FlattenSeq(K)
    <3> DEFINE m == Matched(Text, 3)
    <3>1. Text' = SubSeq(Text, m + 1, Len(Text))
      BY <1>0, <2>4, ConsumeText
    <3>2. m + 1 = 4
      BY <2>2
    <3> HIDE DEF m
    <3> QED
      BY <2>2, <3>1, <3>2
  <2>7. Noticed'
    BY <1>0, <2>2, <2>4, ConsumeNotices
  <2> QED
    BY <1>4, <2>5, <2>6, <2>7 DEF Place
<1>12. CASE AllocateRows
  <2>1. /\ status = "sized" /\ status' \in {"failed", "reading"}
        /\ input' = input /\ eof' = eof /\ size' = size /\ line_count' = line_count
    BY <1>12 DEF AllocateRows, Goto
  <2>2. line_count = 0 /\ size[1] = z[1] /\ Text = FlattenSeq(K) /\ Noticed
    BY <2>1 DEF Inv, Memory, Before, Place
  <2>3. Text' = Text
    BY <2>1 DEF Text
  <2>4. status' = "reading" => Place'
    <3>1. Text' \in Seq(1..size'[1])
      BY <1>2, <2>1, <2>2, <2>3
    <3>2. Noticed'
      BY <1>0, <2>1, <2>2, <2>3 DEF Noticed
    <3> QED
      BY <1>4, <2>1, <2>2, <2>3, <3>1, <3>2 DEF Place
  <2> QED
    BY <1>5, <2>1, <2>4
<1>13. CASE Read
  <2>0. /\ status = "reading" /\ Built /\ size[1] = z[1] /\ Text \in Seq(1..size[1])
        /\ line_count \in Nat
    BY <1>0, <1>13 DEF Read, Inv, Types, Memory, Place
  <2>1. ASSUME status' \in {"reading", "failed", "outside", "crashed"}, status' = "reading" => Place'
        PROVE  Place'
    BY <1>5, <2>1
  <2>2. CASE ReadPair
    <3>1. /\ Len(Text) >= 2 /\ Text[1] \in Nat /\ Text[2] \in Nat /\ add_edge(Text[1], Text[2])
          /\ Text' = SubSeq(Text, 3, Len(Text))
          /\ line_count' = line_count + 1 /\ UNCHANGED <<failing, size>>
      BY <1>0, <2>2, PairRead
    <3>2. status' \in {"reading", "failed", "outside", "crashed"}
      BY <1>0, <2>0, <3>1, AddEdge
    <3>3. Len(Text) \in Nat /\ 3 \in 1..Len(Text) + 1
      BY <2>0, <3>1, LenProperties
    <3>4. Text' \in Seq(1..size'[1])
      BY <2>0, <3>1, <3>3, FromPlace
    <3>5. line_count' > 0 /\ line_count' # 0 /\ size'[1] = z[1]
      BY <2>0, <3>1
    <3>6. Noticed'
      <4>1. Consume(2) /\ Retval(Text, 2) = 2
        BY <2>2 DEF ReadPair
      <4>2. Matched(Text, 2) = 2
        BY <1>0, <4>1, TextTypes, RetvalNow DEF EOF
      <4> QED
        BY <1>0, <4>1, <4>2, ConsumeNotices
    <3>7. status' = "reading" => Place'
      BY <1>4, <3>4, <3>5, <3>6 DEF Place
    <3> QED
      BY <2>1, <3>2, <3>7
  <2>3. CASE ReadEnd
    <3>1. /\ eof' = TRUE /\ i' \in Nat /\ j' \in Nat /\ add_edge(i', j')
          /\ line_count' = line_count + 1
          /\ UNCHANGED <<failing, input, size>>
      BY <1>0, <2>3, EndRead
    <3>2. status' \in {"reading", "failed", "outside", "crashed"}
      BY <1>0, <2>0, <3>1, AddEdge
    <3>3. Text' = Text /\ line_count' # 0
      BY <2>0, <3>1 DEF Text
    <3>4. Noticed'
      BY <3>1 DEF Noticed
    <3>5. status' = "reading" => Place'
      BY <1>4, <2>0, <3>1, <3>3, <3>4 DEF Place
    <3> QED
      BY <2>1, <3>2, <3>5
  <2>4. CASE ReadBad
    BY <1>5, <2>4 DEF ReadBad, Goto
  <2>5. CASE ReadingDone
    BY <1>5, <2>5 DEF ReadingDone, Goto
  <2> QED
    BY <1>13, <2>2, <2>3, <2>4, <2>5 DEF Read
<1>14. CASE FreeRow
  BY <1>5, <1>14 DEF FreeRow
<1>15. CASE FreeRows
  BY <1>5, <1>15 DEF FreeRows, Goto
<1> QED
  BY <1>6, <1>7, <1>8, <1>9, <1>10, <1>11, <1>12, <1>13, <1>14, <1>15 DEF Next

----------------------------------------------------------------------------
(* The links of a well-formed file: a pair of numbers each, which the text *)
(* holds one after the other.                                              *)
LEMMA PairFirst ==
  ASSUME NEW T, NEW a \in Seq(T), Len(a) = 2, NEW b \in Seq(T)
  PROVE  LET t == a \o b IN
         Len(t) >= 2 /\ t[1] = a[1] /\ t[2] = a[2] /\ SubSeq(t, 3, Len(t)) = b
<1> DEFINE t == a \o b
<1>1. Len(a) = 2 /\ Len(a) + 1 = 3
  OBVIOUS
<1>2. /\ Len(b) \in Nat /\ Len(t) = Len(a) + Len(b)
      /\ \A k \in 1..Len(a) : t[k] = a[k]
      /\ SubSeq(t, Len(a) + 1, Len(t)) = b
  BY Parts, ZenonT(30)
<1> HIDE DEF t
<1> QED
  BY <1>1, <1>2 DEF t

LEMMA LinksLeft ==
  ASSUME NEW T, NEW s \in Seq(Seq(T)), \A a \in 1..Len(s) : Len(s[a]) = 2,
         NEW c \in 0..Len(s), NEW t, t = FlattenSeq(SubSeq(s, c + 1, Len(s)))
  PROVE  /\ c = Len(s) => t = <<>>
         /\ c # Len(s) => /\ Len(t) >= 2 /\ t[1] = s[c + 1][1] /\ t[2] = s[c + 1][2]
                          /\ SubSeq(t, 3, Len(t)) = FlattenSeq(SubSeq(s, c + 2, Len(s)))
<1>0. Len(s) \in Nat /\ c \in Nat /\ c <= Len(s)
  BY LenProperties
<1>1. ASSUME c = Len(s) PROVE t = <<>>
  <2> DEFINE k == c + 1
             r == SubSeq(s, k, Len(s))
  <2>1. k \in 1..Len(s) + 1 /\ Len(s) - k + 1 = 0
    BY <1>0, <1>1
  <2>2. r \in Seq(Seq(T)) /\ Len(r) = Len(s) - k + 1
    <3> HIDE DEF k
    <3> QED
      BY <2>1, FromPlace
  <2>3. r = <<>>
    <3> HIDE DEF r
    <3> QED
      BY <2>1, <2>2, EmptySeq
  <2> QED
    BY <2>3, FlattenNone
<1>2. ASSUME c # Len(s)
      PROVE  /\ Len(t) >= 2 /\ t[1] = s[c + 1][1] /\ t[2] = s[c + 1][2]
             /\ SubSeq(t, 3, Len(t)) = FlattenSeq(SubSeq(s, c + 2, Len(s)))
  <2> DEFINE k == c + 1
             r == SubSeq(s, k, Len(s))
  <2>1. k \in 1..Len(s) /\ k + 1 = c + 2
    BY <1>0, <1>2
  <2>2. r \in Seq(Seq(T)) /\ r # <<>> /\ Head(r) = s[k] /\ Tail(r) = SubSeq(s, k + 1, Len(s))
    <3> HIDE DEF k
    <3> QED
      BY <2>1, FromLine
  <2> DEFINE b == FlattenSeq(Tail(r))
  <2>3. Head(r) \in Seq(T) /\ b \in Seq(T) /\ FlattenSeq(r) = Head(r) \o b
    <3> HIDE DEF r
    <3> QED
      BY <2>2, FlattenHead
  <2>4. s[k] \in Seq(T) /\ Len(s[k]) = 2 /\ t = s[k] \o b
    BY <2>1, <2>2, <2>3
  <2>5. b = FlattenSeq(SubSeq(s, c + 2, Len(s)))
    BY <2>1, <2>2
  <2> HIDE DEF b, r
  <2>6. Len(t) >= 2 /\ t[1] = s[k][1] /\ t[2] = s[k][2] /\ SubSeq(t, 3, Len(t)) = b
    <3> DEFINE a == s[k]
    <3>1. a \in Seq(T) /\ Len(a) = 2 /\ t = a \o b
      BY <2>4
    <3> HIDE DEF a
    <3>2. /\ Len(a \o b) >= 2 /\ (a \o b)[1] = a[1] /\ (a \o b)[2] = a[2]
          /\ SubSeq(a \o b, 3, Len(a \o b)) = b
      BY <2>3, <3>1, PairFirst
    <3> QED
      BY <3>1, <3>2 DEF a
  <2> QED
    BY <2>5, <2>6
<1> QED
  BY <1>1, <1>2

(* The place of a link in its row.                                         *)
LEMMA LinksOfNext ==
  ASSUME NEW n, NEW k \in Nat
  PROVE  /\ IsFiniteSet(LinksOf(n, k)) /\ Cardinality(LinksOf(n, k)) \in Nat
         /\ LinksOf(n, 0) = {}
         /\ Links(file)[k + 1][1] # n => LinksOf(n, k + 1) = LinksOf(n, k)
         /\ Links(file)[k + 1][1] = n =>
              /\ LinksOf(n, k + 1) = LinksOf(n, k) \cup {k + 1}
              /\ Cardinality(LinksOf(n, k + 1)) = Cardinality(LinksOf(n, k)) + 1
         /\ \A h \in LinksOf(n, k) : Cardinality(LinksOf(n, h)) \in 1..Cardinality(LinksOf(n, k))
<1> DEFINE K == Links(file)
           S == LinksOf(n, k)
<1>1. \A m \in Nat : IsFiniteSet(LinksOf(n, m)) /\ Cardinality(LinksOf(n, m)) \in Nat
  <2> SUFFICES ASSUME NEW m \in Nat
               PROVE  IsFiniteSet(LinksOf(n, m)) /\ Cardinality(LinksOf(n, m)) \in Nat
    OBVIOUS
  <2>1. IsFiniteSet(1..m)
    BY FS_Interval
  <2>2. LinksOf(n, m) \in SUBSET (1..m)
    BY DEF LinksOf
  <2>3. IsFiniteSet(LinksOf(n, m))
    BY <2>1, <2>2, FS_Subset
  <2> QED
    BY <2>3, FS_CardinalityType
<1>2. LinksOf(n, 0) = {}
  BY DEF LinksOf
<1>3. ASSUME K[k + 1][1] # n PROVE LinksOf(n, k + 1) = S
  <2>1. \A h \in 1..k + 1 : h = k + 1 \/ h \in 1..k
    OBVIOUS
  <2>2. 1..k \subseteq 1..k + 1
    OBVIOUS
  <2> QED
    BY <1>3, <2>1, <2>2, Zenon DEF LinksOf
<1>4. ASSUME K[k + 1][1] = n
      PROVE  /\ LinksOf(n, k + 1) = S \cup {k + 1}
             /\ Cardinality(LinksOf(n, k + 1)) = Cardinality(S) + 1
  <2>1. 1..k + 1 = (1..k) \cup {k + 1} /\ k + 1 \notin 1..k
    OBVIOUS
  <2>2. LinksOf(n, k + 1) = S \cup {k + 1} /\ k + 1 \notin S
    BY <1>4, <2>1, Zenon DEF LinksOf
  <2>3. IsFiniteSet(S)
    BY <1>1
  <2> HIDE DEF S
  <2>4. Cardinality(S \cup {k + 1}) = Cardinality(S) + 1
    BY <2>2, <2>3, FS_AddElement
  <2> QED
    BY <2>2, <2>4
<1>5. ASSUME NEW h \in S PROVE Cardinality(LinksOf(n, h)) \in 1..Cardinality(S)
  <2> DEFINE H == LinksOf(n, h)
  <2>1. h \in 1..k /\ K[h][1] = n
    BY DEF LinksOf
  <2>2. h \in Nat /\ h \in 1..h /\ 1..h \subseteq 1..k
    BY <2>1
  <2>3. h \in H /\ H \in SUBSET S
    BY <2>1, <2>2, Zenon DEF LinksOf
  <2>4. IsFiniteSet(S) /\ IsFiniteSet(H) /\ Cardinality(H) \in Nat /\ Cardinality(S) \in Nat
    BY <1>1, <2>2
  <2> HIDE DEF H, S
  <2>5. Cardinality(H) <= Cardinality(S)
    BY <2>3, <2>4, FS_Subset
  <2>6. Cardinality(H) # 0
    BY <2>3, <2>4, FS_EmptySet
  <2>7. Cardinality(H) \in 1..Cardinality(S)
    BY <2>4, <2>5, <2>6
  <2> QED
    BY <2>7 DEF H
<1> QED
  BY <1>1, <1>2, <1>3, <1>4, <1>5

(* A row that holds the first links, and the next one.                     *)
LEMMA HoldsNext ==
  ASSUME NEW n, NEW k \in Nat, NEW values \in Seq(Nat), HoldsLinks(values, n, k)
  PROVE  LET p == Links(file)[k + 1] IN
         /\ p[1] # n => HoldsLinks(values, n, k + 1)
         /\ p[1] = n => HoldsLinks(Append(values, p[2]), n, k + 1)
<1> DEFINE K == Links(file)
           p == K[k + 1]
           w == Append(values, p[2])
           l == Cardinality(LinksOf(n, k))
<1>0. Len(values) = l /\ \A h \in LinksOf(n, k) : values[Cardinality(LinksOf(n, h))] = K[h][2]
  BY DEF HoldsLinks
<1>1. ASSUME p[1] # n PROVE HoldsLinks(values, n, k + 1)
  <2>1. LinksOf(n, k + 1) = LinksOf(n, k)
    BY <1>1, LinksOfNext
  <2> QED
    BY <1>0, <2>1 DEF HoldsLinks
<1>2. ASSUME p[1] = n PROVE HoldsLinks(w, n, k + 1)
  <2>1. /\ l \in Nat /\ LinksOf(n, k + 1) = LinksOf(n, k) \cup {k + 1}
        /\ Cardinality(LinksOf(n, k + 1)) = l + 1
        /\ \A h \in LinksOf(n, k) : Cardinality(LinksOf(n, h)) \in 1..l
    BY <1>2, LinksOfNext
  <2>2. Len(w) = l + 1 /\ w[l + 1] = p[2] /\ \A a \in 1..l : w[a] = values[a]
    BY <1>0, <2>1, AppendProperties
  <2> HIDE DEF w, l
  <2>3. ASSUME NEW h \in LinksOf(n, k + 1) PROVE w[Cardinality(LinksOf(n, h))] = K[h][2]
    <3>1. CASE h = k + 1
      BY <2>1, <2>2, <3>1
    <3>2. CASE h \in LinksOf(n, k)
      BY <1>0, <2>1, <2>2, <3>2
    <3> QED
      BY <2>1, <3>1, <3>2
  <2> QED
    BY <2>1, <2>2, <2>3 DEF HoldsLinks
<1> QED
  BY <1>1, <1>2

LEMMA FrontOfAppend ==
  ASSUME NEW T, NEW values \in Seq(T), NEW v \in T
  PROVE  Front(Append(values, v)) = values /\ Last(Append(values, v)) = v
<1> DEFINE w == Append(values, v)
<1>1. /\ w \in Seq(T) /\ Len(values) \in Nat /\ Len(w) = Len(values) + 1
      /\ w[Len(values) + 1] = v /\ \A a \in 1..Len(values) : w[a] = values[a]
  BY AppendProperties, LenProperties
<1> DEFINE f == SubSeq(w, 1, Len(values))
<1> HIDE DEF w
<1>2. f \in Seq(T) /\ Len(f) = Len(values) /\ \A a \in 1..Len(values) : f[a] = w[a]
  <2>1. \A a \in 1..Len(values) : w[a] \in T
    BY <1>1, ElementOfSeq
  <2> QED
    BY <1>1, <2>1, SubSeqProperties
<1> HIDE DEF f
<1>3. f = values
  BY <1>1, <1>2, SeqEqual
<1>4. Len(w) - 1 = Len(values)
  BY <1>1
<1> QED
  BY <1>1, <1>3, <1>4 DEF Front, Last, f, w

(* What add_edge() does while the loop goes on.                            *)
LEMMA EdgeAdded ==
  ASSUME Types, Built, status = "reading", NEW n \in Nat, NEW m \in Nat,
         add_edge(n, m), status' = "reading"
  PROVE  /\ n \in Rows /\ rows' \in [Rows -> Seq(Nat)]
         /\ \A a \in Rows : rows'[a] = IF a = n THEN Append(rows[n], m) ELSE rows[a]
<1>0. /\ DOMAIN rows = Rows /\ \A a \in Rows : rows[a] \in Seq(Nat) /\ cells[a] \in Nat
      /\ rows \in [Rows -> Seq(Nat)]
  BY DEF Built
<1>1. n \in Rows
  BY <1>0 DEF add_edge, Goto
<1>2. rows' = [rows EXCEPT ![n] = Append(rows[n], m)]
  <2>1. CASE cells[n] = 0
    <3>1. NewRow(n, m)
      BY <1>0, <1>1, <2>1 DEF add_edge
    <3>2. rows' = [rows EXCEPT ![n] = <<m>>]
      BY <3>1 DEF NewRow, Goto
    <3>3. Len(rows[n]) = 0
      <4>1. Grown(Len(rows[n]), 0) /\ Chunk \in Nat /\ Chunk > 1
        BY <1>1, <2>1, SizesAssumption DEF Built
      <4> QED
        BY <4>1 DEF Grown
    <3>4. rows[n] = <<>>
      BY <1>0, <1>1, <3>3, EmptySeq
    <3> QED
      BY <3>2, <3>4
  <2>2. CASE cells[n] # 0
    <3>1. AppendToRow(n, m)
      BY <1>0, <1>1, <2>2 DEF add_edge
    <3> QED
      BY <3>1 DEF AppendToRow, Goto
  <2> QED
    BY <2>1, <2>2
<1>3. Append(rows[n], m) \in Seq(Nat)
  BY <1>0, <1>1, AppendProperties
<1> QED
  BY <1>0, <1>1, <1>2, <1>3

----------------------------------------------------------------------------
(* What the loop has read and what the rows hold.  The end of the file was *)
(* met only if no text is left, and the rows hold as many links as the     *)
(* text has lost, or one of them has a link more, which only a last line   *)
(* with a newline can cost.  Nothing else leads outside.                   *)
Ends == eof => Text = <<>>

Holds(n, c) == HoldsLinks(rows[n], n, c)

OneMore(n, c) ==
  n = i /\ rows[n] # <<>> /\ HoldsLinks(Front(rows[n]), n, c) /\ Last(rows[n]) = j

InOrder ==
  status \in {"reading", "loaded"} /\ row = 0 =>
    LET K == Links(file) IN
    \E c \in 0..Len(K) :
      /\ Text = FlattenSeq(SubSeq(K, c + 1, Len(K)))
      /\ status = "loaded" => eof
      /\ \/ line_count = c /\ \A n \in Rows : Holds(n, c)
         \/ c = Len(K) /\ eof /\ file.newline /\ \A n \in Rows : Holds(n, c) \/ OneMore(n, c)

Beyond == status = "outside" => line_count > Len(Links(file))

Order == Ends /\ (WellFormed(file) => InOrder /\ Beyond)

LEMMA ConsumeEnds ==
  ASSUME Types, Ends, NEW k \in Nat \ {0}, Consume(k)
  PROVE  Ends'
<1> DEFINE m == Matched(Text, k)
<1>1. Text \in Seq(Token) /\ Len(Text) \in Nat
  BY TextTypes
<1>2. /\ m \in 0..Len(Text) /\ Len(Text') = Len(Text) - m
      /\ input' \in Seq(Seq(Token))
  BY ConsumeText
<1>3. Text' \in Seq(Token)
  BY <1>2, TextNow DEF Text
<1>4. eof' => eof \/ m = Len(Text)
  BY DEF Consume, MeetsEnd
<1> HIDE DEF m
<1>5. ASSUME eof' PROVE Len(Text') = 0
  <2>1. CASE eof
    <3>1. Len(Text) = 0
      BY <2>1, EmptySeq DEF Ends
    <3>2. m = 0
      BY <1>2, <3>1
    <3> QED
      BY <1>2, <3>1, <3>2
  <2>2. CASE m = Len(Text)
    BY <1>1, <1>2, <2>2
  <2> QED
    BY <1>4, <1>5, <2>1, <2>2
<1>6. eof' => Text' = <<>>
  BY <1>3, <1>5, EmptySeq
<1> QED
  BY <1>6 DEF Ends

LEMMA EndsKept ==
  ASSUME Inv, Ends, Next
  PROVE  Ends'
<1>0. Types /\ (input' = input => Text' = Text)
  BY DEF Inv, Text
<1>1. ASSUME input' = <<>> PROVE Ends'
  <2>1. Text' = <<>>
    BY <1>1, FlattenNone DEF Text
  <2> QED
    BY <2>1 DEF Ends
<1>2. ASSUME UNCHANGED <<input, eof>> PROVE Ends'
  BY <1>0, <1>2 DEF Ends
<1>3. CASE ReadBanner \/ SkipComment \/ ReadSizeLine \/ OnlyComments
  <2>1. eof' => input' = <<>>
    <3>1. CASE ReadBanner
      BY <3>1 DEF ReadBanner, AtEnd
    <3>2. CASE SkipComment
      BY <3>2 DEF SkipComment, AtEnd
    <3>3. CASE ReadSizeLine
      BY <3>3 DEF ReadSizeLine, AtEnd
    <3>4. CASE OnlyComments
      BY <3>4 DEF OnlyComments
    <3> QED
      BY <1>3, <3>1, <3>2, <3>3, <3>4
  <2>2. CASE eof'
    BY <1>1, <2>1, <2>2
  <2>3. CASE ~eof'
    BY <2>3 DEF Ends
  <2> QED
    BY <2>2, <2>3
<1>4. CASE ScanSizes
  BY <1>0, <1>4, ConsumeEnds DEF ScanSizes
<1>5. CASE Read
  <2>1. CASE ReadPair
    BY <1>0, <2>1, ConsumeEnds DEF ReadPair
  <2>2. CASE ReadEnd
    <3>1. Text = <<>> /\ input' = input
      BY <1>0, <2>2, EndRead
    <3> QED
      BY <1>0, <3>1 DEF Ends
  <2>3. CASE ReadBad
    BY <1>0, <2>3, ConsumeEnds DEF ReadBad
  <2>4. CASE ReadingDone
    BY <1>2, <2>4 DEF ReadingDone
  <2> QED
    BY <1>5, <2>1, <2>2, <2>3, <2>4 DEF Read
<1>6. CASE Open \/ AllocateRows \/ FreeRow \/ FreeRows
  BY <1>2, <1>6 DEF Open, AllocateRows, FreeRow, FreeRows
<1> QED
  BY <1>3, <1>4, <1>5, <1>6 DEF Next

(* The rows of the next state hold the same links of the same file.        *)
LEMMA HoldsLater ==
  ASSUME file' = file
  PROVE  /\ \A n, c : Holds(n, c)' <=> HoldsLinks(rows'[n], n, c)
         /\ \A n, c : OneMore(n, c)' <=>
              /\ n = i' /\ rows'[n] # <<>>
              /\ HoldsLinks(Front(rows'[n]), n, c) /\ Last(rows'[n]) = j'
BY DEF Holds, OneMore, HoldsLinks, LinksOf

(* A link is read, and the row it belongs to gets it.                      *)
LEMMA PairKept ==
  ASSUME Inv, Ends, InOrder, WellFormed(file),
         status = "reading", ~eof, ReadPair, status' = "reading"
  PROVE  InOrder'
<1> DEFINE K == Links(file)
<1>0. Types /\ Built /\ row = 0 /\ file \in Files
  BY DEF Inv, Types, Memory
<1>1. /\ Len(Text) >= 2 /\ Text[1] \in Nat /\ Text[2] \in Nat
      /\ i' = Text[1] /\ j' = Text[2] /\ add_edge(Text[1], Text[2])
      /\ Text' = SubSeq(Text, 3, Len(Text))
      /\ line_count' = line_count + 1 /\ UNCHANGED <<file, size, row>>
  BY <1>0, PairRead
<1>2. /\ rows' \in [Rows -> Seq(Nat)]
      /\ \A a \in Rows : rows'[a] = IF a = Text[1] THEN Append(rows[Text[1]], Text[2]) ELSE rows[a]
  BY <1>0, <1>1, EdgeAdded
<1>3. /\ \A a \in 1..Len(K) : Len(K[a]) = 2
      /\ K \in Seq(Seq(1..SizeNumbers[1])) /\ Len(K) \in Nat
  <2>1. /\ \A a \in 1..Len(K) : Len(K[a]) = 2
        /\ K \in Seq(Seq(1..SizeNumbers[1]))
    BY <1>0, WellFormedFile DEF SizeNumbers
  <2> HIDE DEF K
  <2>2. Len(K) \in Nat
    BY <2>1, LenProperties
  <2> QED
    BY <2>1, <2>2
<1>4. PICK c \in 0..Len(K) :
        /\ Text = FlattenSeq(SubSeq(K, c + 1, Len(K)))
        /\ line_count = c /\ \A n \in Rows : Holds(n, c)
  BY <1>0 DEF InOrder
<1> HIDE DEF K
<1>5. /\ c # Len(K) /\ Text[1] = K[c + 1][1] /\ Text[2] = K[c + 1][2]
      /\ Text' = FlattenSeq(SubSeq(K, c + 2, Len(K)))
  <2>1. Text # <<>>
    BY <1>1, EmptySeq
  <2>2. /\ c = Len(K) => Text = <<>>
        /\ c # Len(K) => /\ Text[1] = K[c + 1][1] /\ Text[2] = K[c + 1][2]
                         /\ SubSeq(Text, 3, Len(Text)) = FlattenSeq(SubSeq(K, c + 2, Len(K)))
    <3> DEFINE T == 1..SizeNumbers[1]
               t == Text
    <3>1. K \in Seq(Seq(T)) /\ \A a \in 1..Len(K) : Len(K[a]) = 2
      BY <1>3
    <3>2. c \in 0..Len(K) /\ t = FlattenSeq(SubSeq(K, c + 1, Len(K)))
      BY <1>4
    <3> HIDE DEF T, t
    <3>3. c = Len(K) => t = <<>>
      BY <3>1, <3>2, LinksLeft
    <3>4. c # Len(K) => t[1] = K[c + 1][1]
      BY <3>1, <3>2, LinksLeft
    <3>5. c # Len(K) => t[2] = K[c + 1][2]
      BY <3>1, <3>2, LinksLeft
    <3>6. c # Len(K) => SubSeq(t, 3, Len(t)) = FlattenSeq(SubSeq(K, c + 2, Len(K)))
      BY <3>1, <3>2, LinksLeft
    <3> QED
      BY <3>3, <3>4, <3>5, <3>6, Zenon DEF t
  <2> QED
    BY <1>1, <2>1, <2>2
<1> DEFINE d == c + 1
<1>6. d \in 0..Len(K) /\ d \in 1..Len(K) /\ d > 0 /\ c \in Nat /\ d + 1 = c + 2
  BY <1>3, <1>5
<1>7. ASSUME NEW n \in Rows PROVE HoldsLinks(rows'[n], n, d)
  <2> DEFINE p == Links(file)[c + 1]
  <2>1. HoldsLinks(rows[n], n, c) /\ rows[n] \in Seq(Nat)
    BY <1>0, <1>4 DEF Holds, Built
  <2>2. /\ p[1] # n => HoldsLinks(rows[n], n, c + 1)
        /\ p[1] = n => HoldsLinks(Append(rows[n], p[2]), n, c + 1)
    BY <1>6, <2>1, HoldsNext
  <2>3. p[1] = Text[1] /\ p[2] = Text[2]
    BY <1>5 DEF K
  <2> HIDE DEF p
  <2> QED
    BY <1>2, <2>2, <2>3
<1>8. \A n \in Rows' : Holds(n, d)'
  <2>1. Rows' = Rows
    BY <1>1 DEF Rows
  <2> HIDE DEF d
  <2> QED
    BY <1>1, <1>7, <2>1, HoldsLater, Zenon
<1>9. line_count' = d /\ Text' = FlattenSeq(SubSeq(K, d + 1, Len(K)))
  BY <1>1, <1>4, <1>5, <1>6
<1>10. Links(file') = K
  BY <1>1 DEF K
<1> HIDE DEF d
<1> QED
  BY <1>6, <1>8, <1>9, <1>10 DEF InOrder

(* The round that finds the end adds a link of any two nodes.              *)
LEMMA EndKept ==
  ASSUME Inv, Place, InOrder, WellFormed(file), status = "reading", ~eof, ReadEnd
  PROVE  /\ line_count' > Len(Links(file))
         /\ status' = "reading" => InOrder'
<1> DEFINE K == Links(file)
           m == Len(K)
<1>0. Types /\ Built /\ row = 0 /\ file \in Files
  BY DEF Inv, Types, Memory
<1>1. /\ Text = <<>> /\ eof' = TRUE /\ i' \in Nat /\ j' \in Nat /\ add_edge(i', j')
      /\ line_count' = line_count + 1
      /\ UNCHANGED <<file, input, size, row>>
  BY <1>0, EndRead
<1>2. PICK c \in 0..m :
        /\ Text = FlattenSeq(SubSeq(K, c + 1, m))
        /\ line_count = c /\ \A n \in Rows : Holds(n, c)
  BY <1>0 DEF InOrder
<1>3. c = m /\ c \in Nat
  <2>1. /\ \A a \in 1..Len(K) : Len(K[a]) = 2
        /\ K \in Seq(Seq(1..SizeNumbers[1]))
    BY <1>0, WellFormedFile DEF SizeNumbers
  <2> HIDE DEF K
  <2>2. m \in Nat
    BY <2>1, LenProperties
  <2>3. c = m
    <3>1. Len(Text) = 0
      BY <1>1, EmptySeq
    <3>2. c # Len(K) => Len(Text) >= 2
      BY <1>2, <2>1, LinksLeft
    <3> QED
      BY <3>1, <3>2
  <2> QED
    BY <2>2, <2>3
<1>4. line_count' > Len(Links(file)) /\ file.newline
  BY <1>1, <1>2, <1>3 DEF Place, Noticed
<1> SUFFICES ASSUME status' = "reading" PROVE InOrder'
  BY <1>4
<1>5. /\ rows' \in [Rows -> Seq(Nat)]
      /\ \A a \in Rows : rows'[a] = IF a = i' THEN Append(rows[i'], j') ELSE rows[a]
  BY <1>0, <1>1, EdgeAdded
<1>6. ASSUME NEW n \in Rows PROVE Holds(n, c)' \/ OneMore(n, c)'
  <2>1. HoldsLinks(rows[n], n, c) /\ rows[n] \in Seq(Nat)
    BY <1>0, <1>2 DEF Holds, Built
  <2>2. CASE n = i'
    <3>1. rows'[n] = Append(rows[n], j')
      BY <1>5, <2>2
    <3>2. Front(rows'[n]) = rows[n] /\ Last(rows'[n]) = j'
      BY <1>1, <2>1, <3>1, FrontOfAppend
    <3>3. rows'[n] # <<>>
      BY <1>1, <2>1, <3>1, AppendProperties
    <3> QED
      BY <1>1, <2>1, <2>2, <3>2, <3>3, HoldsLater, Zenon
  <2>3. CASE n # i'
    <3>1. rows'[n] = rows[n]
      BY <1>5, <2>3
    <3> QED
      BY <1>1, <2>1, <3>1, HoldsLater, Zenon
  <2> QED
    BY <2>2, <2>3
<1>7. Rows' = Rows /\ Text' = Text /\ Links(file') = K
  BY <1>1 DEF Rows, Text
<1>8. c \in 0..Len(Links(file')) /\ c = Len(Links(file')) /\ status' # "loaded"
      /\ Text' = FlattenSeq(SubSeq(Links(file'), c + 1, Len(Links(file'))))
  BY <1>2, <1>3, <1>7
<1> HIDE DEF K
<1> QED
  BY <1>1, <1>4, <1>6, <1>7, <1>8 DEF InOrder

LEMMA OrderKept ==
  ASSUME Inv, InPlace, Order, [Next]_vars
  PROVE  Order'
<1>1. CASE UNCHANGED vars
  <2>1. file' = file /\ Text' = Text /\ Rows' = Rows
    BY <1>1 DEF vars, Text, Rows
  <2>2. \A n, c : (Holds(n, c)' <=> Holds(n, c)) /\ (OneMore(n, c)' <=> OneMore(n, c))
    <3>1. rows' = rows /\ i' = i /\ j' = j
      BY <1>1 DEF vars
    <3>2. \A n, c : Holds(n, c)' <=> Holds(n, c)
      BY <2>1, <3>1, HoldsLater DEF Holds
    <3>3. \A n, c : OneMore(n, c)' <=> OneMore(n, c)
      BY <2>1, <3>1, HoldsLater DEF OneMore
    <3> QED
      BY <3>2, <3>3
  <2>3. Ends'
    BY <1>1, <2>1 DEF vars, Ends, Order
  <2>4. (InOrder => InOrder') /\ (Beyond => Beyond')
    BY <1>1, <2>1, <2>2 DEF vars, InOrder, Beyond
  <2> QED
    BY <2>1, <2>3, <2>4 DEF Order
<1>2. CASE Next
  <2>1. Ends' /\ Ends
    BY <1>2, EndsKept DEF Order
  <2>2. file' = file
    BY <1>2 DEF Next, Open, ReadBanner, SkipComment, ReadSizeLine, OnlyComments, ScanSizes,
         AllocateRows, Read, ReadPair, ReadEnd, ReadBad, ReadingDone, FreeRow, FreeRows
  <2> SUFFICES ASSUME WellFormed(file) PROVE InOrder' /\ Beyond'
    BY <2>1, <2>2 DEF Order
  <2>3. InOrder /\ Beyond /\ Place /\ Types /\ file \in Files
    BY DEF Order, InPlace, Inv, Types
  <2>4. ASSUME status' \notin {"reading", "loaded", "outside"} PROVE InOrder' /\ Beyond'
    BY <2>4 DEF InOrder, Beyond
  <2>5. CASE AllocateRows
    <3> DEFINE K == Links(file)
    <3>1. CASE status' = "reading"
      <4>1. /\ status = "sized" /\ UNCHANGED <<input, size, i, j, line_count, row>>
            /\ rows' = [n \in Rows |-> <<>>]
        BY <2>5, <3>1 DEF AllocateRows, Goto
      <4>2. line_count = 0 /\ Text = FlattenSeq(K) /\ Text' = Text /\ Rows' = Rows
        BY <2>3, <4>1 DEF Inv, Memory, Before, Place, Text, Rows
      <4>3. K \in Seq(Seq(1..SizeNumbers[1])) /\ Len(K) \in Nat
        <5>1. K \in Seq(Seq(1..SizeNumbers[1]))
          BY <2>3, WellFormedFile DEF SizeNumbers
        <5> HIDE DEF K
        <5> QED
          BY <5>1, LenProperties
      <4>4. K = SubSeq(K, 0 + 1, Len(K)) /\ 0 \in 0..Len(K)
        <5> HIDE DEF K
        <5>1. K = SubSeq(K, 1, Len(K))
          BY <4>3, WholeFile
        <5> QED
          BY <4>3, <5>1
      <4>5. ASSUME NEW n \in Rows PROVE HoldsLinks(rows'[n], n, 0)
        <5>1. rows'[n] = <<>> /\ Len(<<>>) = 0
          BY <4>1
        <5>2. LinksOf(n, 0) = {}
          BY DEF LinksOf
        <5>3. Cardinality(LinksOf(n, 0)) = 0
          BY <5>2, FS_EmptySet
        <5> QED
          BY <5>1, <5>2, <5>3 DEF HoldsLinks
      <4>6. \A n \in Rows' : Holds(n, 0)'
        BY <2>2, <4>2, <4>5, HoldsLater, Zenon
      <4>7. Links(file') = K
        BY <2>2
      <4> HIDE DEF K
      <4>8. Text' = FlattenSeq(SubSeq(K, 0 + 1, Len(K))) /\ line_count' = 0
        BY <4>1, <4>2, <4>4
      <4>9. PICK c \in Nat : c = 0
        OBVIOUS
      <4>10. /\ c \in 0..Len(K) /\ line_count' = c /\ status' # "loaded"
             /\ Text' = FlattenSeq(SubSeq(K, c + 1, Len(K)))
        BY <3>1, <4>4, <4>8, <4>9
      <4>11. \A n \in Rows' : Holds(n, c)'
        BY <4>6, <4>9
      <4> QED
        BY <3>1, <4>7, <4>10, <4>11 DEF InOrder, Beyond
    <3>2. CASE status' # "reading"
      BY <2>4, <2>5, <3>2 DEF AllocateRows, Goto
    <3> QED
      BY <3>1, <3>2
  <2>6. CASE Read
    <3>0. status = "reading"
      BY <2>6 DEF Read
    <3>1. CASE eof
      <4>1. status' = "loaded" /\ UNCHANGED <<file, input, eof, size, graph>>
        BY <2>6, <3>1 DEF Read, ReadingDone, Goto
      <4>2. Text' = Text /\ Rows' = Rows
        BY <4>1 DEF Text, Rows
      <4>3. /\ row' = row /\ i' = i /\ j' = j /\ rows' = rows /\ line_count' = line_count
            /\ Links(file') = Links(file)
        BY <4>1 DEF graph
      <4>4. \A n, c : (Holds(n, c)' <=> Holds(n, c)) /\ (OneMore(n, c)' <=> OneMore(n, c))
        BY <4>1, <4>3, HoldsLater DEF Holds, OneMore
      <4>5. CASE row = 0
        <5> DEFINE K == Links(file)
        <5>1. PICK c \in 0..Len(K) :
                /\ Text = FlattenSeq(SubSeq(K, c + 1, Len(K)))
                /\ \/ line_count = c /\ \A n \in Rows : Holds(n, c)
                   \/ c = Len(K) /\ eof /\ file.newline /\ \A n \in Rows : Holds(n, c) \/ OneMore(n, c)
          BY <2>3, <3>0, <4>5 DEF InOrder
        <5>2. \/ line_count' = c /\ \A n \in Rows' : Holds(n, c)'
              \/ c = Len(K) /\ eof' /\ file'.newline /\ \A n \in Rows' : Holds(n, c)' \/ OneMore(n, c)'
          BY <4>1, <4>2, <4>3, <4>4, <5>1
        <5> HIDE DEF K
        <5> QED
          BY <3>1, <4>1, <4>2, <4>3, <5>1, <5>2 DEF InOrder, Beyond, K
      <4>6. CASE row # 0
        BY <4>1, <4>3, <4>6 DEF InOrder, Beyond
      <4> QED
        BY <4>5, <4>6
    <3>2. CASE ~eof /\ status' = "reading"
      <4>1. ReadPair \/ ReadEnd
        BY <2>6, <3>2 DEF Read, ReadBad, Goto
      <4>2. Beyond'
        BY <3>2 DEF Beyond
      <4> QED
        BY <2>1, <2>3, <3>0, <3>2, <4>1, <4>2, PairKept, EndKept
    <3>3. CASE ~eof /\ status' # "reading"
      <4>0. Built
        BY <3>0 DEF Inv, Memory
      <4>1. CASE ReadPair
        <5>1. /\ Len(Text) >= 2 /\ Text[1] \in Nat /\ Text[2] \in Nat
              /\ add_edge(Text[1], Text[2]) /\ UNCHANGED <<size, failing>>
          BY <2>3, <4>1, PairRead
        <5>2. /\ status' \in {"reading", "failed", "outside", "crashed"}
              /\ status' = "outside" => Text[1] \notin Rows
          BY <2>3, <3>0, <4>0, <5>1, AddEdge
        <5>3. Text \in Seq(1..size[1]) /\ size[1] \in Nat
          BY <2>3, <3>0 DEF Place, Types, Matrix
        <5>4. 1 \in 1..Len(Text)
          BY <2>3, <5>1, TextTypes
        <5>5. Text[1] \in 1..size[1]
          BY <5>3, <5>4, ElementOfSeq
        <5>6. Text[1] \in Rows
          BY <5>3, <5>5 DEF Rows
        <5> QED
          BY <2>4, <3>3, <5>2, <5>6
      <4>2. CASE ReadEnd
        <5>1. i' \in Nat /\ j' \in Nat /\ add_edge(i', j') /\ UNCHANGED <<size, failing>>
          BY <2>3, <4>2, EndRead
        <5>2. status' \in {"reading", "failed", "outside", "crashed"}
          BY <2>3, <3>0, <4>0, <5>1, AddEdge
        <5>3. line_count' > Len(Links(file))
          BY <2>3, <3>0, <3>3, <4>2, EndKept
        <5>4. Beyond'
          BY <2>2, <5>3 DEF Beyond
        <5>5. InOrder'
          BY <3>3, <5>2 DEF InOrder
        <5> QED
          BY <5>4, <5>5
      <4>3. CASE ReadBad
        BY <2>4, <4>3 DEF ReadBad, Goto
      <4> QED
        BY <2>6, <3>3, <4>1, <4>2, <4>3 DEF Read
    <3> QED
      BY <3>1, <3>2, <3>3
  <2>7. CASE FreeRow
    <3>1. row' = row + 1 /\ row \in Nat /\ status' = "loaded"
      BY <2>7 DEF FreeRow, Inv, Types
    <3>2. row' # 0
      BY <3>1
    <3> QED
      BY <3>1, <3>2 DEF InOrder, Beyond
  <2>8. CASE FreeRows
    BY <2>4, <2>8 DEF FreeRows, Goto
  <2>9. CASE Open \/ ReadBanner \/ SkipComment \/ OnlyComments
    <3>1. status' \notin {"reading", "loaded", "outside"}
      BY <2>9 DEF Open, ReadBanner, SkipComment, OnlyComments, Goto
    <3> QED
      BY <2>4, <3>1
  <2>10. CASE ReadSizeLine
    BY <2>4, <2>10 DEF ReadSizeLine, Goto
  <2>11. CASE ScanSizes
    BY <2>4, <2>11 DEF ScanSizes, Goto
  <2> QED
    BY <1>2, <2>5, <2>6, <2>7, <2>8, <2>9, <2>10, <2>11 DEF Next
<1> QED
  BY <1>1, <1>2

----------------------------------------------------------------------------
(* Theorems.                                                               *)

(* Whatever the file holds, and whatever fails: the rows with their cells, *)
(* the places of a well-formed file and the pairs that are left belong     *)
(* together all the time (queue_performance.c:256-397).                    *)
THEOREM Inductive == Spec => [](Inv /\ InPlace)
<1>1. Init => Inv /\ InPlace
  <2> SUFFICES ASSUME Init PROVE Inv /\ InPlace
    OBVIOUS
  <2>1. status = "opening" /\ input = file.lines
    BY DEF Init
  <2> QED
    BY <2>1, InitHolds DEF InPlace, Place
<1>2. (Inv /\ InPlace) /\ [Next]_vars => (Inv /\ InPlace)'
  <2> SUFFICES ASSUME Inv, InPlace, [Next]_vars PROVE (Inv /\ InPlace)'
    OBVIOUS
  <2>1. Inv'
    BY NextKeeps
  <2>2. InPlace'
    <3>1. CASE Next
      <4>1. file' = file
        BY <3>1 DEF Next, Open, ReadBanner, SkipComment, ReadSizeLine, OnlyComments, ScanSizes,
             AllocateRows, Read, ReadPair, ReadEnd, ReadBad, ReadingDone, FreeRow, FreeRows
      <4>2. WellFormed(file) => Place'
        BY <3>1, PlaceKept DEF InPlace
      <4> QED
        BY <4>1, <4>2 DEF InPlace
    <3>2. CASE UNCHANGED vars
      <4>1. Text' = Text /\ SizeNumbers' = SizeNumbers /\ (Noticed => Noticed')
        BY <3>2 DEF vars, Text, SizeNumbers, Noticed
      <4> QED
        BY <3>2, <4>1 DEF vars, InPlace, Place
    <3> QED
      BY <3>1, <3>2
  <2> QED
    BY <2>1, <2>2
<1> QED
  BY <1>1, <1>2, PTL DEF Spec

(* The locals of main() and the rows keep their types, and there is at     *)
(* most one round more than the file has tokens: the one that finds its    *)
(* end (queue_performance.c:312-325).                                      *)
THEOREM TypeCorrect == Spec => []TypeOK
<1>1. Inv => TypeOK
  <2> SUFFICES ASSUME Inv PROVE TypeOK
    OBVIOUS
  <2>1. Types /\ line_count <= Total + 1
    BY DEF Inv, Counted
  <2>2. rows = None \/ rows \in [0..size[1] -> Seq(Nat)]
    BY <2>1 DEF Types, Statuses, Inv, Memory, NoRows, Built, Rows, Before, Ended
  <2>3. cells = None \/ cells \in [0..size[1] -> Nat]
    BY <2>1 DEF Types, Statuses, Inv, Memory, NoRows, Built, Rows, Before, Ended
  <2>4. status \in Ended \cup {"opening", "banner", "comments", "scanning", "sized",
                               "reading", "loaded"}
    BY <2>1 DEF Types, Statuses, Before
  <2> QED
    BY <2>1, <2>2, <2>3, <2>4 DEF TypeOK, Types, Total
<1> QED
  BY <1>1, Inductive, PTL

(* No row ever has more values than cells, whatever the file holds         *)
(* (queue_performance.c:182-192).                                          *)
THEOREM RowsHaveRoom == Spec => []RowsFit
<1>1. Inv => RowsFit
  <2> SUFFICES ASSUME Inv, NEW n \in DOMAIN rows PROVE Len(rows[n]) <= cells[n]
    BY DEF RowsFit
  <2>1. rows # None
    BY DEF None
  <2>2. Built
    BY <2>1 DEF Inv, Types, Statuses, Memory, NoRows, Before, Ended
  <2>3. n \in Rows /\ Grown(Len(rows[n]), cells[n])
    BY <2>2 DEF Built
  <2>4. Len(rows[n]) \in Nat /\ Chunk \in Nat
    BY <2>2, <2>3, SizesAssumption, LenProperties DEF Built
  <2> QED
    BY <2>3, <2>4 DEF Grown
<1> QED
  BY <1>1, Inductive, PTL

(* A run that comes to its end has freed every row and the array of them   *)
(* (queue_performance.c:391-397).                                          *)
THEOREM EveryRowFreed == Spec => []AllFreed
<1>1. Inv => AllFreed
  BY DEF Inv, Memory, AllFreed
<1> QED
  BY <1>1, Inductive, PTL

(* At every round of the loop the rows hold the links of a well-formed     *)
(* file, in its order, that its text has lost (queue_performance.c:        *)
(* 312-325).                                                               *)
THEOREM Ordered == Spec => [](Inv /\ Order)
<1>1. Init => Order
  <2> SUFFICES ASSUME Init PROVE Order
    OBVIOUS
  <2>1. eof = FALSE /\ status = "opening"
    BY DEF Init
  <2> QED
    BY <2>1 DEF Order, Ends, InOrder, Beyond
<1>2. Inv /\ InPlace /\ Order /\ [Next]_vars => Order'
  BY OrderKept
<1> QED
  BY <1>1, <1>2, Inductive, PTL DEF Spec

(* The numbers of a well-formed file never leave the array of rows: when   *)
(* add_edge() is called with an index beyond it, every link has been read  *)
(* and the round is the one that finds none (queue_performance.c:292-324). *)
THEOREM LinksStayInside == Spec => []RowsInside
<1>1. Order => RowsInside
  BY DEF Order, Beyond, RowsInside
<1> QED
  BY <1>1, Ordered, PTL

(* From a well-formed file each row gets its links in the order of the     *)
(* file, whatever comes before the size and whatever the file ends with,   *)
(* and no others but for one, of any two nodes, which the round that finds *)
(* no pair adds where a newline ends the file (mmio.c:197-216,             *)
(* queue_performance.c:312-325).                                           *)
THEOREM RowsAreTheFile == Spec => []RowsHoldTheFile
<1>1. Inv /\ Order => RowsHoldTheFile
  <2> SUFFICES ASSUME Inv, Order, status = "loaded", row = 0, WellFormed(file),
                      NEW n \in DOMAIN rows
               PROVE  LET all == Len(Links(file)) IN
                      \/ HoldsLinks(rows[n], n, all)
                      \/ /\ file.newline /\ n = i /\ rows[n] # <<>>
                         /\ HoldsLinks(Front(rows[n]), n, all) /\ Last(rows[n]) = j
    BY DEF RowsHoldTheFile
  <2> DEFINE K == Links(file)
  <2>1. Types /\ n \in Rows /\ file \in Files
    BY DEF Inv, Types, Memory, Built
  <2>2. PICK c \in 0..Len(K) :
          /\ Text = FlattenSeq(SubSeq(K, c + 1, Len(K)))
          /\ eof
          /\ \/ \A a \in Rows : Holds(a, c)
             \/ c = Len(K) /\ file.newline /\ \A a \in Rows : Holds(a, c) \/ OneMore(a, c)
    BY DEF Order, InOrder
  <2>3. /\ \A a \in 1..Len(K) : Len(K[a]) = 2
        /\ K \in Seq(Seq(1..SizeNumbers[1]))
    BY <2>1, WellFormedFile DEF SizeNumbers
  <2> HIDE DEF K
  <2>4. c = Len(K)
    <3>1. Text = <<>>
      BY <2>2 DEF Order, Ends
    <3>2. Len(Text) = 0
      BY <3>1, EmptySeq
    <3>3. c # Len(K) => Len(Text) >= 2
      BY <2>2, <2>3, LinksLeft
    <3> QED
      BY <3>2, <3>3
  <2>5. Holds(n, Len(K)) \/ (file.newline /\ OneMore(n, Len(K)))
    BY <2>1, <2>2, <2>4
  <2> QED
    BY <2>5 DEF K, Holds, OneMore
<1> QED
  BY <1>1, Ordered, PTL
=============================================================================
