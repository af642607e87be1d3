-------------------------- MODULE SlabListLemmas --------------------------
(***************************************************************************)
(* Facts about the slab lists of SlabAllocator that hold whatever the      *)
(* state is: where the walks of the search loops lead, and what the list   *)
(* surgery of allocator_add_slab() and allocator_remove_slab() preserves.  *)
(* Induction is by the least counterexample (LeastNat).                    *)
(***************************************************************************)
EXTENDS SlabAllocator, FiniteSetTheorems, SequenceTheorems, TLAPS

(* Every nonempty set of natural numbers has a least element. *)
LEMMA LeastNat ==
  ASSUME NEW T, T \subseteq Nat, T # {}
  PROVE  \E x \in T : \A y \in T : x <= y
<1> DEFINE R == OpToRel(<, Nat)
<1>1. \E x \in T : \A y \in T : ~ (<<y, x>> \in R)
  <2> HIDE DEF R
  <2>1. IsWellFoundedOn(R, Nat)
    BY NatLessThanWellFounded DEF R
  <2> QED BY <2>1, WFMin, Zenon
<1>2. \A x, y \in Nat : y < x => <<y, x>> \in R
  BY DEF OpToRel
<1> HIDE DEF R
<1>3. PICK x \in T : \A y \in T : ~ (<<y, x>> \in R)
  BY <1>1, Zenon
<1>4. \A y \in T : ~ (y < x)
  BY <1>2, <1>3, Zenon
<1> QED
  BY <1>4

(* A slab has room for at least one node of each size. *)
LEMMA NumNodesType ==
  ASSUME NEW c \in Supported
  PROVE  c \in Nat /\ NumNodes(c) \in Nat /\ NumNodes(c) >= 1
  BY SizeAssumption, SlabSizeAssumption DEF NumNodes, NODE_HEADER_SIZE

----------------------------------------------------------------------------
(* Paths and slab lists are sequences of slabs. *)
LEMMA PathType ==
  ASSUME NEW w \in SlabSeq
  PROVE  /\ w \in Seq(Slab) /\ Len(w) \in Nat /\ DOMAIN w = 1..Len(w)
         /\ w \in [1..Len(w) -> Slab]
         /\ w \in Path => Len(w) >= 1
<1>1. CASE w \in Path
  <2>1. Cardinality(Slab) \in Nat
    BY SlabAssumption, FS_CardinalityType
  <2>2. PICK n \in 1..Cardinality(Slab) : w \in [1..n -> Slab]
    BY <1>1 DEF Path
  <2>3. n \in Nat /\ n >= 1
    BY <2>1, <2>2
  <2>4. w \in Seq(Slab)
    BY <2>2, <2>3, SeqDef
  <2>5. Len(w) = n
    BY <2>2, <2>3, <2>4
  <2> QED
    BY <2>2, <2>3, <2>4, <2>5
<1>2. CASE w = <<>> /\ w \notin Path
  <2>1. <<>> \in Seq(Slab) /\ Len(<<>>) = 0
    BY EmptySeq
  <2> QED
    BY <1>2, <2>1, LenProperties
<1> QED
  BY <1>1, <1>2 DEF SlabSeq

(* A sequence that names no slab twice is a path. *)
LEMMA InjectivePath ==
  ASSUME NEW n \in Nat, NEW w \in [1..n -> Slab], IsInjective(w)
  PROVE  w \in SlabSeq /\ (n >= 1 => w \in Path)
<1>1. CASE n = 0
  <2>1. w = <<>>
    BY <1>1
  <2> QED
    BY <1>1, <2>1 DEF SlabSeq
<1>2. CASE n >= 1
  <2>1. w \in Injection(1..n, Slab)
    BY DEF Injection
  <2>2. Cardinality(1..n) <= Cardinality(Slab)
    BY <2>1, SlabAssumption, FS_Injection
  <2>3. Cardinality(1..n) = n
    BY FS_Interval, <1>2
  <2>4. Cardinality(Slab) \in Nat
    BY SlabAssumption, FS_CardinalityType
  <2>5. n \in 1..Cardinality(Slab)
    BY <1>2, <2>2, <2>3, <2>4
  <2> QED
    BY <2>5 DEF Path, SlabSeq
<1> QED
  BY <1>1, <1>2

(* What it means to be a list, one index or one member at a time. *)
LEMMA ListFacts ==
  ASSUME NEW q \in SlabSeq, NEW h, NEW nx, NEW pv, NEW S, IsList(q, h, nx, pv, S)
  PROVE  /\ Len(q) \in Nat /\ q \in [1..Len(q) -> Slab]
         /\ \A i, j \in 1..Len(q) : q[i] = q[j] => i = j
         /\ \A i \in 1..Len(q) : q[i] \in S
         /\ \A s \in S : \E i \in 1..Len(q) : q[i] = s
         /\ Len(q) = 0 => h = NULL
         /\ Len(q) >= 1 => h = q[1] /\ nx[q[Len(q)]] = NULL /\ pv[q[1]] = NULL
         /\ \A i \in 1..Len(q) - 1 : nx[q[i]] = q[i + 1] /\ pv[q[i + 1]] = q[i]
<1>1. Len(q) \in Nat /\ q \in [1..Len(q) -> Slab] /\ DOMAIN q = 1..Len(q)
  BY PathType
<1>0. Len(q) \in Nat
  BY <1>1
<1>2. Range(q) = S /\ IsInjective(q)
  BY DEF IsList
<1>3. /\ \A i \in 1..Len(q) : q[i] \in S
      /\ \A s \in S : \E i \in 1..Len(q) : q[i] = s
  BY <1>1, <1>2 DEF Range
<1>4. \A i, j \in 1..Len(q) : q[i] = q[j] => i = j
  BY <1>1, <1>2 DEF IsInjective
<1>5. /\ Len(q) = 0 => h = NULL
      /\ Len(q) >= 1 => h = q[1]
  BY <1>0 DEF IsList
<1>6. Len(q) >= 1 => nx[q[Len(q)]] = NULL /\ pv[q[1]] = NULL
  BY <1>0 DEF IsList
<1>7. ASSUME NEW i \in 1..Len(q) - 1
      PROVE  nx[q[i]] = q[i + 1] /\ pv[q[i + 1]] = q[i]
  <2>1. i \in 1..Len(q) /\ i # Len(q) /\ i + 1 \in 1..Len(q) /\ i + 1 # 1
    BY <1>0
  <2>2. i + 1 - 1 = i
    BY <1>0
  <2> QED
    BY <2>1, <2>2 DEF IsList
<1> QED
  BY <1>1, <1>3, <1>4, <1>5, <1>6, <1>7

(* And conversely: a sequence with these links is a list. *)
LEMMA ListIntro ==
  ASSUME NEW n \in Nat, NEW q \in [1..n -> Slab], NEW h, NEW nx, NEW pv, NEW S,
         \A i, j \in 1..n : q[i] = q[j] => i = j,
         \A i \in 1..n : q[i] \in S,
         \A s \in S : \E i \in 1..n : q[i] = s,
         n = 0 => h = NULL,
         n >= 1 => h = q[1] /\ nx[q[n]] = NULL /\ pv[q[1]] = NULL,
         \A i \in 1..n - 1 : nx[q[i]] = q[i + 1] /\ pv[q[i + 1]] = q[i]
  PROVE  q \in SlabSeq /\ Len(q) = n /\ IsList(q, h, nx, pv, S)
<1>1. IsInjective(q)
  BY DEF IsInjective
<1>2. q \in SlabSeq
  BY <1>1, InjectivePath
<1>3. DOMAIN q = 1..n /\ Len(q) \in Nat /\ DOMAIN q = 1..Len(q)
  BY <1>2, PathType
<1>4. Len(q) = n
  BY <1>2, SeqDef, PathType
<1>5. Range(q) = S
  BY <1>3 DEF Range
<1>6. h = IF n = 0 THEN NULL ELSE q[1]
  OBVIOUS
<1>7. ASSUME NEW i \in 1..n
      PROVE  nx[q[i]] = IF i = n THEN NULL ELSE q[i + 1]
  <2>1. i # n => i \in 1..n - 1
    OBVIOUS
  <2> QED
    BY <2>1
<1>8. ASSUME NEW i \in 1..n
      PROVE  pv[q[i]] = IF i = 1 THEN NULL ELSE q[i - 1]
  <2>1. i # 1 => i - 1 \in 1..n - 1 /\ i - 1 + 1 = i
    OBVIOUS
  <2> QED
    BY <2>1
<1> QED
  BY <1>1, <1>2, <1>4, <1>5, <1>6, <1>7, <1>8 DEF IsList

(* A walk from the head of a slab list visits a prefix of it. *)
LEMMA WalkOfList ==
  ASSUME NEW h, NEW pv, NEW S, NEW q \in SlabSeq, IsList(q, h, next, pv, S),
         NEW w \in Walk(h)
  PROVE  /\ Len(w) \in Nat /\ Len(w) >= 1 /\ Len(w) <= Len(q)
         /\ \A i \in 1..Len(w) : w[i] = q[i]
<1> DEFINE Bad == {i \in 1..Len(w) : i > Len(q) \/ w[i] # q[i]}
<1>1. /\ w \in Path /\ w \in Seq(Slab) /\ Len(w) \in Nat /\ Len(w) >= 1
      /\ w \in [1..Len(w) -> Slab]
  BY PathType DEF Walk, SlabSeq
<1>2. Len(q) \in Nat /\ q \in [1..Len(q) -> Slab]
  BY ListFacts
<1>3. w[1] = h /\ \A i \in 1..Len(w) - 1 : w[i + 1] = next[w[i]]
  BY DEF Walk
<1>4. /\ Len(q) = 0 => h = NULL
      /\ Len(q) >= 1 => h = q[1] /\ next[q[Len(q)]] = NULL
      /\ \A i \in 1..Len(q) - 1 : next[q[i]] = q[i + 1]
  BY ListFacts
<1>5. \A i \in 1..Len(w) : w[i] # NULL
  BY <1>1, SlabAssumption
<1>6. Bad = {}
  <2>1. SUFFICES ASSUME Bad # {} PROVE FALSE
    OBVIOUS
  <2>2. PICK m \in Bad : \A i \in Bad : m <= i
    <3>1. Bad \subseteq Nat
      BY <1>1
    <3> QED
      BY <2>1, <3>1, LeastNat, Zenon
  <2>3. m \in 1..Len(w) /\ (m > Len(q) \/ w[m] # q[m])
    BY <2>2
  <2>4. CASE m = 1
    BY <1>1, <1>2, <1>3, <1>4, <1>5, <2>3, <2>4
  <2>5. CASE m # 1
    <3>1. m - 1 \in 1..Len(w) /\ m - 1 \in 1..Len(w) - 1
      BY <1>1, <2>3, <2>5
    <3>2. m - 1 \notin Bad
      BY <1>1, <2>2, <2>3
    <3>3. m - 1 <= Len(q) /\ w[m - 1] = q[m - 1]
      BY <3>1, <3>2, <1>1, <1>2
    <3>4. w[m] = next[q[m - 1]]
      <4>1. m - 1 + 1 = m
        BY <2>3, <1>1
      <4> QED
        BY <1>3, <3>1, <3>3, <4>1
    <3>5. CASE m - 1 = Len(q)
      <4>1. Len(q) >= 1
        BY <3>1, <3>5, <1>1
      <4> QED
        BY <3>4, <3>5, <4>1, <1>4, <1>5, <2>3
    <3>6. CASE m - 1 # Len(q)
      <4>1. m - 1 \in 1..Len(q) - 1 /\ m - 1 + 1 = m /\ m <= Len(q)
        BY <3>1, <3>3, <3>6, <1>1, <1>2, <2>3
      <4>2. w[m] = q[m]
        BY <3>4, <4>1, <1>4
      <4> QED
        BY <4>1, <4>2, <2>3, <1>1, <1>2
    <3> QED
      BY <3>5, <3>6
  <2> QED
    BY <2>4, <2>5
<1>7. \A i \in 1..Len(w) : i <= Len(q) /\ w[i] = q[i]
  BY <1>1, <1>2, <1>6
<1> QED
  BY <1>1, <1>2, <1>7

(* A loop over a list stops at one of its members,                         *)
LEMMA FirstIsMember ==
  ASSUME NEW h, NEW pv, NEW S, NEW q \in SlabSeq, IsList(q, h, next, pv, S),
         NEW T, NEW s \in FirstIn(h, T)
  PROVE  s \in T /\ s \in S
<1>1. PICK w \in Walk(h) : w[Len(w)] = s
  BY DEF FirstIn
<1>2. /\ Len(w) \in Nat /\ Len(w) >= 1 /\ Len(w) <= Len(q)
      /\ \A i \in 1..Len(w) : w[i] = q[i]
  BY WalkOfList
<1>3. s = q[Len(w)] /\ Len(w) \in 1..Len(q)
  BY <1>1, <1>2, PathType
<1> QED
  BY <1>3, ListFacts DEF FirstIn

(* a loop that looks for a member finds it,                                *)
LEMMA MemberIsFound ==
  ASSUME NEW h, NEW pv, NEW S, NEW q \in SlabSeq, IsList(q, h, next, pv, S),
         NEW s \in S
  PROVE  s \in FirstIn(h, {s})
<1>1. Len(q) \in Nat /\ q \in [1..Len(q) -> Slab]
  BY ListFacts
<1>a. \A i, j \in 1..Len(q) : q[i] = q[j] => i = j
  BY ListFacts
<1>b. /\ Len(q) >= 1 => h = q[1]
      /\ \A i \in 1..Len(q) - 1 : next[q[i]] = q[i + 1]
  BY ListFacts
<1>2. PICK k \in 1..Len(q) : q[k] = s
  BY ListFacts
<1> DEFINE w == [i \in 1..k |-> q[i]]
<1>3. k \in Nat /\ k >= 1 /\ k <= Len(q)
  BY <1>1
<1>4. w \in [1..k -> Slab] /\ Len(w) = k
  BY <1>1, <1>3
<1>5. \A i \in 1..k : w[i] = q[i]
  OBVIOUS
<1> HIDE DEF w
<1>6. IsInjective(w)
  BY <1>1, <1>a, <1>3, <1>4, <1>5 DEF IsInjective
<1>7. w \in Path
  BY <1>3, <1>4, <1>6, InjectivePath
<1>8. w[1] = h
  BY <1>1, <1>b, <1>3, <1>5
<1>9. ASSUME NEW i \in 1..k - 1 PROVE w[i + 1] = next[w[i]]
  <2>1. i \in 1..k /\ i + 1 \in 1..k /\ i \in 1..Len(q) - 1
    BY <1>1, <1>3
  <2> QED
    BY <2>1, <1>5, <1>b
<1>10. w \in Walk(h)
  BY <1>4, <1>7, <1>8, <1>9 DEF Walk
<1>11. \A i \in 1..Len(w) - 1 : w[i] \notin {s}
  BY <1>1, <1>a, <1>2, <1>3, <1>4, <1>5
<1>12. w[Len(w)] = s
  BY <1>2, <1>3, <1>4, <1>5
<1> QED
  BY <1>10, <1>11, <1>12 DEF FirstIn

(* and a loop that runs off the list has seen every member.                *)
LEMMA NoneMeansNone ==
  ASSUME NEW h, NEW pv, NEW S, NEW q \in SlabSeq, IsList(q, h, next, pv, S),
         NEW T, NoneIn(h, T), NEW s \in S
  PROVE  s \notin T
<1>1. Len(q) \in Nat /\ q \in [1..Len(q) -> Slab]
  BY ListFacts
<1>a. /\ Len(q) >= 1 => h = q[1]
      /\ \A i \in 1..Len(q) - 1 : next[q[i]] = q[i + 1]
  BY ListFacts
<1>2. PICK k \in 1..Len(q) : q[k] = s
  BY ListFacts
<1>3. h # NULL
  <2>1. Len(q) >= 1 /\ 1 \in 1..Len(q)
    BY <1>1, <1>2
  <2> QED
    BY <1>1, <1>a, <2>1, SlabAssumption
<1>4. PICK w \in Walk(h) :
        next[w[Len(w)]] = NULL /\ \A i \in 1..Len(w) : w[i] \notin T
  BY <1>3 DEF NoneIn
<1>5. /\ Len(w) \in Nat /\ Len(w) >= 1 /\ Len(w) <= Len(q)
      /\ \A i \in 1..Len(w) : w[i] = q[i]
  BY WalkOfList
<1>6. Len(w) = Len(q)
  <2>1. SUFFICES ASSUME Len(w) # Len(q) PROVE FALSE
    OBVIOUS
  <2>2. Len(w) \in 1..Len(q) - 1 /\ Len(w) + 1 \in 1..Len(q) /\ Len(w) \in 1..Len(w)
    BY <1>1, <1>5, <2>1
  <2>3. next[q[Len(w)]] = NULL
    BY <1>4, <1>5, <2>2
  <2>4. next[q[Len(w)]] = q[Len(w) + 1]
    BY <1>a, <2>2
  <2> QED
    BY <2>2, <2>3, <2>4, <1>1, SlabAssumption
<1> QED
  BY <1>2, <1>4, <1>5, <1>6

----------------------------------------------------------------------------
(* List surgery.  A list only depends on the pointers of its members; *)
LEMMA ListFrame ==
  ASSUME NEW q \in SlabSeq, NEW h, NEW nx, NEW pv, NEW S, IsList(q, h, nx, pv, S),
         NEW nx2, NEW pv2,
         \A s \in S : nx2[s] = nx[s] /\ pv2[s] = pv[s]
  PROVE  IsList(q, h, nx2, pv2, S)
<1>1. \A i \in 1..Len(q) : q[i] \in S
  BY ListFacts
<1> QED
  BY <1>1 DEF IsList

(* a slab put before the first member, as allocator_add_slab() does; *)
PutFirst(s, h, nx, pv, S, nx2, pv2) ==
  /\ nx2[s] = h
  /\ pv2[s] = NULL
  /\ h \in S => pv2[h] = s
  /\ \A t \in S : nx2[t] = nx[t]
  /\ \A t \in S \ {h} : pv2[t] = pv[t]

(* Putting a new slab first makes the list one longer (lines 153-157). *)
LEMMA ListPush ==
  ASSUME NEW q \in SlabSeq, NEW h, NEW nx, NEW pv, NEW S, IsList(q, h, nx, pv, S),
         NEW s \in Slab, s \notin S, NEW nx2, NEW pv2,
         PutFirst(s, h, nx, pv, S, nx2, pv2)
  PROVE  \E r \in SlabSeq : Len(r) = Len(q) + 1 /\ IsList(r, s, nx2, pv2, S \cup {s})
<1>1. Len(q) \in Nat /\ q \in [1..Len(q) -> Slab]
  BY ListFacts
<1>2. /\ \A i, j \in 1..Len(q) : q[i] = q[j] => i = j
      /\ \A i \in 1..Len(q) : q[i] \in S
      /\ \A t \in S : \E i \in 1..Len(q) : q[i] = t
  BY ListFacts
<1>3. /\ Len(q) = 0 => h = NULL
      /\ Len(q) >= 1 => h = q[1] /\ nx[q[Len(q)]] = NULL /\ pv[q[1]] = NULL
      /\ \A i \in 1..Len(q) - 1 : nx[q[i]] = q[i + 1] /\ pv[q[i + 1]] = q[i]
  BY ListFacts
<1>p. /\ nx2[s] = h /\ pv2[s] = NULL /\ (h \in S => pv2[h] = s)
      /\ \A t \in S : nx2[t] = nx[t]
      /\ \A t \in S \ {h} : pv2[t] = pv[t]
  BY DEF PutFirst
<1> DEFINE n == Len(q) + 1
           r == [i \in 1..n |-> IF i = 1 THEN s ELSE q[i - 1]]
<1>4. n \in Nat /\ n >= 1 /\ \A i \in 1..n : i # 1 => i - 1 \in 1..Len(q)
  BY <1>1
<1>5. r \in [1..n -> Slab]
  BY <1>1, <1>4
<1>6. r[1] = s /\ \A i \in 1..n : i # 1 => r[i] = q[i - 1]
  BY <1>4
<1>7. \A i \in 1..Len(q) : i + 1 \in 1..n /\ r[i + 1] = q[i]
  BY <1>1
<1> HIDE DEF r
<1>8. \A i, j \in 1..n : r[i] = r[j] => i = j
  BY <1>2, <1>4, <1>6
<1>9. \A i \in 1..n : r[i] \in S \cup {s}
  BY <1>2, <1>4, <1>6
<1>10. \A t \in S \cup {s} : \E i \in 1..n : r[i] = t
  BY <1>2, <1>4, <1>6, <1>7
<1>11. nx2[r[n]] = NULL
  <2>1. CASE Len(q) = 0
    BY <2>1, <1>3, <1>6, <1>p
  <2>2. CASE Len(q) >= 1
    <3>1. Len(q) \in 1..Len(q) /\ r[n] = q[Len(q)]
      BY <2>2, <1>1, <1>7
    <3> QED
      BY <3>1, <1>2, <1>3, <1>p, <2>2
  <2> QED
    BY <2>1, <2>2, <1>1
<1>12. ASSUME NEW i \in 1..n - 1
       PROVE  nx2[r[i]] = r[i + 1] /\ pv2[r[i + 1]] = r[i]
  <2>1. i \in 1..Len(q) /\ r[i + 1] = q[i] /\ q[i] \in S /\ Len(q) >= 1
    BY <1>1, <1>2, <1>7
  <2>2. CASE i = 1
    <3>1. r[i] = s /\ r[i + 1] = h /\ h \in S
      BY <2>1, <2>2, <1>3, <1>6
    <3> QED
      BY <3>1, <1>p
  <2>3. CASE i # 1
    <3>1. i - 1 \in 1..Len(q) - 1 /\ i - 1 \in 1..Len(q) /\ i - 1 + 1 = i /\ i \in 1..n
      BY <2>1, <2>3, <1>1
    <3>2. r[i] = q[i - 1] /\ q[i - 1] \in S
      BY <3>1, <2>3, <1>6, <1>2
    <3>3. nx[q[i - 1]] = q[i] /\ pv[q[i]] = q[i - 1]
      BY <3>1, <1>3
    <3>4. q[i] # h
      BY <2>1, <2>3, <1>1, <1>2, <1>3
    <3> QED
      BY <3>2, <3>3, <3>4, <2>1, <1>p
  <2> QED
    BY <2>2, <2>3
<1>13. r \in SlabSeq /\ Len(r) = n /\ IsList(r, s, nx2, pv2, S \cup {s})
  <2>1. n >= 1 => s = r[1] /\ nx2[r[n]] = NULL /\ pv2[r[1]] = NULL
    BY <1>6, <1>11, <1>p
  <2>2. n = 0 => s = NULL
    BY <1>4
  <2>3. \A i \in 1..n - 1 : nx2[r[i]] = r[i + 1] /\ pv2[r[i + 1]] = r[i]
    BY <1>12
  <2> HIDE DEF n
  <2> QED
    BY <2>1, <2>2, <2>3, <1>4, <1>5, <1>8, <1>9, <1>10, ListIntro, Zenon
<1> QED
  BY <1>13

(* and a member taken out anywhere, as the three cases of *)
(* allocator_remove_slab() do: *)
(* first what remains of the order, then the pointers. *)
Remains(r, q, k, S) ==
  /\ \A i \in 1..Len(q) - 1 : i < k => r[i] = q[i]
  /\ \A i \in 1..Len(q) - 1 : i >= k => r[i] = q[i + 1]
  /\ \A i, j \in 1..Len(q) - 1 : r[i] = r[j] => i = j
  /\ \A i \in 1..Len(q) - 1 : r[i] \in S \ {q[k]}
  /\ \A t \in S \ {q[k]} : \E i \in 1..Len(q) - 1 : r[i] = t

(* Leaving one member out of a sequence keeps the others, each once. *)
LEMMA DropMember ==
  ASSUME NEW q \in SlabSeq, NEW h, NEW nx, NEW pv, NEW S, IsList(q, h, nx, pv, S),
         NEW k \in 1..Len(q)
  PROVE  \E r \in [1..Len(q) - 1 -> Slab] : Remains(r, q, k, S)
<1>1. Len(q) \in Nat /\ q \in [1..Len(q) -> Slab]
  BY ListFacts
<1>2. \A i, j \in 1..Len(q) : q[i] = q[j] => i = j
  BY ListFacts
<1>3. /\ \A i \in 1..Len(q) : q[i] \in S
      /\ \A t \in S : \E i \in 1..Len(q) : q[i] = t
  BY ListFacts
<1> DEFINE m == Len(q) - 1
           r == [i \in 1..m |-> IF i < k THEN q[i] ELSE q[i + 1]]
<1>4. m \in Nat /\ k \in Nat /\ k >= 1 /\ k <= m + 1 /\ Len(q) = m + 1
  BY <1>1
<1>5. \A i \in 1..m : i \in 1..Len(q) /\ i + 1 \in 1..Len(q)
  BY <1>4
<1>6. r \in [1..m -> Slab]
  BY <1>1, <1>5
<1>7. /\ \A i \in 1..m : i < k => r[i] = q[i]
      /\ \A i \in 1..m : i >= k => r[i] = q[i + 1]
  BY <1>4
<1> HIDE DEF r, m
<1>8. ASSUME NEW i \in 1..m, NEW j \in 1..m, r[i] = r[j] PROVE i = j
  <2>1. CASE i < k /\ j < k
    BY <2>1, <1>8, <1>2, <1>5, <1>7
  <2>2. CASE i >= k /\ j >= k
    <3>1. q[i + 1] = q[j + 1]
      BY <2>2, <1>8, <1>7
    <3> QED
      BY <3>1, <1>2, <1>4, <1>5
  <2>3. CASE i < k /\ j >= k
    <3>1. q[i] = q[j + 1]
      BY <2>3, <1>8, <1>7
    <3> QED
      BY <3>1, <2>3, <1>2, <1>4, <1>5
  <2>4. CASE i >= k /\ j < k
    <3>1. q[i + 1] = q[j]
      BY <2>4, <1>8, <1>7
    <3> QED
      BY <3>1, <2>4, <1>2, <1>4, <1>5
  <2> QED
    BY <2>1, <2>2, <2>3, <2>4, <1>4
<1>9. ASSUME NEW i \in 1..m PROVE r[i] \in S \ {q[k]}
  <2>1. CASE i < k
    BY <2>1, <1>2, <1>3, <1>4, <1>5, <1>7
  <2>2. CASE i >= k
    <3>1. i + 1 # k /\ i + 1 \in 1..Len(q) /\ r[i] = q[i + 1]
      BY <2>2, <1>4, <1>5, <1>7
    <3> QED
      BY <3>1, <1>2, <1>3
  <2> QED
    BY <2>1, <2>2, <1>4
<1>10. ASSUME NEW t \in S \ {q[k]} PROVE \E i \in 1..m : r[i] = t
  <2>1. PICK j \in 1..Len(q) : q[j] = t
    BY <1>3
  <2>2. CASE j < k
    <3>1. j \in 1..m
      BY <2>2, <1>4
    <3> QED
      BY <3>1, <2>1, <2>2, <1>7
  <2>3. CASE j > k
    <3>1. j - 1 \in 1..m /\ j - 1 >= k /\ j - 1 + 1 = j
      BY <2>3, <1>4
    <3> QED
      BY <3>1, <2>1, <1>7
  <2> QED
    BY <2>1, <2>2, <2>3, <1>4
<1> QED
  BY <1>6, <1>7, <1>8, <1>9, <1>10 DEF m, Remains

TakenOut(s, h, nx, pv, S, h2, nx2, pv2) ==
  /\ s = h => h2 = nx[s]
  /\ s # h => h2 = h /\ nx2[pv[s]] = nx[s]
  /\ nx[s] \in S => pv2[nx[s]] = pv[s]
  /\ \A t \in S : s = h \/ t # pv[s] => nx2[t] = nx[t]
  /\ \A t \in S \ {nx[s]} : pv2[t] = pv[t]

(* Linking the neighbours of a slab to each other removes it from the list *)
(* (lines 172-189).                                                        *)
LEMMA ListRemove ==
  ASSUME NEW q \in SlabSeq, NEW h, NEW nx, NEW pv, NEW S, IsList(q, h, nx, pv, S),
         NEW s \in S, NEW h2, NEW nx2, NEW pv2,
         TakenOut(s, h, nx, pv, S, h2, nx2, pv2)
  PROVE  \E r \in SlabSeq : Len(r) = Len(q) - 1 /\ IsList(r, h2, nx2, pv2, S \ {s})
<1>t. /\ s = h => h2 = nx[s]
      /\ s # h => h2 = h /\ nx2[pv[s]] = nx[s]
      /\ nx[s] \in S => pv2[nx[s]] = pv[s]
      /\ \A t \in S : s = h \/ t # pv[s] => nx2[t] = nx[t]
      /\ \A t \in S \ {nx[s]} : pv2[t] = pv[t]
  BY DEF TakenOut
<1>1. Len(q) \in Nat /\ q \in [1..Len(q) -> Slab]
  BY ListFacts
<1>2. \A i, j \in 1..Len(q) : q[i] = q[j] => i = j
  BY ListFacts
<1>3. \A i \in 1..Len(q) : q[i] \in S
  BY ListFacts
<1>4. Len(q) >= 1 => h = q[1] /\ nx[q[Len(q)]] = NULL /\ pv[q[1]] = NULL
  BY ListFacts
<1>5. \A i \in 1..Len(q) - 1 : nx[q[i]] = q[i + 1] /\ pv[q[i + 1]] = q[i]
  BY ListFacts
<1>6. PICK k \in 1..Len(q) : q[k] = s
  BY ListFacts
<1>r. PICK r \in [1..Len(q) - 1 -> Slab] : Remains(r, q, k, S)
  BY DropMember
<1>7. /\ \A i \in 1..Len(q) - 1 : i < k => r[i] = q[i]
      /\ \A i \in 1..Len(q) - 1 : i >= k => r[i] = q[i + 1]
      /\ \A i, j \in 1..Len(q) - 1 : r[i] = r[j] => i = j
      /\ \A i \in 1..Len(q) - 1 : r[i] \in S \ {q[k]}
      /\ \A t \in S \ {q[k]} : \E i \in 1..Len(q) - 1 : r[i] = t
  BY <1>r DEF Remains
<1> DEFINE n == Len(q)
           m == n - 1
<1>8. n \in Nat /\ m \in Nat /\ n >= 1 /\ n = m + 1 /\ k \in Nat /\ k >= 1 /\ k <= n
  BY <1>1
<1>k. k = n \/ k < n
  <2> HIDE DEF n, m
  <2> QED
    BY <1>8
<1>9. NULL \notin S
  <2>1. \A t \in S : \E i \in 1..Len(q) : q[i] = t
    BY ListFacts
  <2> QED
    BY <2>1, <1>1, SlabAssumption
<1>10. s = h <=> k = 1
  BY <1>2, <1>4, <1>6, <1>8
<1>11. k > 1 => k - 1 \in 1..n /\ pv[s] = q[k - 1] /\ q[k - 1] # s
  <2>1. SUFFICES ASSUME k > 1 PROVE k - 1 \in 1..n /\ pv[s] = q[k - 1] /\ q[k - 1] # s
    OBVIOUS
  <2>2. k - 1 \in 1..n - 1 /\ k - 1 \in 1..n /\ k - 1 + 1 = k
    BY <2>1, <1>8
  <2> QED
    BY <2>2, <1>2, <1>5, <1>6
<1>12. k < n => k \in 1..n - 1 /\ k + 1 \in 1..n /\ nx[s] = q[k + 1]
  BY <1>5, <1>6, <1>8
<1>13. k = n => nx[s] = NULL
  BY <1>4, <1>6, <1>8
<1>14. \A i \in 1..n : nx[s] = q[i] => i = k + 1
  <2>1. SUFFICES ASSUME NEW i \in 1..n, nx[s] = q[i] PROVE i = k + 1
    OBVIOUS
  <2>2. CASE k < n
    BY <2>1, <2>2, <1>2, <1>12
  <2>3. CASE k = n
    BY <2>1, <2>3, <1>3, <1>9, <1>13
  <2> QED
    BY <2>2, <2>3, <1>k
<1>15. \A i \in 1..n : k > 1 /\ pv[s] = q[i] => i = k - 1
  BY <1>2, <1>11
<1>16. \A i \in 1..n : k = 1 \/ i # k - 1 => nx2[q[i]] = nx[q[i]]
  BY <1>3, <1>8, <1>10, <1>15, <1>t
<1>17. \A i \in 1..n : i # k + 1 => pv2[q[i]] = pv[q[i]]
  BY <1>3, <1>14, <1>t
<1>18. m = 0 => h2 = NULL
  <2>1. SUFFICES ASSUME m = 0 PROVE h2 = NULL
    OBVIOUS
  <2>2. k = 1 /\ k = n
    BY <2>1, <1>8
  <2> QED
    BY <2>2, <1>10, <1>13, <1>t
<1>19. ASSUME m >= 1 PROVE h2 = r[1] /\ nx2[r[m]] = NULL /\ pv2[r[1]] = NULL
  <2>1. 1 \in 1..m /\ m \in 1..m /\ n \in 1..n /\ 1 \in 1..n
    BY <1>8, <1>19
  <2>2. h2 = r[1] /\ pv2[r[1]] = NULL
    <3>1. CASE k = 1
      <4>1. nx[s] = q[2] /\ r[1] = q[2] /\ 2 \in 1..n
        BY <3>1, <2>1, <1>7, <1>8, <1>12, <1>19
      <4>2. h2 = q[2] /\ q[2] \in S
        BY <4>1, <3>1, <1>3, <1>10, <1>t
      <4>3. pv2[q[2]] = pv[q[1]]
        BY <4>1, <4>2, <3>1, <1>6, <1>t
      <4> QED
        BY <4>1, <4>2, <4>3, <1>4, <1>8
    <3>2. CASE k > 1
      <4>1. r[1] = q[1] /\ h2 = q[1]
        BY <3>2, <2>1, <1>4, <1>7, <1>8, <1>10, <1>t
      <4> QED
        BY <4>1, <3>2, <2>1, <1>4, <1>8, <1>17
    <3> QED
      BY <3>1, <3>2, <1>8
  <2>3. nx2[r[m]] = NULL
    <3>1. CASE k = n
      <4>1. r[m] = q[m] /\ m = k - 1 /\ k > 1
        BY <3>1, <2>1, <1>7, <1>8, <1>19
      <4> QED
        BY <4>1, <3>1, <1>8, <1>10, <1>11, <1>13, <1>t
    <3>2. CASE k < n
      <4>1. r[m] = q[n]
        BY <3>2, <2>1, <1>7, <1>8
      <4> QED
        BY <4>1, <3>2, <2>1, <1>4, <1>8, <1>16
    <3> QED
      BY <3>1, <3>2, <1>k
  <2> QED
    BY <2>2, <2>3
<1>20. ASSUME NEW i \in 1..m - 1
       PROVE  nx2[r[i]] = r[i + 1] /\ pv2[r[i + 1]] = r[i]
  <2>1. i \in 1..m /\ i + 1 \in 1..m /\ i \in 1..n - 1 /\ i + 1 \in 1..n - 1 /\ i \in 1..n
        /\ i + 1 \in 1..n /\ i + 2 \in 1..n /\ i \in Nat
    BY <1>8
  <2>2. CASE i + 1 < k
    <3>1. r[i] = q[i] /\ r[i + 1] = q[i + 1]
      BY <2>1, <2>2, <1>7, <1>8
    <3>2. nx2[q[i]] = nx[q[i]] /\ pv2[q[i + 1]] = pv[q[i + 1]]
      BY <2>1, <2>2, <1>8, <1>16, <1>17
    <3> QED
      BY <3>1, <3>2, <2>1, <1>5
  <2>3. CASE i + 1 = k
    <3>1. r[i] = pv[s] /\ r[i + 1] = nx[s] /\ nx[s] \in S /\ s # h
      <4>1. k > 1 /\ k < n /\ i = k - 1
        BY <2>1, <2>3, <1>8
      <4>2. r[i] = q[i] /\ r[i + 1] = q[i + 2]
        BY <2>1, <2>3, <1>7, <1>8
      <4>3. nx[s] = q[i + 2]
        BY <4>1, <2>3, <1>12, <1>8
      <4> QED
        BY <4>1, <4>2, <4>3, <2>1, <1>3, <1>10, <1>11
    <3> QED
      BY <3>1, <1>t
  <2>4. CASE i + 1 > k
    <3>1. r[i] = q[i + 1] /\ r[i + 1] = q[i + 2]
      BY <2>1, <2>4, <1>7, <1>8
    <3>2. nx2[q[i + 1]] = nx[q[i + 1]] /\ pv2[q[i + 2]] = pv[q[i + 2]]
      BY <2>1, <2>4, <1>8, <1>16, <1>17
    <3>3. nx[q[i + 1]] = q[i + 2] /\ pv[q[i + 2]] = q[i + 1]
      BY <2>1, <1>5
    <3> QED
      BY <3>1, <3>2, <3>3
  <2> QED
    BY <2>1, <2>2, <2>3, <2>4, <1>8
<1>21. r \in SlabSeq /\ Len(r) = m /\ IsList(r, h2, nx2, pv2, S \ {s})
  <2>1. r \in [1..m -> Slab] /\ m \in Nat
    BY <1>7, <1>8
  <2>2. /\ \A i, j \in 1..m : r[i] = r[j] => i = j
        /\ \A i \in 1..m : r[i] \in S \ {s}
        /\ \A t \in S \ {s} : \E i \in 1..m : r[i] = t
    BY <1>6, <1>7
  <2>3. \A i \in 1..m - 1 : nx2[r[i]] = r[i + 1] /\ pv2[r[i + 1]] = r[i]
    BY <1>20
  <2> HIDE DEF m
  <2> QED
    BY <2>1, <2>2, <2>3, <1>18, <1>19, ListIntro, Zenon
<1> QED
  BY <1>21
=============================================================================
