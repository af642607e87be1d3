--------------------------- MODULE LinkedListProofs ---------------------------
(***************************************************************************)
(* The list of linked_list.c is well linked after any calls, for every     *)
(* finite set of nodes, and behaves as the sequence linked_list.h promises *)
(* as long as the allocator provides and no index is cut to fit the        *)
(* unsigned int of the traversal.                                          *)
(*                                                                         *)
(* IsOrder says of a sequence that the fields and pointers of a list are   *)
(* about it.  There is at most one: the nodes met from the head (Chain).   *)
(* An insertion or a removal changes it as the sequence of ListSpec        *)
(* changes (Put, Taken).  Induction is by the least counterexample.        *)
(***************************************************************************)
EXTENDS LinkedList, FiniteSetTheorems, SequenceTheorems, TLAPS

(* Every nonempty set of natural numbers has a least element.              *)
LEMMA LeastNat ==
  ASSUME NEW T, T \subseteq Nat, T # {}
  PROVE  \E x \in T : \A y \in T : x <= y
<1> DEFINE R == OpToRel(<, Nat)
<1>1. \E x \in T : \A y \in T : ~ (<<y, x>> \in R)
  <2> HIDE DEF R
  <2>1. IsWellFoundedOn(R, Nat)
    BY NatLessThanWellFounded DEF R
  <2> QED BY <2>1, WFMin, Zenon
<1>2. \A x, y \in Nat : y < x => <<y, x>> \in R
  BY DEF OpToRel
<1> HIDE DEF R
<1>3. PICK x \in T : \A y \in T : ~ (<<y, x>> \in R)
  BY <1>1, Zenon
<1>4. \A y \in T : ~ (y < x)
  BY <1>2, <1>3, Zenon
<1> QED
  BY <1>4

(* A walk is whatever sequence of steps starts at n and follows f.         *)
Walks(g, f, n, k) ==
  g = [a \in 0..k |-> IF a = 0 THEN n
                      ELSE IF g[a - 1] \in Node THEN f[g[a - 1]] ELSE g[a - 1]]

Follows(g, f, n, k) ==
  /\ g[0] = n
  /\ \A a \in 1..k : g[a] = IF g[a - 1] \in Node THEN f[g[a - 1]] ELSE g[a - 1]

LEMMA WalkSteps ==
  ASSUME NEW f, NEW n, NEW k \in Nat, NEW g, Walks(g, f, n, k)
  PROVE  Follows(g, f, n, k)
<1> DEFINE h == [a \in 0..k |-> IF a = 0 THEN n
                      ELSE IF g[a - 1] \in Node THEN f[g[a - 1]] ELSE g[a - 1]]
<1>1. /\ h[0] = n
      /\ \A a \in 1..k : h[a] = IF g[a - 1] \in Node THEN f[g[a - 1]] ELSE g[a - 1]
  OBVIOUS
<1>2. g = h
  BY DEF Walks
<1> HIDE DEF h
<1> QED
  BY <1>1, <1>2 DEF Follows

LEMMA AlongIs ==
  ASSUME NEW f, NEW n, NEW k \in Nat, NEW g, Walks(g, f, n, k)
  PROVE  Along(f, n, k) = g[k]
<1> DEFINE at == CHOOSE h : Walks(h, f, n, k)
<1>1. Along(f, n, k) = at[k]
  BY DEF Along, Walks
<1>2. Walks(at, f, n, k)
  OBVIOUS
<1> HIDE DEF at
<1>3. Follows(g, f, n, k) /\ Follows(at, f, n, k)
  BY <1>2, WalkSteps, Zenon
<1> DEFINE Bad == {a \in 0..k : g[a] # at[a]}
<1>4. Bad = {}
  <2> SUFFICES ASSUME Bad # {} PROVE FALSE
    OBVIOUS
  <2>1. PICK a \in Bad : \A b \in Bad : a <= b
    <3>1. Bad \subseteq Nat
      OBVIOUS
    <3> QED
      BY <3>1, LeastNat, Zenon
  <2>2. a # 0 /\ a \in 1..k /\ a - 1 \in 0..k
    BY <1>3 DEF Follows
  <2>3. a - 1 \notin Bad
    BY <2>1, <2>2
  <2> QED
    BY <1>3, <2>1, <2>2, <2>3 DEF Follows
<1>5. k \in 0..k /\ k \notin Bad
  BY <1>4
<1>6. g[k] = at[k]
  BY <1>5
<1> QED
  BY <1>1, <1>6

----------------------------------------------------------------------------
(* q is the list with m nodes, from h to t, that nx and pv link, and its   *)
(* nodes are those of S.                                                   *)
IsOrder(q, m, h, t, nx, pv, S) ==
  /\ m \in Nat /\ q \in [1..m -> Node]
  /\ \A a, b \in 1..m : q[a] = q[b] => a = b
  /\ \A a \in 1..m : q[a] \in S
  /\ \A n \in S : \E a \in 1..m : q[a] = n
  /\ h = IF m = 0 THEN NULL ELSE q[1]
  /\ m > 0 => t = q[m] /\ nx[q[m]] = NULL /\ pv[q[1]] = NULL
  /\ \A a \in 1..m - 1 : nx[q[a]] = q[a + 1] /\ pv[q[a + 1]] = q[a]

(* Forward from any node of a list, *)
LEMMA Forward ==
  ASSUME NEW m, NEW q, NEW h, NEW t, NEW nx, NEW pv, NEW S, IsOrder(q, m, h, t, nx, pv, S),
         NEW a \in 1..m, NEW k \in Nat
  PROVE  Along(nx, q[a], k) = IF a + k <= m THEN q[a + k] ELSE NULL
<1> DEFINE g == [b \in 0..k |-> IF a + b <= m THEN q[a + b] ELSE NULL]
<1>0. m \in Nat /\ q \in [1..m -> Node] /\ NULL \notin Node
  BY NodeAssumption DEF IsOrder
<1>1. \A b \in 0..k : g[b] = IF b = 0 THEN q[a]
                           ELSE IF g[b - 1] \in Node THEN nx[g[b - 1]] ELSE g[b - 1]
  <2> SUFFICES ASSUME NEW b \in 0..k, b # 0
               PROVE  g[b] = IF g[b - 1] \in Node THEN nx[g[b - 1]] ELSE g[b - 1]
    BY <1>0
  <2>1. b - 1 \in 0..k /\ a + (b - 1) = (a + b) - 1
    BY <1>0
  <2>2. CASE a + b <= m
    <3>1. a + b - 1 \in 1..m - 1 /\ a + b - 1 \in 1..m /\ a + b - 1 + 1 = a + b
      BY <1>0, <2>1, <2>2
    <3>2. nx[q[a + b - 1]] = q[a + b] /\ q[a + b - 1] \in Node
      BY <1>0, <3>1 DEF IsOrder
    <3> QED
      BY <2>1, <2>2, <3>1, <3>2
  <2>3. CASE a + b = m + 1
    <3>1. a + b - 1 = m /\ m \in 1..m /\ m > 0
      BY <1>0, <2>3
    <3>2. nx[q[m]] = NULL /\ q[m] \in Node
      BY <1>0, <3>1 DEF IsOrder
    <3> QED
      BY <2>1, <2>3, <3>1, <3>2, <1>0
  <2>4. CASE a + b > m + 1
    BY <1>0, <2>1, <2>4
  <2> QED
    BY <1>0, <2>2, <2>3, <2>4
<1>2. Walks(g, nx, q[a], k)
  BY <1>1 DEF Walks
<1>3. k \in 0..k /\ g[k] = IF a + k <= m THEN q[a + k] ELSE NULL
  OBVIOUS
<1> HIDE DEF g
<1> QED
  BY <1>2, <1>3, AlongIs

(* and backward. *)
LEMMA Backward ==
  ASSUME NEW m, NEW q, NEW h, NEW t, NEW nx, NEW pv, NEW S, IsOrder(q, m, h, t, nx, pv, S),
         NEW a \in 1..m, NEW k \in 0..a - 1
  PROVE  Along(pv, q[a], k) = q[a - k]
<1> DEFINE g == [b \in 0..k |-> q[a - b]]
<1>0. m \in Nat /\ q \in [1..m -> Node] /\ k \in Nat
  BY DEF IsOrder
<1>a. a - 0 = a /\ 0 \in 0..k
  BY <1>0
<1>1. \A b \in 0..k : g[b] = IF b = 0 THEN q[a]
                           ELSE IF g[b - 1] \in Node THEN pv[g[b - 1]] ELSE g[b - 1]
  <2> SUFFICES ASSUME NEW b \in 0..k, b # 0
               PROVE  g[b] = IF g[b - 1] \in Node THEN pv[g[b - 1]] ELSE g[b - 1]
    BY <1>a
  <2>1. b - 1 \in 0..k /\ a - (b - 1) = a - b + 1 /\ a - b \in 1..m - 1
        /\ a - b + 1 \in 1..m
    BY <1>0
  <2>2. pv[q[a - b + 1]] = q[a - b] /\ q[a - b + 1] \in Node
    BY <1>0, <2>1 DEF IsOrder
  <2> QED
    BY <2>1, <2>2
<1>2. Walks(g, pv, q[a], k)
  BY <1>1 DEF Walks
<1>3. k \in 0..k /\ g[k] = q[a - k]
  BY <1>0
<1> HIDE DEF g
<1> QED
  BY <1>0, <1>2, <1>3, AlongIs

(* From the head: NULL once all nodes are behind. *)
LEMMA FromHead ==
  ASSUME NEW m, NEW q, NEW h, NEW t, NEW nx, NEW pv, NEW S, IsOrder(q, m, h, t, nx, pv, S),
         NEW k \in Nat
  PROVE  Along(nx, h, k) = IF k < m THEN q[k + 1] ELSE NULL
<1>0. m \in Nat /\ NULL \notin Node /\ h = IF m = 0 THEN NULL ELSE q[1]
  BY NodeAssumption DEF IsOrder
<1>1. CASE m > 0
  <2>1. 1 \in 1..m /\ h = q[1] /\ 1 + k = k + 1 /\ (1 + k <= m <=> k < m)
    BY <1>0, <1>1
  <2> QED
    BY <2>1, Forward
<1>2. CASE m = 0
  <2> DEFINE g == [b \in 0..k |-> NULL]
  <2>1. Walks(g, nx, NULL, k)
    BY <1>0 DEF Walks
  <2>2. k \in 0..k /\ g[k] = NULL
    OBVIOUS
  <2> HIDE DEF g
  <2>3. Along(nx, NULL, k) = NULL
    BY <2>1, <2>2, AlongIs
  <2> QED
    BY <2>3, <1>0, <1>2
<1> QED
  BY <1>0, <1>1, <1>2

(* The node at an index of the list is found from either end.              *)
LEMMA TraverseInside ==
  ASSUME NEW q, IsOrder(q, len, head, tail, next, prev, nodes), len <= UIntMax,
         NEW k \in 0..len - 1
  PROVE  Traverse(k) = q[k + 1]
<1>0. len \in Nat /\ UIntMax \in Nat /\ k \in Nat /\ len > 0 /\ k < len
  BY NumberAssumption DEF IsOrder
<1>1. UInt(len - 1) = len - 1
  BY <1>0 DEF UInt
<1>2. head = q[1] /\ tail = q[len]
  BY <1>0 DEF IsOrder
<1>3. len > 1 => next[head] = q[2] /\ prev[tail] = q[len - 1]
  <2> SUFFICES ASSUME len > 1 PROVE next[head] = q[2] /\ prev[tail] = q[len - 1]
    OBVIOUS
  <2>1. 1 \in 1..len - 1 /\ len - 1 \in 1..len - 1 /\ len - 1 + 1 = len /\ 1 + 1 = 2
    BY <1>0
  <2> QED
    BY <2>1, <1>2 DEF IsOrder
<1>4. CASE k = 0
  BY <1>2, <1>4 DEF Traverse
<1>5. CASE k # 0 /\ k = len - 1
  BY <1>0, <1>1, <1>2, <1>5 DEF Traverse
<1>6. CASE k # 0 /\ k # len - 1 /\ k >= len \div 2
  <2>1. /\ len > 1 /\ len - 1 \in 1..len /\ len - 2 - k \in 0..(len - 1) - 1
        /\ len - 1 - (len - 2 - k) = k + 1
    BY <1>0, <1>6
  <2>2. Along(prev, q[len - 1], len - 2 - k) = q[k + 1]
    BY <2>1, Backward
  <2> QED
    BY <2>1, <2>2, <1>0, <1>1, <1>3, <1>6 DEF Traverse
<1>7. CASE k # 0 /\ k # len - 1 /\ ~ (k >= len \div 2)
  <2>1. len > 1 /\ 2 \in 1..len /\ k - 1 \in Nat /\ 2 + (k - 1) = k + 1 /\ k + 1 <= len
    BY <1>0, <1>7
  <2>2. Along(next, q[2], k - 1) = q[k + 1]
    BY <2>1, Forward
  <2> QED
    BY <2>1, <2>2, <1>0, <1>1, <1>3, <1>7 DEF Traverse
<1> QED
  BY <1>4, <1>5, <1>6, <1>7

(* Beyond the list there is no node, but for the tail of an emptied one.   *)
LEMMA TraverseOutside ==
  ASSUME NEW q, IsOrder(q, len, head, tail, next, prev, nodes), len <= UIntMax,
         NEW k \in 0..UIntMax, k >= len
  PROVE  Traverse(k) = NULL \/ (len = 0 /\ k = UIntMax /\ Traverse(k) = tail)
<1>0. len \in Nat /\ UIntMax \in Nat \ {0} /\ k \in Nat
  BY NumberAssumption DEF IsOrder
<1>1. UInt(len - 1) = IF len = 0 THEN UIntMax ELSE len - 1
  BY <1>0 DEF UInt
<1>2. len = 0 => head = NULL
  BY DEF IsOrder
<1> QED
  BY <1>0, <1>1, <1>2 DEF Traverse

(* The nodes met from the head are the order of the list.                  *)
LEMMA ChainIs ==
  ASSUME NEW m, NEW q, NEW h, NEW t, NEW nx, NEW pv, NEW S, IsOrder(q, m, h, t, nx, pv, S)
  PROVE  [a \in 1..m |-> Along(nx, h, a - 1)] = q
<1>1. m \in Nat /\ q = [a \in 1..m |-> q[a]]
  BY DEF IsOrder
<1>2. ASSUME NEW a \in 1..m PROVE Along(nx, h, a - 1) = q[a]
  <2>1. a - 1 \in Nat /\ a - 1 < m /\ a - 1 + 1 = a
    BY <1>1
  <2> QED
    BY <2>1, FromHead
<1> QED
  BY <1>1, <1>2

(* There are as many nodes as the list is long, and room for one more as   *)
(* long as the allocator has one.                                          *)
LEMMA OrderSize ==
  ASSUME NEW m, NEW q, NEW h, NEW t, NEW nx, NEW pv, NEW S, IsOrder(q, m, h, t, nx, pv, S),
         S \subseteq Node
  PROVE  /\ m <= Cardinality(Node) /\ Cardinality(Node) \in Nat
         /\ m <= UIntMax /\ (Node \ S # {} => m + 1 <= UIntMax)
<1>1. m \in Nat /\ q \in [1..m -> Node] /\ IsFiniteSet(Node)
  BY NodeAssumption DEF IsOrder
<1>2. IsFiniteSet(S) /\ Cardinality(S) <= Cardinality(Node)
      /\ (Cardinality(Node) = Cardinality(S) => Node = S)
  BY <1>1, FS_Subset
<1>3. Cardinality(S) \in Nat /\ Cardinality(Node) \in Nat
  BY <1>1, <1>2, FS_CardinalityType
<1>4. q \in Injection(1..m, S)
  <2>1. q \in [1..m -> S]
    BY <1>1 DEF IsOrder
  <2> QED
    BY <2>1 DEF Injection, IsInjective, IsOrder
<1>5. Cardinality(1..m) <= Cardinality(S)
  BY <1>2, <1>4, FS_Injection
<1>6. Cardinality(1..m) = m
  BY <1>1, FS_Interval
<1> QED
  BY <1>1, <1>2, <1>3, <1>5, <1>6, NumberAssumption

----------------------------------------------------------------------------
(* n behind the first p of m nodes. *)
Put(q, m, p, n) ==
  [a \in 1..m + 1 |-> IF a <= p THEN q[a] ELSE IF a = p + 1 THEN n ELSE q[a - 1]]

PutLinks(q, m, p, n, h, t, nx, pv, h2, t2, nx2, pv2) ==
  /\ h2 = IF p = 0 THEN n ELSE h
  /\ t2 = IF p = m THEN n ELSE t
  /\ nx2[n] = IF p = m THEN NULL ELSE q[p + 1]
  /\ pv2[n] = IF p = 0 THEN NULL ELSE q[p]
  /\ p > 0 => nx2[q[p]] = n
  /\ p < m => pv2[q[p + 1]] = n
  /\ \A a \in 1..m : a # p => nx2[q[a]] = nx[q[a]]
  /\ \A a \in 1..m : a # p + 1 => pv2[q[a]] = pv[q[a]]

LEMMA PutOrder ==
  ASSUME NEW m, NEW q, NEW h, NEW t, NEW nx, NEW pv, NEW S, IsOrder(q, m, h, t, nx, pv, S),
         NEW p \in 0..m, NEW n \in Node \ S, NEW h2, NEW t2, NEW nx2, NEW pv2,
         PutLinks(q, m, p, n, h, t, nx, pv, h2, t2, nx2, pv2)
  PROVE  IsOrder(Put(q, m, p, n), m + 1, h2, t2, nx2, pv2, S \cup {n})
<1> DEFINE r == Put(q, m, p, n)
<1>0. m \in Nat /\ p \in Nat /\ p <= m /\ q \in [1..m -> Node] /\ m + 1 \in Nat
  BY DEF IsOrder
<1>1. /\ \A a \in 1..m + 1 : a <= p => a \in 1..m /\ r[a] = q[a]
      /\ \A a \in 1..m + 1 : a > p + 1 => a - 1 \in 1..m /\ r[a] = q[a - 1]
      /\ p + 1 \in 1..m + 1 /\ r[p + 1] = n
  BY <1>0 DEF Put
<1>2. r \in [1..m + 1 -> Node]
  <2>1. \A a \in 1..m + 1 : a <= p \/ a = p + 1 \/ a > p + 1
    BY <1>0
  <2>2. \A a \in 1..m + 1 : r[a] \in Node
    BY <1>0, <1>1, <2>1
  <2> QED
    BY <2>2 DEF Put
<1> HIDE DEF r
<1>3. /\ \A a, b \in 1..m : q[a] = q[b] => a = b
      /\ \A a \in 1..m : q[a] \in S
      /\ \A x \in S : \E a \in 1..m : q[a] = x
  BY DEF IsOrder
<1>4. ASSUME NEW a \in 1..m + 1, NEW b \in 1..m + 1, r[a] = r[b], a < b PROVE FALSE
  <2>1. CASE b <= p
    <3>1. r[a] = q[a] /\ r[b] = q[b] /\ a \in 1..m /\ b \in 1..m
      BY <2>1, <1>0, <1>1, <1>4
    <3>2. a = b
      BY <3>1, <1>3, <1>4
    <3> QED
      BY <3>2, <1>0, <1>4
  <2>2. CASE b = p + 1
    <3>1. r[a] = q[a] /\ a \in 1..m /\ r[b] = n
      BY <2>2, <1>0, <1>1, <1>4
    <3> QED
      BY <3>1, <1>3, <1>4
  <2>3. CASE b > p + 1
    <3>1. r[b] = q[b - 1] /\ b - 1 \in 1..m
      BY <2>3, <1>1
    <3>2. CASE a <= p
      <4>1. r[a] = q[a] /\ a \in 1..m /\ a # b - 1
        BY <2>3, <3>2, <1>0, <1>1
      <4> QED
        BY <3>1, <4>1, <1>3, <1>4
    <3>3. CASE a = p + 1
      BY <3>1, <3>3, <1>1, <1>3, <1>4
    <3>4. CASE a > p + 1
      <4>1. r[a] = q[a - 1] /\ a - 1 \in 1..m /\ a - 1 # b - 1
        BY <3>4, <1>0, <1>1, <1>4
      <4> QED
        BY <3>1, <4>1, <1>3, <1>4
    <3> QED
      BY <3>2, <3>3, <3>4, <1>0
  <2> QED
    BY <2>1, <2>2, <2>3, <1>0
<1>5. \A a \in 1..m + 1 : r[a] \in S \cup {n}
  BY <1>0, <1>1, <1>3
<1>6. ASSUME NEW x \in S \cup {n} PROVE \E a \in 1..m + 1 : r[a] = x
  <2>1. CASE x = n
    BY <2>1, <1>1
  <2>2. CASE x \in S
    <3>1. PICK a \in 1..m : q[a] = x
      BY <2>2, <1>3
    <3>2. CASE a <= p
      BY <3>1, <3>2, <1>0, <1>1
    <3>3. CASE a > p
      <4>1. a + 1 \in 1..m + 1 /\ a + 1 > p + 1 /\ a + 1 - 1 = a
        BY <3>1, <3>3, <1>0
      <4> QED
        BY <4>1, <3>1, <1>1
    <3> QED
      BY <3>2, <3>3, <1>0
  <2> QED
    BY <2>1, <2>2
<1>7. /\ p = 0 => h2 = n
      /\ p # 0 => h2 = h
      /\ p = m => t2 = n /\ nx2[n] = NULL
      /\ p # m => t2 = t /\ nx2[n] = q[p + 1]
      /\ p = 0 => pv2[n] = NULL
      /\ p # 0 => pv2[n] = q[p] /\ nx2[q[p]] = n
      /\ p # m => pv2[q[p + 1]] = n
      /\ \A a \in 1..m : a # p => nx2[q[a]] = nx[q[a]]
      /\ \A a \in 1..m : a # p + 1 => pv2[q[a]] = pv[q[a]]
  BY <1>0 DEF PutLinks
<1>8. /\ m > 0 => h = q[1] /\ t = q[m] /\ nx[q[m]] = NULL /\ pv[q[1]] = NULL
      /\ \A a \in 1..m - 1 : nx[q[a]] = q[a + 1] /\ pv[q[a + 1]] = q[a]
  BY <1>0 DEF IsOrder
<1>9. h2 = r[1] /\ pv2[r[1]] = NULL
  <2>1. CASE p = 0
    BY <2>1, <1>0, <1>1, <1>7
  <2>2. CASE p # 0
    <3>1. m > 0 /\ 1 \in 1..m /\ 1 \in 1..m + 1 /\ 1 <= p /\ 1 # p + 1
      BY <2>2, <1>0
    <3> QED
      BY <3>1, <2>2, <1>1, <1>7, <1>8
  <2> QED
    BY <2>1, <2>2
<1>10. t2 = r[m + 1] /\ nx2[r[m + 1]] = NULL
  <2>1. CASE p = m
    BY <2>1, <1>0, <1>1, <1>7
  <2>2. CASE p # m
    <3>1. m > 0 /\ m \in 1..m /\ m + 1 \in 1..m + 1 /\ m + 1 > p + 1 /\ m # p /\ m + 1 - 1 = m
      BY <2>2, <1>0
    <3> QED
      BY <3>1, <2>2, <1>1, <1>7, <1>8
  <2> QED
    BY <2>1, <2>2
<1>11. ASSUME NEW a \in 1..m PROVE nx2[r[a]] = r[a + 1] /\ pv2[r[a + 1]] = r[a]
  <2>0. a \in 1..m + 1 /\ a + 1 \in 1..m + 1 /\ a \in Nat
    BY <1>0
  <2>1. CASE a < p
    <3>1. a \in 1..m - 1 /\ a + 1 \in 1..m /\ a + 1 <= p /\ a # p /\ a + 1 # p + 1 /\ a <= p
      BY <2>1, <1>0
    <3> QED
      BY <3>1, <2>0, <1>1, <1>7, <1>8
  <2>2. CASE a = p
    BY <2>0, <2>2, <1>0, <1>1, <1>7
  <2>3. CASE a = p + 1
    <3>1. r[a] = n /\ p # m /\ a + 1 > p + 1 /\ a + 1 - 1 = p + 1
      BY <2>0, <2>3, <1>0, <1>1
    <3> QED
      BY <3>1, <2>0, <1>1, <1>7
  <2>4. CASE a > p + 1
    <3>1. /\ a - 1 \in 1..m - 1 /\ a - 1 \in 1..m /\ a - 1 # p /\ a # p + 1 /\ a + 1 > p + 1
          /\ a + 1 - 1 = a /\ a - 1 + 1 = a
      BY <2>0, <2>4, <1>0
    <3> QED
      BY <3>1, <2>0, <2>4, <1>1, <1>7, <1>8
  <2> QED
    BY <2>0, <2>1, <2>2, <2>3, <2>4, <1>0
<1>12. \A a, b \in 1..m + 1 : r[a] = r[b] => a = b
  BY <1>0, <1>4
<1>13. m + 1 - 1 = m /\ m + 1 > 0 /\ m + 1 # 0
  BY <1>0
<1> QED
  BY <1>0, <1>2, <1>5, <1>6, <1>9, <1>10, <1>11, <1>12, <1>13 DEF IsOrder, r

(* All of m nodes but the one at p. *)
Taken(q, m, p) == [a \in 1..m - 1 |-> IF a < p THEN q[a] ELSE q[a + 1]]

TakenLinks(q, m, p, h, t, nx, pv, h2, t2, nx2, pv2) ==
  /\ h2 = IF p > 1 THEN h ELSE IF m = 1 THEN NULL ELSE q[2]
  /\ m > 1 => t2 = IF p = m THEN q[m - 1] ELSE t
  /\ p > 1 => nx2[q[p - 1]] = IF p = m THEN NULL ELSE q[p + 1]
  /\ p < m => pv2[q[p + 1]] = IF p = 1 THEN NULL ELSE q[p - 1]
  /\ \A a \in 1..m : a # p /\ a # p - 1 => nx2[q[a]] = nx[q[a]]
  /\ \A a \in 1..m : a # p /\ a # p + 1 => pv2[q[a]] = pv[q[a]]

LEMMA TakenOrder ==
  ASSUME NEW m, NEW q, NEW h, NEW t, NEW nx, NEW pv, NEW S, IsOrder(q, m, h, t, nx, pv, S),
         NEW p \in 1..m, NEW h2, NEW t2, NEW nx2, NEW pv2,
         TakenLinks(q, m, p, h, t, nx, pv, h2, t2, nx2, pv2)
  PROVE  IsOrder(Taken(q, m, p), m - 1, h2, t2, nx2, pv2, S \ {q[p]})
<1> DEFINE r == Taken(q, m, p)
           l == m - 1
<1>0. /\ m \in Nat /\ p \in Nat /\ 1 <= p /\ p <= m /\ q \in [1..m -> Node]
      /\ l \in Nat /\ m = l + 1 /\ l = m - 1
  BY DEF IsOrder
<1>1. /\ \A a \in 1..l : a < p => a \in 1..m /\ r[a] = q[a]
      /\ \A a \in 1..l : a >= p => a + 1 \in 1..m /\ r[a] = q[a + 1]
  BY <1>0 DEF Taken
<1>2. r \in [1..l -> Node]
  <2>1. \A a \in 1..l : a < p \/ a >= p
    BY <1>0
  <2>2. \A a \in 1..l : r[a] \in Node
    BY <1>0, <1>1, <2>1
  <2> QED
    BY <2>2 DEF Taken
<1> HIDE DEF r, l
<1>3. /\ \A a, b \in 1..m : q[a] = q[b] => a = b
      /\ \A a \in 1..m : q[a] \in S
      /\ \A x \in S : \E a \in 1..m : q[a] = x
  BY DEF IsOrder
<1>4. ASSUME NEW a \in 1..l, NEW b \in 1..l, r[a] = r[b], a < b PROVE FALSE
  <2>1. CASE b < p
    <3>1. r[a] = q[a] /\ r[b] = q[b] /\ a \in 1..m /\ b \in 1..m
      BY <2>1, <1>0, <1>1, <1>4
    <3>2. a = b
      BY <3>1, <1>3, <1>4
    <3> QED
      BY <3>2, <1>0, <1>4
  <2>2. CASE b >= p
    <3>1. r[b] = q[b + 1] /\ b + 1 \in 1..m
      BY <2>2, <1>1
    <3>2. CASE a < p
      <4>1. r[a] = q[a] /\ a \in 1..m /\ a # b + 1
        BY <3>2, <1>0, <1>1, <1>4
      <4> QED
        BY <3>1, <4>1, <1>3, <1>4
    <3>3. CASE a >= p
      <4>1. r[a] = q[a + 1] /\ a + 1 \in 1..m /\ a + 1 # b + 1
        BY <3>3, <1>0, <1>1, <1>4
      <4> QED
        BY <3>1, <4>1, <1>3, <1>4
    <3> QED
      BY <3>2, <3>3, <1>0
  <2> QED
    BY <2>1, <2>2, <1>0
<1>5. ASSUME NEW a \in 1..l PROVE r[a] \in S \ {q[p]}
  <2>1. CASE a < p
    <3>1. r[a] = q[a] /\ a \in 1..m /\ a # p
      BY <2>1, <1>0, <1>1
    <3> QED
      BY <3>1, <1>3
  <2>2. CASE a >= p
    <3>1. r[a] = q[a + 1] /\ a + 1 \in 1..m /\ a + 1 # p
      BY <2>2, <1>0, <1>1
    <3> QED
      BY <3>1, <1>3
  <2> QED
    BY <2>1, <2>2, <1>0
<1>6. ASSUME NEW x \in S \ {q[p]} PROVE \E a \in 1..l : r[a] = x
  <2>1. PICK a \in 1..m : q[a] = x
    BY <1>3
  <2>2. CASE a < p
    <3>1. a \in 1..l
      BY <2>2, <1>0
    <3> QED
      BY <3>1, <2>1, <2>2, <1>1
  <2>3. CASE a > p
    <3>1. a - 1 \in 1..l /\ a - 1 >= p /\ a - 1 + 1 = a
      BY <2>3, <1>0
    <3> QED
      BY <3>1, <2>1, <1>1
  <2> QED
    BY <2>1, <2>2, <2>3, <1>0
<1>7. /\ p > 1 => h2 = h
      /\ p = 1 /\ m = 1 => h2 = NULL
      /\ p = 1 /\ m # 1 => h2 = q[2]
      /\ m > 1 /\ p = m => t2 = q[l]
      /\ m > 1 /\ p # m => t2 = t
      /\ p > 1 /\ p = m => nx2[q[p - 1]] = NULL
      /\ p > 1 /\ p # m => nx2[q[p - 1]] = q[p + 1]
      /\ p < m /\ p = 1 => pv2[q[p + 1]] = NULL
      /\ p < m /\ p # 1 => pv2[q[p + 1]] = q[p - 1]
      /\ \A a \in 1..m : a # p /\ a # p - 1 => nx2[q[a]] = nx[q[a]]
      /\ \A a \in 1..m : a # p /\ a # p + 1 => pv2[q[a]] = pv[q[a]]
  BY <1>0 DEF TakenLinks
<1>m. m > 0 /\ m # 0
  BY <1>0
<1>8. /\ h = q[1] /\ t = q[m] /\ nx[q[m]] = NULL /\ pv[q[1]] = NULL
      /\ \A a \in 1..m - 1 : nx[q[a]] = q[a + 1] /\ pv[q[a + 1]] = q[a]
  BY <1>m DEF IsOrder
<1>9. ASSUME l > 0 PROVE h2 = r[1] /\ pv2[r[1]] = NULL
  <2>1. CASE p = 1
    <3>1. r[1] = q[2] /\ m # 1 /\ p < m /\ p + 1 = 2
      BY <2>1, <1>0, <1>1, <1>9
    <3> QED
      BY <3>1, <2>1, <1>7
  <2>2. CASE p > 1
    <3>1. r[1] = q[1] /\ 1 \in 1..m /\ 1 # p /\ 1 # p + 1
      BY <2>2, <1>0, <1>1, <1>9
    <3> QED
      BY <3>1, <2>2, <1>7, <1>8
  <2> QED
    BY <2>1, <2>2, <1>0
<1>10. ASSUME l > 0 PROVE t2 = r[l] /\ nx2[r[l]] = NULL
  <2>1. CASE p = m
    <3>1. r[l] = q[l] /\ p > 1 /\ p - 1 = l /\ m > 1
      BY <2>1, <1>0, <1>1, <1>10
    <3> QED
      BY <3>1, <2>1, <1>7
  <2>2. CASE p # m
    <3>1. r[l] = q[m] /\ m > 1 /\ m \in 1..m /\ m # p - 1
      BY <2>2, <1>0, <1>1, <1>10
    <3> QED
      BY <3>1, <2>2, <1>7, <1>8
  <2> QED
    BY <2>1, <2>2
<1>11. ASSUME NEW a \in 1..l - 1 PROVE nx2[r[a]] = r[a + 1] /\ pv2[r[a + 1]] = r[a]
  <2>0. a \in 1..l /\ a + 1 \in 1..l /\ a \in Nat /\ a \in 1..m - 1 /\ a + 1 \in 1..m - 1
    BY <1>0
  <2>1. CASE a + 1 < p
    <3>1. r[a] = q[a] /\ r[a + 1] = q[a + 1] /\ a \in 1..m /\ a + 1 \in 1..m
      BY <2>0, <2>1, <1>0, <1>1
    <3>2. a # p /\ a # p - 1 /\ a + 1 # p /\ a + 1 # p + 1
      BY <2>0, <2>1, <1>0
    <3> QED
      BY <3>1, <3>2, <2>0, <1>7, <1>8
  <2>2. CASE a + 1 = p
    <3>1. r[a] = q[p - 1] /\ r[a + 1] = q[p + 1] /\ p > 1 /\ p < m /\ p # m /\ p # 1
      BY <2>0, <2>2, <1>0, <1>1
    <3> QED
      BY <3>1, <1>7
  <2>3. CASE a + 1 > p
    <3>1. r[a] = q[a + 1] /\ r[a + 1] = q[a + 1 + 1] /\ a + 1 \in 1..m /\ a + 1 + 1 \in 1..m
      BY <2>0, <2>3, <1>0, <1>1
    <3>2. a + 1 # p /\ a + 1 # p - 1 /\ a + 1 + 1 # p /\ a + 1 + 1 # p + 1
      BY <2>0, <2>3, <1>0
    <3> QED
      BY <3>1, <3>2, <2>0, <1>7, <1>8
  <2> QED
    BY <2>0, <2>1, <2>2, <2>3, <1>0
<1>12. \A a, b \in 1..l : r[a] = r[b] => a = b
  BY <1>0, <1>4
<1>13. h2 = IF l = 0 THEN NULL ELSE r[1]
  <2>1. l = 0 => m = 1 /\ p = 1
    BY <1>0
  <2>2. l # 0 => l > 0
    BY <1>0
  <2> QED
    BY <2>1, <2>2, <1>7, <1>9
<1>14. IsOrder(r, l, h2, t2, nx2, pv2, S \ {q[p]})
  BY <1>0, <1>2, <1>5, <1>6, <1>9, <1>10, <1>11, <1>12, <1>13 DEF IsOrder
<1> QED
  BY <1>14 DEF l, r

----------------------------------------------------------------------------
(* The inductive invariant: WellLinked as IsOrder, and the iterators.      *)
Listed ==
  IF ll THEN IsOrder(Chain, len, head, tail, next, prev, nodes) ELSE nodes = {}

Inv == TypeOK /\ Listed /\ IteratorsOnNodes

(* The values of a list, in its order.                                     *)
LEMMA ContentsAre ==
  ASSUME NEW m, NEW q, NEW h, NEW t, NEW nx, NEW pv, NEW S, IsOrder(q, m, h, t, nx, pv, S),
         NEW dt
  PROVE  [a \in 1..m |-> IF Along(nx, h, a - 1) \in Node THEN dt[Along(nx, h, a - 1)]
                                                        ELSE Garbage]
           = [a \in 1..m |-> dt[q[a]]]
<1>1. m \in Nat /\ q \in [1..m -> Node]
  BY DEF IsOrder
<1>2. ASSUME NEW a \in 1..m PROVE Along(nx, h, a - 1) = q[a]
  <2>1. a - 1 \in Nat /\ a - 1 < m /\ a - 1 + 1 = a
    BY <1>1
  <2> QED
    BY <2>1, FromHead
<1> QED
  BY <1>1, <1>2

(* What is known of a list between two calls.                              *)
LEMMA ListNow ==
  ASSUME Inv, ll
  PROVE  /\ IsOrder(Chain, len, head, tail, next, prev, nodes)
         /\ len \in Nat /\ len <= UIntMax /\ (Node \ nodes # {} => len + 1 <= UIntMax)
         /\ \A a \in 1..len : Chain[a] \in nodes /\ Chain[a] \in Node
         /\ Contents = [a \in 1..len |-> data[Chain[a]]]
         /\ Contents \in Seq(Value \cup {Garbage}) /\ Len(Contents) = len
<1>1. IsOrder(Chain, len, head, tail, next, prev, nodes)
  BY DEF Inv, Listed
<1>2. len \in Nat /\ \A a \in 1..len : Chain[a] \in nodes /\ Chain[a] \in Node
  BY <1>1 DEF IsOrder
<1>3. nodes \subseteq Node /\ data \in [Node -> Value \cup {Garbage}]
  BY DEF Inv, TypeOK
<1>4. len <= UIntMax /\ (Node \ nodes # {} => len + 1 <= UIntMax)
  BY <1>1, <1>3, OrderSize
<1>5. Contents = [a \in 1..len |-> data[Chain[a]]]
  <2>1. Contents = [a \in 1..len |-> IF Along(next, head, a - 1) \in Node
                                     THEN data[Along(next, head, a - 1)] ELSE Garbage]
    BY DEF Contents, Elem
  <2> QED
    BY <1>1, <2>1, ContentsAre
<1>6. Contents \in [1..len -> Value \cup {Garbage}]
  BY <1>2, <1>3, <1>5
<1>7. Contents \in Seq(Value \cup {Garbage}) /\ Len(Contents) = len
  BY <1>2, <1>6
<1> QED
  BY <1>1, <1>2, <1>4, <1>5, <1>7

(* A sequence that is the order of the list after a step is Chain then.    *)
LEMMA ListNext ==
  ASSUME ll', NEW q, IsOrder(q, len', head', tail', next', prev', nodes')
  PROVE  Chain' = q /\ Listed' /\ Contents' = [a \in 1..len' |-> data'[q[a]]]
<1>1. [a \in 1..len' |-> Along(next', head', a - 1)] = q
  BY ChainIs
<1>2. Chain' = q
  BY <1>1 DEF Chain
<1>3. Listed'
  BY <1>2 DEF Listed
<1>4. Contents' = [a \in 1..len' |-> IF Along(next', head', a - 1) \in Node
                                   THEN data'[Along(next', head', a - 1)] ELSE Garbage]
  BY DEF Contents, Elem
<1>5. Contents' = [a \in 1..len' |-> data'[q[a]]]
  BY <1>4, ContentsAre
<1> QED
  BY <1>2, <1>3, <1>5

----------------------------------------------------------------------------
(* A node that create_node() made, linked in at position p.                *)
LinkTypes ==
  /\ {head, tail} \subseteq Node \cup {NULL}
  /\ next \in [Node -> Node \cup {NULL, Garbage}]
  /\ prev \in [Node -> Node \cup {NULL, Garbage}]

LEMMA InsertEffect ==
  ASSUME Inv, ll, NEW p \in 0..len, NEW n \in Node \ nodes, NEW d \in Value, NEW i \in Nat,
         CreateNode(n, d, i), LinkTypes',
         PutLinks(Chain, len, p, n, head, tail, next, prev, head', tail', next', prev')
  PROVE  /\ Inv'
         /\ i = p => Promise!Insert(p, d)
<1>0. /\ IsOrder(Chain, len, head, tail, next, prev, nodes)
      /\ len \in Nat /\ len + 1 <= UIntMax /\ Contents = [a \in 1..len |-> data[Chain[a]]]
      /\ \A a \in 1..len : Chain[a] \in nodes /\ Chain[a] \in Node
      /\ Len(Contents) = len
  BY ListNow
<1>1. /\ nodes' = nodes \cup {n} /\ data' = [data EXCEPT ![n] = d]
      /\ call' = [name |-> "insert", at |-> i] /\ ret' = 1
      /\ UNCHANGED <<ll, iters, lost, crashed>>
  BY DEF CreateNode, Called
<1>2. len' = len + 1
  BY <1>0, NumberAssumption DEF CreateNode, UInt
<1> DEFINE r == Put(Chain, len, p, n)
<1>3. IsOrder(r, len', head', tail', next', prev', nodes')
  <2>1. IsOrder(r, len + 1, head', tail', next', prev', nodes \cup {n})
    BY <1>0, PutOrder
  <2> HIDE DEF r
  <2> QED
    BY <2>1, <1>1, <1>2
<1>4. Chain' = r /\ Listed' /\ Contents' = [a \in 1..len' |-> data'[r[a]]]
  <2> HIDE DEF r
  <2> QED
    BY <1>1, <1>3, ListNext
<1>5. TypeOK'
  <2>1. data' \in [Node -> Value \cup {Garbage}] /\ nodes' \subseteq Node
    BY <1>1 DEF Inv, TypeOK
  <2>2. len' \in 0..UIntMax /\ ret' \in 0..SizeMax
    BY <1>0, <1>1, <1>2, NumberAssumption
  <2>3. call' \in [name : CallName, at : Nat]
    BY <1>1 DEF CallName
  <2> QED
    BY <2>1, <2>2, <2>3, <1>1 DEF Inv, TypeOK, LinkTypes
<1>6. IteratorsOnNodes'
  <2> SUFFICES ASSUME NEW it \in Iter, iters[it] # NULL, it \notin lost
               PROVE  /\ iters[it].node \in nodes'
                      /\ iters[it].data = data'[iters[it].node]
    BY <1>1 DEF IteratorsOnNodes, InUse
  <2>1. iters[it].node \in nodes /\ iters[it].data = data[iters[it].node]
    BY DEF Inv, IteratorsOnNodes, InUse
  <2> QED
    BY <2>1, <1>1 DEF Inv, TypeOK
<1>7. ASSUME i = p PROVE Promise!Insert(p, d)
  <2>1. Promise!Inserted(p, d) =
          [k \in 1..len + 1 |-> IF k <= p THEN Contents[k]
                                ELSE IF k = p + 1 THEN d ELSE Contents[k - 1]]
    BY <1>0 DEF Promise!Inserted
  <2>2. ASSUME NEW k \in 1..len + 1
        PROVE  data'[r[k]] = IF k <= p THEN Contents[k]
                             ELSE IF k = p + 1 THEN d ELSE Contents[k - 1]
    <3>1. data'[n] = d /\ \A x \in nodes : data'[x] = data[x]
      BY <1>1 DEF Inv, TypeOK
    <3>2. CASE k <= p
      <4>1. k \in 1..len /\ r[k] = Chain[k]
        BY <3>2, <1>0 DEF Put
      <4> QED
        BY <4>1, <3>1, <3>2, <1>0
    <3>3. CASE k = p + 1
      <4>1. r[k] = n /\ ~ (k <= p)
        BY <3>3, <1>0 DEF Put
      <4> QED
        BY <4>1, <3>1, <3>3
    <3>4. CASE k > p + 1
      <4>1. k - 1 \in 1..len /\ r[k] = Chain[k - 1] /\ ~ (k <= p) /\ k # p + 1
        BY <3>4, <1>0 DEF Put
      <4> QED
        BY <4>1, <3>1, <1>0
    <3> QED
      BY <3>2, <3>3, <3>4, <1>0
  <2>3. Contents' = Promise!Inserted(p, d)
    BY <2>1, <2>2, <1>2, <1>4
  <2> QED
    BY <2>3, <1>0, <1>1, <1>7 DEF Promise!Insert, Promise!Called
<1> QED
  BY <1>4, <1>5, <1>6, <1>7 DEF Inv

(* A call that leaves the list and the iterators alone.                    *)
LEMMA FrameStep ==
  ASSUME Inv, UNCHANGED <<list, iters, lost>>, call' \in [name : CallName, at : Nat],
         ret' \in 0..SizeMax, crashed' \in BOOLEAN
  PROVE  Inv' /\ Contents' = Contents /\ Chain' = Chain
<1>0. UNCHANGED <<ll, head, tail, len, next, prev, data, nodes, iters, lost>>
  BY DEF list
<1>1. TypeOK'
  BY <1>0 DEF Inv, TypeOK
<1>2. Chain' = Chain /\ Contents' = Contents
  BY <1>0 DEF Chain, Contents, Elem
<1>3. Listed'
  BY <1>0, <1>2 DEF Inv, Listed
<1>4. IteratorsOnNodes'
  BY <1>0 DEF Inv, IteratorsOnNodes, InUse
<1> QED
  BY <1>1, <1>2, <1>3, <1>4 DEF Inv

LEMMA AnswerStep ==
  ASSUME Inv, NEW name \in CallName, NEW i \in Nat, NEW r \in 0..SizeMax, Answer(name, i, r)
  PROVE  Inv' /\ Contents' = Contents /\ Chain' = Chain
<1>1. /\ UNCHANGED <<list, iters, lost>> /\ crashed' \in BOOLEAN
      /\ call' = [name |-> name, at |-> i] /\ ret' = r
  BY DEF Answer, Called, Inv, TypeOK
<1>2. call' \in [name : CallName, at : Nat]
  BY <1>1
<1> QED
  BY <1>1, <1>2, FrameStep

LEMMA CrashStep ==
  ASSUME Inv, Crash
  PROVE  Inv'
<1>1. call' \in [name : CallName, at : Nat] /\ ret' \in 0..SizeMax /\ crashed' \in BOOLEAN
  BY DEF Crash, Inv, TypeOK
<1> QED
  BY <1>1, FrameStep DEF Crash

(* An insertion at either end.                                             *)
LEMMA LinkOnlyPuts ==
  ASSUME Inv, ll, head = NULL, NEW n \in Node \ nodes, LinkOnly(n)
  PROVE  /\ len = 0 /\ LinkTypes'
         /\ PutLinks(Chain, len, 0, n, head, tail, next, prev, head', tail', next', prev')
<1>1. len = 0
  BY ListNow, NodeAssumption DEF IsOrder
<1>2. \A a \in 1..len : FALSE
  BY <1>1
<1>3. /\ next \in [Node -> Node \cup {NULL, Garbage}] /\ prev \in [Node -> Node \cup {NULL, Garbage}]
      /\ head' = n /\ tail' = n /\ next' = [next EXCEPT ![n] = NULL]
      /\ prev' = [prev EXCEPT ![n] = NULL]
  BY DEF Inv, TypeOK, LinkOnly
<1>4. LinkTypes'
  BY <1>3 DEF LinkTypes
<1> QED
  BY <1>1, <1>2, <1>3, <1>4 DEF PutLinks

(* The first and the last node of a list that has nodes.                   *)
LEMMA EndsNow ==
  ASSUME Inv, ll, len > 0
  PROVE  /\ 1 \in 1..len /\ len \in 1..len /\ head = Chain[1] /\ tail = Chain[len]
         /\ head \in nodes /\ tail \in nodes /\ head \in Node /\ tail \in Node
         /\ next[tail] = NULL /\ prev[head] = NULL
         /\ \A a, b \in 1..len : Chain[a] = Chain[b] => a = b
<1>1. len \in Nat /\ IsOrder(Chain, len, head, tail, next, prev, nodes)
      /\ \A a \in 1..len : Chain[a] \in nodes /\ Chain[a] \in Node
  BY ListNow
<1>2. 1 \in 1..len /\ len \in 1..len /\ len # 0
  BY <1>1
<1> QED
  BY <1>1, <1>2 DEF IsOrder

LEMMA LinkLastPuts ==
  ASSUME Inv, ll, head # NULL, NEW n \in Node \ nodes, LinkLast(n)
  PROVE  /\ LinkTypes' /\ len \in 0..len
         /\ PutLinks(Chain, len, len, n, head, tail, next, prev, head', tail', next', prev')
<1>0. len \in Nat /\ len > 0 /\ \A a \in 1..len : Chain[a] \in nodes /\ Chain[a] \in Node
  BY ListNow DEF IsOrder
<1>1. /\ len \in 1..len /\ tail = Chain[len] /\ tail \in nodes /\ tail \in Node
      /\ \A a, b \in 1..len : Chain[a] = Chain[b] => a = b
  BY <1>0, EndsNow
<1>2. /\ next \in [Node -> Node \cup {NULL, Garbage}] /\ prev \in [Node -> Node \cup {NULL, Garbage}]
      /\ head \in Node \cup {NULL}
      /\ head' = head /\ tail' = n /\ next' = [next EXCEPT ![n] = NULL, ![tail] = n]
      /\ prev' = [prev EXCEPT ![n] = tail]
  BY DEF Inv, TypeOK, LinkLast
<1>3. LinkTypes'
  BY <1>1, <1>2 DEF LinkTypes
<1>4. next'[n] = NULL /\ prev'[n] = tail /\ next'[tail] = n
  BY <1>1, <1>2
<1>5. /\ \A a \in 1..len : a # len => next'[Chain[a]] = next[Chain[a]]
      /\ \A a \in 1..len : prev'[Chain[a]] = prev[Chain[a]]
  BY <1>0, <1>1, <1>2
<1>6. len # 0 /\ ~ (len < len)
  BY <1>0
<1> QED
  BY <1>0, <1>1, <1>2, <1>3, <1>4, <1>5, <1>6 DEF PutLinks

LEMMA LinkFirstPuts ==
  ASSUME Inv, ll, head # NULL, NEW n \in Node \ nodes, LinkFirst(n)
  PROVE  /\ LinkTypes' /\ 0 \in 0..len
         /\ PutLinks(Chain, len, 0, n, head, tail, next, prev, head', tail', next', prev')
<1>0. len \in Nat /\ len > 0 /\ \A a \in 1..len : Chain[a] \in nodes /\ Chain[a] \in Node
  BY ListNow DEF IsOrder
<1>1. /\ 1 \in 1..len /\ head = Chain[1] /\ head \in nodes /\ head \in Node
      /\ \A a, b \in 1..len : Chain[a] = Chain[b] => a = b
  BY <1>0, EndsNow
<1>2. /\ next \in [Node -> Node \cup {NULL, Garbage}] /\ prev \in [Node -> Node \cup {NULL, Garbage}]
      /\ tail \in Node \cup {NULL}
      /\ head' = n /\ tail' = tail /\ next' = [next EXCEPT ![n] = head]
      /\ prev' = [prev EXCEPT ![n] = NULL, ![head] = n]
  BY DEF Inv, TypeOK, LinkFirst
<1>3. LinkTypes'
  BY <1>1, <1>2 DEF LinkTypes
<1>4. next'[n] = head /\ prev'[n] = NULL /\ prev'[head] = n
  BY <1>1, <1>2
<1>5. /\ \A a \in 1..len : next'[Chain[a]] = next[Chain[a]]
      /\ \A a \in 1..len : a # 1 => prev'[Chain[a]] = prev[Chain[a]]
  BY <1>0, <1>1, <1>2
<1>6. 0 \in 0..len /\ 0 # len /\ 0 < len /\ 0 + 1 = 1 /\ ~ (0 > 0)
  BY <1>0
<1> QED
  BY <1>0, <1>1, <1>2, <1>3, <1>4, <1>5, <1>6 DEF PutLinks

(* The ends that a call follows are there when the list has a node, *)
LEMMA EndsHeld ==
  ASSUME Inv, ll, head # NULL
  PROVE  len > 0 /\ {head} \subseteq nodes /\ {tail} \subseteq nodes
<1>1. len \in Nat /\ len > 0
  BY ListNow DEF IsOrder
<1> QED
  BY <1>1, EndsNow

(* and so are the nodes that a traversal passes. *)
LEMMA WalkedHeld ==
  ASSUME Inv, ll, NEW u \in 0..UIntMax
  PROVE  Walked(u) \subseteq nodes
<1>0. /\ IsOrder(Chain, len, head, tail, next, prev, nodes) /\ len \in Nat /\ u \in Nat
      /\ \A a \in 1..len : Chain[a] \in nodes
  BY ListNow, NumberAssumption
<1>1. CASE u = 0 \/ u = UInt(len - 1) \/ u >= len
  BY <1>1 DEF Walked
<1>2. CASE ~ (u = 0 \/ u = UInt(len - 1) \/ u >= len)
  <2>1. len > 0 /\ u # 0 /\ u < len /\ len \in 1..len
    BY <1>0, <1>2
  <2>2. head \in nodes /\ tail \in nodes /\ tail = Chain[len]
    BY <2>1, EndsNow
  <2>3. ASSUME NEW k \in 1..len - 2 - u PROVE Along(prev, tail, k) \in nodes
    <3>1. k \in 0..len - 1 /\ len - k \in 1..len
      BY <2>1, <1>0
    <3>2. Along(prev, Chain[len], k) = Chain[len - k]
      BY <3>1, <2>1, <1>0, Backward
    <3> QED
      BY <3>1, <3>2, <2>2, <1>0
  <2>4. ASSUME NEW k \in 1..u - 1 PROVE Along(next, head, k) \in nodes
    <3>1. k \in Nat /\ k < len /\ k + 1 \in 1..len
      BY <2>1, <1>0
    <3>2. Along(next, head, k) = Chain[k + 1]
      BY <3>1, <1>0, FromHead
    <3> QED
      BY <3>1, <3>2, <1>0
  <2>5. CASE u >= len \div 2
    BY <1>2, <2>2, <2>3, <2>5 DEF Walked
  <2>6. CASE ~ (u >= len \div 2)
    BY <1>2, <2>2, <2>4, <2>6 DEF Walked
  <2> QED
    BY <2>5, <2>6
<1> QED
  BY <1>1, <1>2

LEMMA InsertEndStep ==
  ASSUME Inv, ll, NEW d \in Value, InsertEnd(d)
  PROVE  /\ Inv'
         /\ \/ "node" \in MallocFails /\ Crash
            \/ crashed' = crashed /\ Promise!Insert(len, d)
<1>0. len \in Nat /\ 0 \in 0..len /\ len \in 0..len
  BY ListNow
<1>1. CASE CreateNodeFails
  BY <1>1, CrashStep DEF CreateNodeFails
<1>2. CASE \E n \in Node \ nodes :
             IF head = NULL THEN CreateNode(n, d, len) /\ LinkOnly(n)
             ELSE Following({tail}, CreateNode(n, d, len) /\ LinkLast(n))
  <2>1. PICK n \in Node \ nodes :
             CreateNode(n, d, len) /\ IF head = NULL THEN LinkOnly(n) ELSE LinkLast(n)
    BY <1>2, EndsHeld DEF Following
  <2>2. crashed' = crashed
    BY <2>1 DEF CreateNode
  <2>3. CASE head = NULL
    <3>1. /\ len = 0 /\ LinkTypes'
          /\ PutLinks(Chain, len, 0, n, head, tail, next, prev, head', tail', next', prev')
      BY <2>1, <2>3, LinkOnlyPuts
    <3>2. Inv' /\ (len = 0 => Promise!Insert(0, d))
      BY <1>0, <2>1, <3>1, InsertEffect
    <3> QED
      BY <2>2, <3>1, <3>2
  <2>4. CASE head # NULL
    <3>1. /\ LinkTypes'
          /\ PutLinks(Chain, len, len, n, head, tail, next, prev, head', tail', next', prev')
      BY <2>1, <2>4, LinkLastPuts
    <3>2. Inv' /\ (len = len => Promise!Insert(len, d))
      BY <1>0, <2>1, <3>1, InsertEffect
    <3> QED
      BY <2>2, <3>2
  <2> QED
    BY <2>3, <2>4
<1> QED
  BY <1>1, <1>2 DEF InsertEnd

LEMMA InsertFrontStep ==
  ASSUME Inv, ll, NEW d \in Value, InsertFront(d)
  PROVE  /\ Inv'
         /\ \/ "node" \in MallocFails /\ Crash
            \/ crashed' = crashed /\ Promise!Insert(0, d)
<1>0. len \in Nat /\ 0 \in 0..len /\ 0 \in Nat
  BY ListNow
<1>1. CASE CreateNodeFails
  BY <1>1, CrashStep DEF CreateNodeFails
<1>2. CASE \E n \in Node \ nodes :
             IF head = NULL THEN CreateNode(n, d, 0) /\ LinkOnly(n)
             ELSE Following({head}, CreateNode(n, d, 0) /\ LinkFirst(n))
  <2>1. PICK n \in Node \ nodes :
             CreateNode(n, d, 0) /\ IF head = NULL THEN LinkOnly(n) ELSE LinkFirst(n)
    BY <1>2, EndsHeld DEF Following
  <2>2. crashed' = crashed
    BY <2>1 DEF CreateNode
  <2>3. /\ LinkTypes'
        /\ PutLinks(Chain, len, 0, n, head, tail, next, prev, head', tail', next', prev')
    BY <2>1, LinkOnlyPuts, LinkFirstPuts
  <2>4. Inv' /\ (0 = 0 => Promise!Insert(0, d))
    BY <1>0, <2>1, <2>3, InsertEffect
  <2> QED
    BY <2>2, <2>4
<1> QED
  BY <1>1, <1>2 DEF InsertFront

(* An insertion in front of a node that is not the first.                  *)
LEMMA LinkBeforePuts ==
  ASSUME Inv, ll, NEW p \in 1..len - 1, NEW n \in Node \ nodes, LinkBefore(n, Chain[p + 1])
  PROVE  /\ LinkTypes' /\ p \in 0..len
         /\ PutLinks(Chain, len, p, n, head, tail, next, prev, head', tail', next', prev')
<1>0. /\ len \in Nat /\ \A a \in 1..len : Chain[a] \in nodes /\ Chain[a] \in Node
      /\ IsOrder(Chain, len, head, tail, next, prev, nodes)
  BY ListNow
<1>1. /\ p \in 1..len /\ p + 1 \in 1..len /\ prev[Chain[p + 1]] = Chain[p]
      /\ \A a, b \in 1..len : Chain[a] = Chain[b] => a = b
  BY <1>0 DEF IsOrder
<1> DEFINE b == Chain[p]
           c == Chain[p + 1]
<1>2. b \in nodes /\ c \in nodes /\ b \in Node /\ c \in Node /\ n # b /\ n # c
  BY <1>0, <1>1
<1>3. /\ next \in [Node -> Node \cup {NULL, Garbage}] /\ prev \in [Node -> Node \cup {NULL, Garbage}]
      /\ {head, tail} \subseteq Node \cup {NULL}
      /\ head' = head /\ tail' = tail /\ next' = [next EXCEPT ![n] = c, ![b] = n]
      /\ prev' = [prev EXCEPT ![n] = b, ![c] = n]
  BY <1>1 DEF Inv, TypeOK, LinkBefore
<1>4. /\ \A a \in 1..len : a # p => Chain[a] # b /\ Chain[a] # n /\ Chain[a] \in Node
      /\ \A a \in 1..len : a # p + 1 => Chain[a] # c /\ Chain[a] # n /\ Chain[a] \in Node
  BY <1>0, <1>1
<1> HIDE DEF b, c
<1>5. LinkTypes'
  BY <1>2, <1>3 DEF LinkTypes
<1>6. next'[n] = c /\ prev'[n] = b /\ next'[b] = n /\ prev'[c] = n
  BY <1>2, <1>3
<1>7. /\ \A a \in 1..len : a # p => next'[Chain[a]] = next[Chain[a]]
      /\ \A a \in 1..len : a # p + 1 => prev'[Chain[a]] = prev[Chain[a]]
  BY <1>3, <1>4
<1>8. p # 0 /\ p # len /\ p \in 0..len
  BY <1>0
<1> QED
  BY <1>3, <1>5, <1>6, <1>7, <1>8 DEF PutLinks, b, c

LEMMA InsertMiddleStep ==
  ASSUME Inv, ll, NEW i \in Index, i # 0, i # len, NEW d \in Value, InsertMiddle(i, d)
  PROVE  /\ Inv'
         /\ Index \subseteq 0..UIntMax - 1 =>
              \/ "node" \in MallocFails /\ Crash
              \/ crashed' = crashed /\ Promise!Insert(i, d)
              \/ crashed' = crashed /\ Promise!NoInsert(i)
<1>0. /\ len \in Nat /\ len <= UIntMax /\ UIntMax \in Nat /\ i \in Nat /\ Len(Contents) = len
      /\ \A a \in 1..len : Chain[a] \in nodes /\ Chain[a] \in Node
      /\ IsOrder(Chain, len, head, tail, next, prev, nodes) /\ NULL \notin nodes
  <2>1. i \in Nat /\ UIntMax \in Nat
    BY NumberAssumption
  <2>2. NULL \notin nodes
    BY NodeAssumption DEF Inv, TypeOK
  <2> QED
    BY <2>1, <2>2, ListNow
<1> DEFINE u == UInt(i)
           c == Traverse(u)
<1>1. u \in 0..UIntMax /\ (Index \subseteq 0..UIntMax - 1 => u = i)
  BY <1>0 DEF UInt
<1> HIDE DEF u
<1>w. IF c = NULL THEN Answer("insert", i, 0)
      ELSE \/ CreateNodeFails
           \/ \E n \in Node \ nodes :
                Following({c, prev[c]}, CreateNode(n, d, i) /\ LinkBefore(n, c))
  <2>1. Walked(u) \subseteq nodes
    BY <1>1, WalkedHeld
  <2> QED
    BY <2>1 DEF InsertMiddle, Following, u
<1> HIDE DEF c
<1>2. CASE c = NULL
  <2>1. Answer("insert", i, 0)
    BY <1>2, <1>w
  <2>2. Inv' /\ Contents' = Contents
    <3>1. "insert" \in CallName /\ 0 \in 0..SizeMax
      BY NumberAssumption DEF CallName
    <3> QED
      BY <2>1, <3>1, <1>0, AnswerStep
  <2>3. ASSUME Index \subseteq 0..UIntMax - 1 PROVE i > len
    <3>1. u >= len
      <4> SUFFICES ASSUME u < len PROVE FALSE
        BY <1>0, <1>1
      <4>1. u \in 0..len - 1
        BY <1>0, <1>1
      <4>2. c = Chain[u + 1] /\ u + 1 \in 1..len
        BY <4>1, <1>0, TraverseInside DEF c
      <4> QED
        BY <4>2, <1>0, <1>2
    <3> QED
      BY <3>1, <2>3, <1>0, <1>1
  <2> QED
    BY <2>1, <2>2, <2>3, <1>0 DEF Answer, Called, list, Promise!NoInsert, Promise!Called
<1>3. CASE c # NULL /\ CreateNodeFails
  BY <1>3, CrashStep DEF CreateNodeFails
<1>4. CASE c # NULL /\ ~ ({c, prev[c]} \subseteq nodes) /\ Crash
  <2>1. Inv'
    BY <1>4, CrashStep
  <2>2. ASSUME Index \subseteq 0..UIntMax - 1 PROVE FALSE
    <3>1. u < len
      <4> SUFFICES ASSUME u >= len PROVE FALSE
        BY <1>0, <1>1
      <4>1. c = NULL \/ u = UIntMax
        BY <1>0, <1>1, TraverseOutside DEF c
      <4> QED
        BY <4>1, <1>4, <1>0, <1>1, <2>2
    <3>2. u \in 0..len - 1 /\ u + 1 \in 1..len /\ u \in 1..len - 1 /\ u \in 1..len
      BY <3>1, <1>0, <1>1, <2>2
    <3>3. c = Chain[u + 1]
      BY <3>2, <1>0, TraverseInside DEF c
    <3>4. prev[c] = Chain[u]
      BY <3>2, <3>3, <1>0 DEF IsOrder
    <3> QED
      BY <3>2, <3>3, <3>4, <1>0, <1>4
  <2> QED
    BY <2>1, <2>2
<1>5. CASE c # NULL /\ {c, prev[c]} \subseteq nodes
           /\ \E n \in Node \ nodes : CreateNode(n, d, i) /\ LinkBefore(n, c)
  <2>1. PICK n \in Node \ nodes : CreateNode(n, d, i) /\ LinkBefore(n, c)
    BY <1>5
  <2>2. u < len
    <3> SUFFICES ASSUME u >= len PROVE FALSE
      BY <1>0, <1>1
    <3>1. len = 0
      BY <1>0, <1>1, <1>5, TraverseOutside DEF c
    <3> QED
      BY <3>1, <1>0, <1>5 DEF IsOrder
  <2>3. u \in 0..len - 1 /\ u + 1 \in 1..len
    BY <2>2, <1>0, <1>1
  <2>4. c = Chain[u + 1]
    BY <2>3, <1>0, TraverseInside DEF c
  <2>5. u # 0
    <3> SUFFICES ASSUME u = 0 PROVE FALSE
      OBVIOUS
    <3>1. len > 0 /\ c = head
      BY <2>3, <1>0 DEF IsOrder, Traverse, c
    <3>2. prev[c] = NULL
      BY <3>1, EndsNow
    <3> QED
      BY <3>2, <1>0, <1>5
  <2>6. u \in 1..len - 1
    BY <2>3, <2>5, <1>0
  <2>7. /\ LinkTypes' /\ u \in 0..len
        /\ PutLinks(Chain, len, u, n, head, tail, next, prev, head', tail', next', prev')
    BY <2>1, <2>4, <2>6, LinkBeforePuts
  <2>8. Inv' /\ (i = u => Promise!Insert(u, d))
    BY <2>1, <2>7, <1>0, InsertEffect
  <2>9. crashed' = crashed
    BY <2>1 DEF CreateNode
  <2> QED
    BY <2>8, <2>9, <1>1
<1> QED
  BY <1>w, <1>2, <1>3, <1>4, <1>5 DEF Following

LEMMA InsertStep ==
  ASSUME Inv, ll, NEW i \in Index, NEW d \in Value, Insert(i, d)
  PROVE  /\ Inv'
         /\ Index \subseteq 0..UIntMax - 1 =>
              \/ "node" \in MallocFails /\ Crash
              \/ crashed' = crashed /\ Promise!Insert(i, d)
              \/ crashed' = crashed /\ Promise!NoInsert(i)
<1>1. CASE i = 0
  BY <1>1, InsertFrontStep DEF Insert
<1>2. CASE i # 0 /\ i = len
  BY <1>2, InsertEndStep DEF Insert
<1>3. CASE i # 0 /\ i # len
  BY <1>3, InsertMiddleStep DEF Insert
<1> QED
  BY <1>1, <1>2, <1>3

(* Removals.                                                               *)
LEMMA RemoveEffect ==
  ASSUME Inv, ll, NEW p \in 1..len, NEW i \in Nat, RemoveNode(i, Chain[p]), LinkTypes',
         TakenLinks(Chain, len, p, head, tail, next, prev, head', tail', next', prev')
  PROVE  Inv' /\ crashed' = crashed /\ (i = p - 1 => Promise!Remove(i))
<1>0. /\ IsOrder(Chain, len, head, tail, next, prev, nodes)
      /\ len \in Nat /\ len <= UIntMax /\ Contents = [a \in 1..len |-> data[Chain[a]]]
      /\ \A a \in 1..len : Chain[a] \in nodes /\ Chain[a] \in Node
      /\ Len(Contents) = len
  BY ListNow
<1> DEFINE c == Chain[p]
<1>1. /\ nodes' = nodes \ {c} /\ data' = Freed(data, {c})
      /\ lost' = lost \cup {it \in Iter : iters[it] # NULL /\ iters[it].node \in {c}}
      /\ call' = [name |-> "remove", at |-> i] /\ ret' = 1
      /\ UNCHANGED <<ll, iters, crashed>>
  BY DEF RemoveNode, FreeNodes, Called
<1>2. len' = len - 1
  <2>1. len - 1 \in 0..UIntMax /\ UIntMax \in Nat
    BY <1>0, NumberAssumption
  <2>2. UInt(len - 1) = len - 1
    BY <2>1 DEF UInt
  <2> QED
    BY <2>2 DEF RemoveNode
<1> DEFINE r == Taken(Chain, len, p)
<1>3. IsOrder(r, len', head', tail', next', prev', nodes')
  <2>1. IsOrder(r, len - 1, head', tail', next', prev', nodes \ {c})
    BY <1>0, TakenOrder
  <2> HIDE DEF r, c
  <2> QED
    BY <2>1, <1>1, <1>2
<1>4. Chain' = r /\ Listed' /\ Contents' = [a \in 1..len' |-> data'[r[a]]]
  <2> HIDE DEF r
  <2> QED
    BY <1>1, <1>3, ListNext
<1>x. \A x \in Node : data'[x] = IF x = c THEN Garbage ELSE data[x]
  BY <1>1 DEF Freed
<1>5. TypeOK'
  <2>1. data' \in [Node -> Value \cup {Garbage}] /\ nodes' \subseteq Node
    BY <1>1 DEF Inv, TypeOK, Freed
  <2>2. len' \in 0..UIntMax /\ ret' \in 0..SizeMax
    BY <1>0, <1>1, <1>2, NumberAssumption
  <2>3. call' \in [name : CallName, at : Nat]
    BY <1>1 DEF CallName
  <2>4. lost' \subseteq Iter
    BY <1>1 DEF Inv, TypeOK
  <2> QED
    BY <2>1, <2>2, <2>3, <2>4, <1>1 DEF Inv, TypeOK, LinkTypes
<1>6. IteratorsOnNodes'
  <2> SUFFICES ASSUME NEW it \in Iter, iters[it] # NULL, it \notin lost, iters[it].node # c
               PROVE  /\ iters[it].node \in nodes'
                      /\ iters[it].data = data'[iters[it].node]
    BY <1>1 DEF IteratorsOnNodes, InUse
  <2>1. iters[it].node \in nodes /\ iters[it].data = data[iters[it].node]
    BY DEF Inv, IteratorsOnNodes, InUse
  <2>2. nodes \subseteq Node
    BY DEF Inv, TypeOK
  <2> QED
    BY <2>1, <2>2, <1>1, <1>x
<1>7. ASSUME i = p - 1 PROVE Promise!Remove(i)
  <2>1. Promise!Removed(i) =
          [k \in 1..len - 1 |-> IF k <= i THEN Contents[k] ELSE Contents[k + 1]]
    BY <1>0 DEF Promise!Removed
  <2>2. ASSUME NEW k \in 1..len - 1
        PROVE  data'[r[k]] = IF k <= i THEN Contents[k] ELSE Contents[k + 1]
    <3>1. \A a \in 1..len : a # p => data'[Chain[a]] = data[Chain[a]]
      BY <1>0, <1>x DEF IsOrder
    <3>2. CASE k < p
      <4>1. k \in 1..len /\ r[k] = Chain[k] /\ k <= i /\ k # p
        BY <3>2, <1>0, <1>7 DEF Taken
      <4> QED
        BY <4>1, <3>1, <1>0
    <3>3. CASE k >= p
      <4>1. k + 1 \in 1..len /\ r[k] = Chain[k + 1] /\ ~ (k <= i) /\ k + 1 # p
        BY <3>3, <1>0, <1>7 DEF Taken
      <4> QED
        BY <4>1, <3>1, <1>0
    <3> QED
      BY <3>2, <3>3, <1>0
  <2>3. Contents' = Promise!Removed(i)
    BY <2>1, <2>2, <1>2, <1>4
  <2>4. i < Len(Contents)
    BY <1>0, <1>7
  <2> QED
    BY <2>3, <2>4, <1>0, <1>1 DEF Promise!Remove, Promise!Called
<1> QED
  BY <1>1, <1>4, <1>5, <1>6, <1>7 DEF Inv

(* What the links of a list are at a node and next to it.                  *)
LEMMA Around ==
  ASSUME Inv, ll, NEW p \in 1..len
  PROVE  /\ len \in Nat
         /\ next \in [Node -> Node \cup {NULL, Garbage}]
         /\ prev \in [Node -> Node \cup {NULL, Garbage}]
         /\ {head, tail} \subseteq Node \cup {NULL}
         /\ Chain[p] \in Node
         /\ p > 1 => p - 1 \in 1..len /\ prev[Chain[p]] = Chain[p - 1]
         /\ p < len => p + 1 \in 1..len /\ next[Chain[p]] = Chain[p + 1]
         /\ \A a \in 1..len : Chain[a] \in Node
         /\ \A a, b \in 1..len : Chain[a] = Chain[b] => a = b
<1>1. IsOrder(Chain, len, head, tail, next, prev, nodes)
      /\ len \in Nat /\ \A a \in 1..len : Chain[a] \in Node
  BY ListNow
<1>2. \A a, b \in 1..len : Chain[a] = Chain[b] => a = b
  BY <1>1 DEF IsOrder
<1>3. \A a \in 1..len - 1 : next[Chain[a]] = Chain[a + 1] /\ prev[Chain[a + 1]] = Chain[a]
  BY <1>1 DEF IsOrder
<1>4. ASSUME p > 1 PROVE p - 1 \in 1..len /\ prev[Chain[p]] = Chain[p - 1]
  <2>1. p - 1 \in 1..len - 1 /\ (p - 1) + 1 = p
    BY <1>1, <1>4
  <2> QED
    BY <2>1, <1>1, <1>3
<1>5. ASSUME p < len PROVE p + 1 \in 1..len /\ next[Chain[p]] = Chain[p + 1]
  BY <1>1, <1>3, <1>5
<1> QED
  BY <1>1, <1>2, <1>4, <1>5 DEF Inv, TypeOK

LEMMA UnlinkOnlyTakes ==
  ASSUME Inv, ll, len = 1, UnlinkOnly
  PROVE  /\ LinkTypes'
         /\ TakenLinks(Chain, len, 1, head, tail, next, prev, head', tail', next', prev')
<1>1. /\ next \in [Node -> Node \cup {NULL, Garbage}]
      /\ prev \in [Node -> Node \cup {NULL, Garbage}]
      /\ {head, tail} \subseteq Node \cup {NULL}
  BY DEF Inv, TypeOK
<1>2. LinkTypes'
  BY <1>1 DEF LinkTypes, UnlinkOnly, Freed
<1>3. \A a \in 1..len : a = 1
  OBVIOUS
<1> QED
  BY <1>2, <1>3 DEF TakenLinks, UnlinkOnly

LEMMA UnlinkHeadTakes ==
  ASSUME Inv, ll, len > 1, UnlinkHead
  PROVE  /\ LinkTypes' /\ 1 \in 1..len /\ head = Chain[1]
         /\ TakenLinks(Chain, len, 1, head, tail, next, prev, head', tail', next', prev')
<1>1. len \in Nat /\ 1 \in 1..len /\ head = Chain[1]
  BY ListNow, EndsNow
<1> DEFINE c == Chain[1]
           e == Chain[2]
<1>2. /\ next \in [Node -> Node \cup {NULL, Garbage}]
      /\ prev \in [Node -> Node \cup {NULL, Garbage}]
      /\ {head, tail} \subseteq Node \cup {NULL}
      /\ 2 \in 1..len /\ next[c] = e /\ c \in Node /\ e \in Node
      /\ \A a \in 1..len : Chain[a] \in Node
      /\ \A a \in 1..len : a # 1 => Chain[a] # c
      /\ \A a \in 1..len : a # 2 => Chain[a] # e
  <2>1. 1 < len /\ 1 + 1 = 2
    BY <1>1
  <2>2. 2 \in 1..len /\ next[c] = e
    BY <1>1, <2>1, Around
  <2> QED
    BY <1>1, <2>2, Around
<1>3. /\ head' = e /\ tail' = tail /\ next' = Freed(next, {c})
      /\ prev' = Freed([prev EXCEPT ![e] = NULL], {c})
  BY <1>1, <1>2 DEF UnlinkHead
<1>4. e # c
  BY <1>1, <1>2
<1> HIDE DEF c, e
<1>5. LinkTypes'
  BY <1>2, <1>3 DEF LinkTypes, Freed
<1>6. prev'[e] = NULL
  BY <1>2, <1>3, <1>4 DEF Freed
<1>7. /\ \A a \in 1..len : a # 1 => next'[Chain[a]] = next[Chain[a]]
      /\ \A a \in 1..len : a # 1 /\ a # 2 => prev'[Chain[a]] = prev[Chain[a]]
  BY <1>2, <1>3 DEF Freed
<1>8. len # 1 /\ 1 < len /\ ~ (1 > 1) /\ 1 + 1 = 2
  BY <1>1
<1> QED
  BY <1>1, <1>3, <1>5, <1>6, <1>7, <1>8 DEF TakenLinks, c, e

LEMMA UnlinkTailTakes ==
  ASSUME Inv, ll, len > 1, UnlinkTail
  PROVE  /\ LinkTypes' /\ len \in 1..len /\ tail = Chain[len]
         /\ TakenLinks(Chain, len, len, head, tail, next, prev, head', tail', next', prev')
<1>1. len \in Nat /\ len \in 1..len /\ tail = Chain[len]
  BY ListNow, EndsNow
<1> DEFINE c == Chain[len]
           b == Chain[len - 1]
<1>2. /\ next \in [Node -> Node \cup {NULL, Garbage}]
      /\ prev \in [Node -> Node \cup {NULL, Garbage}]
      /\ {head, tail} \subseteq Node \cup {NULL}
      /\ len - 1 \in 1..len /\ prev[c] = b /\ c \in Node /\ b \in Node
      /\ \A a \in 1..len : Chain[a] \in Node
      /\ \A a \in 1..len : a # len => Chain[a] # c
      /\ \A a \in 1..len : a # len - 1 => Chain[a] # b
  <2>1. len - 1 \in 1..len /\ prev[c] = b
    BY <1>1, Around
  <2> QED
    BY <1>1, <2>1, Around
<1>3. /\ head' = head /\ tail' = b /\ prev' = Freed(prev, {c})
      /\ next' = Freed([next EXCEPT ![b] = NULL], {c})
  BY <1>1, <1>2 DEF UnlinkTail
<1>4. b # c
  BY <1>1, <1>2
<1> HIDE DEF c, b
<1>5. LinkTypes'
  BY <1>2, <1>3 DEF LinkTypes, Freed
<1>6. next'[b] = NULL
  BY <1>2, <1>3, <1>4 DEF Freed
<1>7. /\ \A a \in 1..len : a # len => prev'[Chain[a]] = prev[Chain[a]]
      /\ \A a \in 1..len : a # len /\ a # len - 1 => next'[Chain[a]] = next[Chain[a]]
  BY <1>2, <1>3 DEF Freed
<1>8. ~ (len < len) /\ len # 1
  BY <1>1
<1> QED
  BY <1>1, <1>3, <1>5, <1>6, <1>7, <1>8 DEF TakenLinks, c, b

LEMMA UnlinkBodyTakes ==
  ASSUME Inv, ll, NEW p \in 2..len - 1, UnlinkBody(Chain[p])
  PROVE  /\ LinkTypes'
         /\ TakenLinks(Chain, len, p, head, tail, next, prev, head', tail', next', prev')
<1>1. len \in Nat
  BY ListNow
<1>a. p \in 1..len /\ p > 1 /\ p < len
  BY <1>1
<1> DEFINE b == Chain[p - 1]
           c == Chain[p]
           e == Chain[p + 1]
<1>2. /\ next \in [Node -> Node \cup {NULL, Garbage}]
      /\ prev \in [Node -> Node \cup {NULL, Garbage}]
      /\ {head, tail} \subseteq Node \cup {NULL}
      /\ p - 1 \in 1..len /\ p + 1 \in 1..len /\ prev[c] = b /\ next[c] = e
      /\ b \in Node /\ c \in Node /\ e \in Node
      /\ \A a \in 1..len : Chain[a] \in Node
      /\ \A a \in 1..len : a # p => Chain[a] # c
      /\ \A a \in 1..len : a # p - 1 => Chain[a] # b
      /\ \A a \in 1..len : a # p + 1 => Chain[a] # e
  <2>1. p - 1 \in 1..len /\ p + 1 \in 1..len /\ prev[c] = b /\ next[c] = e
    BY <1>1, <1>a, Around
  <2> QED
    BY <1>1, <1>a, <2>1, Around
<1>3. /\ head' = head /\ tail' = tail
      /\ next' = Freed([next EXCEPT ![b] = e], {c})
      /\ prev' = Freed([prev EXCEPT ![e] = b], {c})
  BY <1>2 DEF UnlinkBody
<1>4. b # c /\ e # c
  BY <1>1, <1>a, <1>2
<1> HIDE DEF c, b, e
<1>5. LinkTypes'
  BY <1>2, <1>3 DEF LinkTypes, Freed
<1>6. next'[b] = e /\ prev'[e] = b
  BY <1>2, <1>3, <1>4 DEF Freed
<1>7. /\ \A a \in 1..len : a # p /\ a # p + 1 => prev'[Chain[a]] = prev[Chain[a]]
      /\ \A a \in 1..len : a # p /\ a # p - 1 => next'[Chain[a]] = next[Chain[a]]
  BY <1>2, <1>3 DEF Freed
<1>8. p # len /\ p # 1 /\ len > 1
  BY <1>1, <1>a
<1> QED
  BY <1>a, <1>3, <1>5, <1>6, <1>7, <1>8 DEF TakenLinks, c, b, e

LEMMA RemoveStep ==
  ASSUME Inv, ll, NEW i \in Nat, Remove(i)
  PROVE  Inv' /\ crashed' = crashed /\ (Promise!Remove(i) \/ Promise!NoRemove(i))
<1>0. /\ len \in Nat /\ len <= UIntMax /\ UIntMax \in Nat /\ Len(Contents) = len
      /\ IsOrder(Chain, len, head, tail, next, prev, nodes)
  BY ListNow, NumberAssumption
<1>1. CASE i >= len
  <2>1. Answer("remove", i, 0)
    BY <1>1 DEF Remove
  <2>2. "remove" \in CallName /\ 0 \in 0..SizeMax
    BY NumberAssumption DEF CallName
  <2>3. Inv' /\ Contents' = Contents
    BY <2>1, <2>2, AnswerStep
  <2> QED
    BY <2>1, <2>3, <1>0, <1>1 DEF Answer, Called, list, Promise!NoRemove, Promise!Called
<1>2. CASE i < len /\ len = 1
  <2>2. head = Chain[1] /\ head \in nodes
    BY <1>2, EndsNow
  <2>1. UnlinkOnly /\ RemoveNode(i, head) /\ i = 1 - 1 /\ 1 \in 1..len
    BY <1>0, <1>2, <2>2 DEF Remove, Following
  <2>3. /\ LinkTypes'
        /\ TakenLinks(Chain, len, 1, head, tail, next, prev, head', tail', next', prev')
    BY <2>1, <1>2, UnlinkOnlyTakes
  <2> QED
    BY <2>1, <2>2, <2>3, RemoveEffect
<1>3. CASE len > 1 /\ i = 0
  <2>0. 1 \in 1..len /\ head = Chain[1] /\ {head} \subseteq nodes /\ {next[head]} \subseteq nodes
    <3>1. 1 \in 1..len /\ 1 < len
      BY <1>0, <1>3
    <3> QED
      BY <3>1, <1>3, EndsNow, Around, ListNow
  <2>1. UnlinkHead /\ RemoveNode(i, head) /\ i = 1 - 1
    BY <1>0, <1>3, <2>0 DEF Remove, Following
  <2>2. /\ LinkTypes' /\ 1 \in 1..len /\ head = Chain[1]
        /\ TakenLinks(Chain, len, 1, head, tail, next, prev, head', tail', next', prev')
    BY <2>1, <1>3, UnlinkHeadTakes
  <2> QED
    BY <2>1, <2>2, RemoveEffect
<1>4. CASE len > 1 /\ i = len - 1
  <2>0. tail = Chain[len] /\ {tail} \subseteq nodes /\ {prev[tail]} \subseteq nodes
    <3>1. len \in 1..len
      BY <1>0, <1>4
    <3> QED
      BY <3>1, <1>4, EndsNow, Around, ListNow
  <2>1. UnlinkTail /\ RemoveNode(i, tail)
    BY <1>0, <1>4, <2>0 DEF Remove, Following
  <2>2. /\ LinkTypes' /\ len \in 1..len /\ tail = Chain[len]
        /\ TakenLinks(Chain, len, len, head, tail, next, prev, head', tail', next', prev')
    BY <2>1, <1>4, UnlinkTailTakes
  <2> QED
    BY <2>1, <2>2, <1>4, RemoveEffect
<1>5. CASE i < len /\ len > 1 /\ i # 0 /\ i # len - 1
  <2>1. UInt(i) = i
    BY <1>0, <1>5 DEF UInt
  <2>2. i \in 0..len - 1 /\ i + 1 \in 2..len - 1 /\ i + 1 \in 1..len /\ i = (i + 1) - 1
    BY <1>0, <1>5
  <2>3. Traverse(UInt(i)) = Chain[i + 1]
    BY <2>1, <2>2, <1>0, TraverseInside
  <2>4. UnlinkBody(Chain[i + 1]) /\ RemoveNode(i, Chain[i + 1])
    <3>1. RemoveMiddle(i)
      BY <1>0, <1>5 DEF Remove
    <3>2. Walked(UInt(i)) \subseteq nodes
      BY <2>1, <2>2, <1>0, WalkedHeld
    <3>3. /\ {Chain[i + 1]} \subseteq nodes /\ Chain[i + 1] # NULL
          /\ {prev[Chain[i + 1]], next[Chain[i + 1]]} \subseteq nodes
      <4>1. Chain[i + 1] \in nodes /\ Chain[i + 1] # NULL
        BY <2>2, ListNow, NodeAssumption
      <4>2. prev[Chain[i + 1]] \in nodes /\ next[Chain[i + 1]] \in nodes
        <5>1. i + 1 > 1 /\ i + 1 < len
          BY <2>2, <1>0
        <5> QED
          BY <5>1, <2>2, Around, ListNow
      <4> QED
        BY <4>1, <4>2
    <3> QED
      BY <3>1, <3>2, <3>3, <2>3 DEF RemoveMiddle, Following
  <2>5. /\ LinkTypes'
        /\ TakenLinks(Chain, len, i + 1, head, tail, next, prev, head', tail', next', prev')
    BY <2>2, <2>4, UnlinkBodyTakes
  <2> QED
    BY <2>2, <2>4, <2>5, RemoveEffect
<1> QED
  BY <1>0, <1>1, <1>2, <1>3, <1>4, <1>5

(* All nodes are freed: the walk from the head meets each of them.         *)
LEMMA AllReached ==
  ASSUME Inv, ll
  PROVE  Reached(Cardinality(Node)) = nodes /\ Along(next, head, Cardinality(Node)) = NULL
<1>0. /\ IsOrder(Chain, len, head, tail, next, prev, nodes) /\ len \in Nat
      /\ nodes \subseteq Node /\ NULL \notin Node
  BY ListNow, NodeAssumption DEF Inv, TypeOK
<1>1. \A k \in 0..Cardinality(Node) :
        Along(next, head, k) = IF k < len THEN Chain[k + 1] ELSE NULL
  <2>1. \A k \in 0..Cardinality(Node) : k \in Nat
    OBVIOUS
  <2> QED
    BY <2>1, <1>0, FromHead
<1>2. len <= Cardinality(Node) /\ Cardinality(Node) \in Nat
  BY <1>0, NodeAssumption, OrderSize DEF Inv, TypeOK
<1> DEFINE F == Reached(Cardinality(Node))
<1>3. ASSUME NEW n \in F PROVE n \in nodes
  <2>1. PICK k \in 0..Cardinality(Node) : n = Along(next, head, k) /\ n # NULL
    BY DEF Reached
  <2>2. k < len /\ n = Chain[k + 1]
    BY <2>1, <1>0, <1>1
  <2>3. k + 1 \in 1..len
    BY <2>2, <1>0
  <2> QED
    BY <2>2, <2>3, <1>0 DEF IsOrder
<1>4. ASSUME NEW n \in nodes PROVE n \in F
  <2>1. PICK a \in 1..len : Chain[a] = n
    BY <1>0 DEF IsOrder
  <2>2. a - 1 \in 0..Cardinality(Node) /\ a - 1 < len /\ (a - 1) + 1 = a
    BY <1>0, <1>2
  <2>3. Along(next, head, a - 1) = n
    BY <2>1, <2>2, <1>1
  <2> QED
    BY <2>2, <2>3, <1>0 DEF Reached
<1>5. Along(next, head, Cardinality(Node)) = NULL
  <2>1. Cardinality(Node) \in 0..Cardinality(Node) /\ ~ (Cardinality(Node) < len)
    BY <1>0, <1>2
  <2> QED
    BY <2>1, <1>1
<1> QED
  BY <1>3, <1>4, <1>5

LEMMA DeleteStep ==
  ASSUME Inv, Delete
  PROVE  Inv' /\ crashed' = crashed /\ Promise!Delete
<1> DEFINE F == Reached(Cardinality(Node))
<1>1. /\ ll /\ F = nodes /\ nodes \subseteq Node
      /\ Along(next, head, Cardinality(Node)) = NULL
  BY AllReached DEF Delete, Inv, TypeOK
<1>2. /\ nodes' = nodes \ F /\ data' = Freed(data, F)
      /\ lost' = lost \cup {it \in Iter : iters[it] # NULL /\ iters[it].node \in F}
      /\ next' = Freed(next, F) /\ prev' = Freed(prev, F) /\ ll' = FALSE /\ head' = NULL
      /\ call' = [name |-> "delete", at |-> 0] /\ ret' = 1
      /\ UNCHANGED <<tail, len, iters, crashed>>
  BY <1>1 DEF Delete, FreeNodes, Called, Following
<1> HIDE DEF F
<1>3. nodes' = {} /\ Listed'
  BY <1>1, <1>2 DEF Listed
<1>4. TypeOK'
  <2>1. call' \in [name : CallName, at : Nat] /\ ret' \in 0..SizeMax
    BY <1>2, NumberAssumption DEF CallName
  <2>2. /\ data' \in [Node -> Value \cup {Garbage}]
        /\ next' \in [Node -> Node \cup {NULL, Garbage}]
        /\ prev' \in [Node -> Node \cup {NULL, Garbage}]
    BY <1>2 DEF Inv, TypeOK, Freed
  <2>3. lost' \subseteq Iter
    BY <1>2 DEF Inv, TypeOK
  <2> QED
    BY <1>2, <1>3, <2>1, <2>2, <2>3 DEF Inv, TypeOK
<1>5. IteratorsOnNodes'
  BY <1>1, <1>2 DEF Inv, IteratorsOnNodes, InUse
<1>6. Promise!Delete
  BY <1>1, <1>2 DEF Contents, Promise!Delete, Promise!Called
<1> QED
  BY <1>2, <1>3, <1>4, <1>5, <1>6 DEF Inv

LEMMA CreateStep ==
  ASSUME Inv, Create
  PROVE  Inv' /\ crashed' = crashed /\ Promise!Create
<1>0. ~ll /\ nodes = {} /\ Contents = <<>>
  BY DEF Create, Inv, Listed, Contents
<1>1. CASE Answer("create", 0, 0)
  <2>1. "create" \in CallName /\ 0 \in 0..SizeMax /\ 0 \in Nat
    BY NumberAssumption DEF CallName
  <2>2. Inv' /\ Contents' = Contents
    BY <1>1, <2>1, AnswerStep
  <2> QED
    BY <1>0, <1>1, <2>2 DEF Answer, Called, list, Promise!Create, Promise!Called
<1>2. CASE /\ ll' = TRUE /\ head' = NULL /\ tail' = NULL /\ len' = 0
           /\ Called("create", 0, 1)
           /\ UNCHANGED <<next, prev, data, nodes, iters, lost, crashed>>
  <2>1. IsOrder(<<>>, len', head', tail', next', prev', nodes')
    BY <1>0, <1>2 DEF IsOrder
  <2>2. Chain' = <<>> /\ Listed' /\ Contents' = [a \in 1..len' |-> data'[<<>>[a]]]
    BY <1>2, <2>1, ListNext
  <2>3. Contents' = <<>>
    BY <1>2, <2>2
  <2>4. TypeOK'
    <3>1. call' \in [name : CallName, at : Nat] /\ ret' \in 0..SizeMax
      BY <1>2, NumberAssumption DEF CallName, Called
    <3>2. len' \in 0..UIntMax
      BY <1>2, NumberAssumption
    <3> QED
      BY <1>2, <3>1, <3>2 DEF Inv, TypeOK
  <2>5. IteratorsOnNodes'
    BY <1>2 DEF Inv, IteratorsOnNodes, InUse
  <2> QED
    BY <1>0, <1>2, <2>2, <2>3, <2>4, <2>5 DEF Inv, Called, Promise!Create, Promise!Called
<1> QED
  BY <1>1, <1>2 DEF Create

LEMMA FindAnswer ==
  ASSUME Inv, NEW d, NEW r \in 0..Len(Contents) \cup {SizeMax}, r \in 0..SizeMax,
         Promise!IsFirst(r, d), Answer("find", 0, r)
  PROVE  Inv' /\ crashed' = crashed /\ Promise!Find(d)
<1>1. "find" \in CallName /\ 0 \in Nat
  BY DEF CallName
<1>2. Inv' /\ Contents' = Contents
  BY <1>1, AnswerStep
<1> QED
  BY <1>2 DEF Answer, Called, list, Promise!Find, Promise!Called

(* The answer to a search is a position, because the walk meets the nodes  *)
(* in their order.                                                         *)
LEMMA FindStep ==
  ASSUME Inv, ll, NEW d \in Value, Find(d)
  PROVE  Inv' /\ crashed' = crashed /\ Promise!Find(d)
<1>0. /\ IsOrder(Chain, len, head, tail, next, prev, nodes) /\ len \in Nat /\ len <= UIntMax
      /\ \A a \in 1..len : Chain[a] \in Node
      /\ Contents = [a \in 1..len |-> data[Chain[a]]] /\ Len(Contents) = len
      /\ NULL \notin Node
  BY ListNow, NodeAssumption
<1> DEFINE At == {k \in 0..Cardinality(Node) :
                    Along(next, head, k) \in Node /\ data[Along(next, head, k)] = d}
           First == CHOOSE k \in At : \A j \in At : k <= j
           r == IF At = {} THEN SizeMax ELSE First
<1>1. len <= Cardinality(Node) /\ Cardinality(Node) \in Nat
  BY <1>0, NodeAssumption, OrderSize DEF Inv, TypeOK
<1>2. \A k \in 0..Cardinality(Node) :
        Along(next, head, k) = IF k < len THEN Chain[k + 1] ELSE NULL
  <2>1. \A k \in 0..Cardinality(Node) : k \in Nat
    OBVIOUS
  <2> QED
    BY <2>1, <1>0, FromHead
<1>3. \A k : k \in At <=> k \in 0..len - 1 /\ Contents[k + 1] = d
  <2> SUFFICES ASSUME NEW k PROVE k \in At <=> k \in 0..len - 1 /\ Contents[k + 1] = d
    OBVIOUS
  <2>1. CASE k \in 0..len - 1
    <3>1. k \in 0..Cardinality(Node) /\ k + 1 \in 1..len
      BY <2>1, <1>0, <1>1
    <3>2. Along(next, head, k) = Chain[k + 1] /\ Contents[k + 1] = data[Chain[k + 1]]
      BY <2>1, <3>1, <1>0, <1>2
    <3> QED
      BY <2>1, <3>1, <3>2, <1>0
  <2>2. CASE k \notin 0..len - 1
    BY <2>2, <1>0, <1>2
  <2> QED
    BY <2>1, <2>2
<1>4. Answer("find", 0, r)
  <2>1. Reached(Cardinality(Node)) \subseteq nodes
    BY AllReached
  <2>2. At # {} => Reached(First) \subseteq nodes
    <3> SUFFICES ASSUME At # {} PROVE Reached(First) \subseteq nodes
      OBVIOUS
    <3>1. First \in At
      <4>1. At \subseteq Nat
        BY <1>1
      <4> HIDE DEF At
      <4> QED
        BY <4>1, LeastNat
    <3>2. First \in 0..Cardinality(Node)
      BY <3>1
    <3> HIDE DEF First, At
    <3>3. 0..First \subseteq 0..Cardinality(Node)
      BY <3>2, <1>1
    <3> QED
      BY <3>3, <2>1 DEF Reached
  <2> QED
    BY <2>1, <2>2 DEF Find, Following
<1>a. At \subseteq Nat
  BY <1>1
<1> HIDE DEF At
<1>5. At # {} => First \in At /\ \A j \in At : First <= j
  BY <1>a, LeastNat
<1> HIDE DEF First
<1>6. CASE At # {}
  <2>1. r = First /\ First \in 0..len - 1 /\ Contents[First + 1] = d
    BY <1>3, <1>5, <1>6
  <2>2. ASSUME NEW k \in 1..First PROVE Contents[k] # d
    <3> SUFFICES ASSUME Contents[k] = d PROVE FALSE
      OBVIOUS
    <3>1. k - 1 \in 0..len - 1 /\ (k - 1) + 1 = k /\ ~ (First <= k - 1)
      BY <2>1, <1>0
    <3>2. k - 1 \in At
      BY <3>1, <1>3
    <3> QED
      BY <3>1, <3>2, <1>5
  <2>3. First < Len(Contents) /\ First \in 0..Len(Contents) /\ First \in 0..SizeMax
    BY <2>1, <1>0, NumberAssumption
  <2> HIDE DEF r
  <2>4. Promise!IsFirst(r, d)
    BY <2>1, <2>2, <2>3 DEF Promise!IsFirst
  <2> QED
    BY <2>1, <2>3, <2>4, <1>4, FindAnswer
<1>7. CASE At = {}
  <2>1. ASSUME NEW k \in 1..len PROVE Contents[k] # d
    <3>1. k - 1 \in 0..len - 1 /\ (k - 1) + 1 = k
      BY <1>0
    <3> QED
      BY <3>1, <1>3, <1>7
  <2>2. Promise!IsFirst(r, d) /\ r = SizeMax /\ r \in 0..SizeMax
    BY <2>1, <1>0, <1>7, NumberAssumption DEF Promise!IsFirst
  <2> QED
    BY <2>2, <1>4, FindAnswer
<1> QED
  BY <1>6, <1>7

LEMMA SizeStep ==
  ASSUME Inv, ll, Size
  PROVE  Inv' /\ crashed' = crashed /\ Promise!Size
<1>1. /\ "size" \in CallName /\ 0 \in Nat /\ len \in 0..SizeMax /\ Len(Contents) = len
      /\ Answer("size", 0, len)
  BY ListNow, NumberAssumption DEF CallName, Size
<1>2. Inv' /\ Contents' = Contents
  BY <1>1, AnswerStep
<1> QED
  BY <1>1, <1>2 DEF Answer, Called, list, Promise!Size, Promise!Called

(* Iterators.  Past the end, the traversal finds a node only where the     *)
(* list was emptied and its tail dangles.                                  *)
LEMMA TraverseAny ==
  ASSUME Inv, ll, NEW i \in Index, Traverse(UInt(i)) # NULL
  PROVE  /\ Traverse(UInt(i)) \in Node
         /\ Index \subseteq 0..UIntMax - 1 =>
              /\ UInt(i) = i /\ i < len /\ i + 1 \in 1..len
              /\ Traverse(UInt(i)) = Chain[i + 1]
<1>0. /\ len \in Nat /\ len <= UIntMax /\ UIntMax \in Nat
      /\ \A a \in 1..len : Chain[a] \in Node
      /\ IsOrder(Chain, len, head, tail, next, prev, nodes) /\ tail \in Node \cup {NULL}
  BY ListNow, NumberAssumption DEF Inv, TypeOK
<1> DEFINE u == UInt(i)
<1>1. u \in 0..UIntMax /\ (Index \subseteq 0..UIntMax - 1 => u = i)
  <2>1. i \in Nat
    BY NumberAssumption
  <2> QED
    BY <2>1, <1>0 DEF UInt
<1> HIDE DEF u
<1>2. CASE u < len
  <2>1. u \in 0..len - 1 /\ u + 1 \in 1..len
    BY <1>0, <1>1, <1>2
  <2>2. Traverse(u) = Chain[u + 1]
    BY <2>1, <1>0, TraverseInside
  <2> QED
    BY <2>1, <2>2, <1>0, <1>1, <1>2 DEF u
<1>3. CASE u >= len
  <2>1. Traverse(u) = NULL \/ (u = UIntMax /\ Traverse(u) = tail)
    BY <1>0, <1>1, <1>3, TraverseOutside
  <2> QED
    BY <2>1, <1>0, <1>1 DEF u
<1> QED
  BY <1>0, <1>1, <1>2, <1>3

LEMMA TraverseNone ==
  ASSUME Inv, ll, NEW i \in Index, Traverse(UInt(i)) = NULL, Index \subseteq 0..UIntMax - 1
  PROVE  i >= len
<1>0. /\ len \in Nat /\ len <= UIntMax /\ UIntMax \in Nat /\ i \in 0..UIntMax - 1
      /\ \A a \in 1..len : Chain[a] \in Node
      /\ IsOrder(Chain, len, head, tail, next, prev, nodes) /\ NULL \notin Node
  BY ListNow, NumberAssumption, NodeAssumption
<1>1. UInt(i) = i
  BY <1>0 DEF UInt
<1> SUFFICES ASSUME i < len PROVE FALSE
  BY <1>0
<1>2. i \in 0..len - 1 /\ i + 1 \in 1..len
  BY <1>0
<1>3. Traverse(i) = Chain[i + 1]
  BY <1>0, <1>2, TraverseInside
<1> QED
  BY <1>0, <1>1, <1>2, <1>3

(* The iterators change, the list does not.                                *)
LEMMA IteratorsFrame ==
  ASSUME Inv, UNCHANGED <<list, crashed>>, call' \in [name : CallName, at : Nat],
         ret' \in 0..SizeMax, lost' \subseteq Iter,
         iters' \in [Iter -> [node : Node, index : 0..SizeMax, data : Value \cup {Garbage}]
                               \cup {NULL}],
         \A it \in Iter : iters'[it] # NULL /\ it \notin lost' =>
           iters'[it].node \in nodes /\ iters'[it].data = data[iters'[it].node]
  PROVE  Inv' /\ Contents' = Contents
<1>0. UNCHANGED <<ll, head, tail, len, next, prev, data, nodes, crashed>>
  BY DEF list
<1>1. TypeOK'
  BY <1>0 DEF Inv, TypeOK
<1>2. Chain' = Chain /\ Contents' = Contents
  BY <1>0 DEF Chain, Contents, Elem
<1>3. Listed'
  BY <1>0, <1>2 DEF Inv, Listed
<1>4. IteratorsOnNodes'
  BY <1>0 DEF IteratorsOnNodes, InUse
<1> QED
  BY <1>1, <1>2, <1>3, <1>4 DEF Inv

LEMMA CreateIteratorStep ==
  ASSUME Inv, ll, NEW i \in Index, CreateIterator(i)
  PROVE  /\ Inv'
         /\ Index \subseteq 0..UIntMax - 1 =>
              \/ "iterator" \in MallocFails /\ Crash
              \/ crashed' = crashed /\ Promise!CreateIterator(i)
<1> DEFINE c == Traverse(UInt(i))
<1>0. i \in Nat /\ i \in 0..SizeMax /\ len \in Nat /\ Len(Contents) = len
  BY ListNow, NumberAssumption
<1>w. IF c = NULL THEN Answer("iterator", i, 0)
      ELSE \/ "iterator" \in MallocFails /\ Crash
           \/ c \notin nodes /\ Crash
           \/ \E it \in {x \in Iter : iters[x] = NULL} :
                /\ iters' = [iters EXCEPT ![it] =
                                [node |-> c, index |-> i, data |-> data[c]]]
                /\ lost' = IF c \in nodes THEN lost ELSE lost \cup {it}
                /\ Called("iterator", i, 1)
                /\ UNCHANGED <<list, crashed>>
  <2>1. UInt(i) \in 0..UIntMax
    BY <1>0, NumberAssumption DEF UInt
  <2>2. Walked(UInt(i)) \subseteq nodes
    BY <2>1, WalkedHeld
  <2> QED
    BY <2>2 DEF CreateIterator, Following
<1>1. CASE c = NULL
  <2>1. Answer("iterator", i, 0)
    BY <1>1, <1>w
  <2>2. "iterator" \in CallName /\ 0 \in 0..SizeMax
    BY NumberAssumption DEF CallName
  <2>3. Inv' /\ Contents' = Contents
    BY <2>1, <2>2, <1>0, AnswerStep
  <2>4. Index \subseteq 0..UIntMax - 1 => i >= len
    BY <1>1, TraverseNone
  <2> QED
    BY <2>1, <2>3, <2>4, <1>0 DEF Answer, Called, list, Promise!CreateIterator, Promise!Called
<1>2. CASE c # NULL /\ "iterator" \in MallocFails /\ Crash
  BY <1>2, CrashStep
<1>4. CASE c # NULL /\ c \notin nodes /\ Crash
  <2>1. ASSUME Index \subseteq 0..UIntMax - 1 PROVE FALSE
    <3>1. i + 1 \in 1..len /\ c = Chain[i + 1]
      BY <1>4, <2>1, TraverseAny
    <3> QED
      BY <3>1, <1>4, ListNow
  <2> QED
    BY <2>1, <1>4, CrashStep
<1>3. CASE /\ c # NULL
           /\ \E it \in {x \in Iter : iters[x] = NULL} :
                /\ iters' = [iters EXCEPT ![it] =
                                [node |-> c, index |-> i, data |-> data[c]]]
                /\ lost' = IF c \in nodes THEN lost ELSE lost \cup {it}
                /\ Called("iterator", i, 1)
                /\ UNCHANGED <<list, crashed>>
  <2>1. PICK it \in Iter :
                /\ iters' = [iters EXCEPT ![it] =
                                [node |-> c, index |-> i, data |-> data[c]]]
                /\ lost' = IF c \in nodes THEN lost ELSE lost \cup {it}
                /\ Called("iterator", i, 1)
                /\ UNCHANGED <<list, crashed>>
    BY <1>3
  <2>2. c \in Node /\ (Index \subseteq 0..UIntMax - 1 => i < len)
    BY <1>3, TraverseAny
  <2> HIDE DEF c
  <2>3. data[c] \in Value \cup {Garbage}
    BY <2>2 DEF Inv, TypeOK
  <2>4. /\ lost' \subseteq Iter
        /\ iters' \in [Iter -> [node : Node, index : 0..SizeMax, data : Value \cup {Garbage}]
                               \cup {NULL}]
    BY <2>1, <2>2, <2>3, <1>0 DEF Inv, TypeOK
  <2>5. call' \in [name : CallName, at : Nat] /\ ret' \in 0..SizeMax
    BY <2>1, <1>0, NumberAssumption DEF CallName, Called
  <2>6. ASSUME NEW x \in Iter, iters'[x] # NULL, x \notin lost'
        PROVE  iters'[x].node \in nodes /\ iters'[x].data = data[iters'[x].node]
    <3>1. CASE x = it
      <4>1. iters'[x] = [node |-> c, index |-> i, data |-> data[c]] /\ c \in nodes
        BY <2>1, <2>6, <3>1 DEF Inv, TypeOK
      <4> QED
        BY <4>1
    <3>2. CASE x # it
      <4>1. iters'[x] = iters[x] /\ x \notin lost
        BY <2>1, <2>6, <3>2 DEF Inv, TypeOK
      <4> QED
        BY <4>1, <2>6 DEF Inv, IteratorsOnNodes, InUse
    <3> QED
      BY <3>1, <3>2
  <2>7. Inv' /\ Contents' = Contents
    BY <2>1, <2>4, <2>5, <2>6, IteratorsFrame
  <2> QED
    BY <2>1, <2>2, <2>7, <1>0 DEF Called, list, Promise!CreateIterator, Promise!Called
<1> QED
  BY <1>w, <1>1, <1>2, <1>3, <1>4

LEMMA DeleteIteratorStep ==
  ASSUME Inv, NEW it \in Iter, DeleteIterator(it)
  PROVE  Inv' /\ crashed' = crashed /\ Promise!UseIterator
<1>1. /\ iters' = [iters EXCEPT ![it] = NULL] /\ lost' = lost \ {it}
      /\ Called("delete_iterator", 0, 1) /\ UNCHANGED <<list, crashed>>
  BY DEF DeleteIterator
<1>2. /\ lost' \subseteq Iter
      /\ iters' \in [Iter -> [node : Node, index : 0..SizeMax, data : Value \cup {Garbage}]
                             \cup {NULL}]
  BY <1>1 DEF Inv, TypeOK
<1>3. call' \in [name : CallName, at : Nat] /\ ret' \in 0..SizeMax
  BY <1>1, NumberAssumption DEF CallName, Called
<1>4. ASSUME NEW x \in Iter, iters'[x] # NULL, x \notin lost'
      PROVE  iters'[x].node \in nodes /\ iters'[x].data = data[iters'[x].node]
  <2>1. iters'[x] = iters[x] /\ x \notin lost
    BY <1>1, <1>4 DEF Inv, TypeOK
  <2> QED
    BY <2>1, <1>4 DEF Inv, IteratorsOnNodes, InUse
<1>5. Inv' /\ Contents' = Contents
  BY <1>1, <1>2, <1>3, <1>4, IteratorsFrame
<1> QED
  BY <1>1, <1>5 DEF Called, list, Promise!UseIterator, Promise!Called

(* An iterator in use stands on a node of the list, and the next pointer   *)
(* of that node leads to the one behind it.                                *)
LEMMA NextOfUsed ==
  ASSUME Inv, NEW it \in Iter, iters[it] # NULL, it \notin lost
  PROVE  /\ ll /\ iters[it].node \in nodes
         /\ \E a \in 1..len :
              /\ iters[it].node = Chain[a]
              /\ next[Chain[a]] # NULL =>
                   /\ a < len /\ next[Chain[a]] = Chain[a + 1] /\ a + 1 \in 1..len
                   /\ Chain[a + 1] \in nodes
<1>1. iters[it].node \in nodes
  BY DEF Inv, IteratorsOnNodes, InUse
<1>2. ll
  BY <1>1 DEF Inv, Listed
<1>3. IsOrder(Chain, len, head, tail, next, prev, nodes) /\ len \in Nat
  BY <1>2, ListNow
<1>4. PICK a \in 1..len : iters[it].node = Chain[a]
  BY <1>1, <1>3 DEF IsOrder
<1>5. ASSUME next[Chain[a]] # NULL
      PROVE  /\ a < len /\ next[Chain[a]] = Chain[a + 1] /\ a + 1 \in 1..len
             /\ Chain[a + 1] \in nodes
  <2>1. a # len
    <3> SUFFICES ASSUME a = len PROVE FALSE
      OBVIOUS
    <3>1. len > 0
      BY <1>3
    <3> QED
      BY <3>1, <1>2, <1>5, EndsNow
  <2>2. a < len /\ a \in 1..len - 1 /\ a + 1 \in 1..len
    BY <2>1, <1>3
  <2> QED
    BY <2>2, <1>3 DEF IsOrder
<1> QED
  BY <1>1, <1>2, <1>4, <1>5

LEMMA AdvancedType ==
  ASSUME Inv, NEW it \in Iter, iters[it] # NULL, it \notin lost, next[iters[it].node] # NULL
  PROVE  /\ next[iters[it].node] \in nodes /\ nodes \subseteq Node
         /\ Advanced(iters[it]) \in
              [node : Node, index : 0..SizeMax, data : Value \cup {Garbage}]
<1> DEFINE p == iters[it]
<1>1. next[p.node] \in nodes /\ nodes \subseteq Node
  <2>1. next[p.node] \in nodes
    BY NextOfUsed
  <2> QED
    BY <2>1 DEF Inv, TypeOK
<1>2. data[next[p.node]] \in Value \cup {Garbage}
  BY <1>1 DEF Inv, TypeOK
<1>3. SizeT(p.index + 1) \in 0..SizeMax
  <2>1. p.index \in Nat /\ SizeMax \in Nat
    BY NumberAssumption DEF Inv, TypeOK
  <2> QED
    BY <2>1 DEF SizeT
<1> QED
  BY <1>1, <1>2, <1>3 DEF Advanced

LEMMA IterateStep ==
  ASSUME Inv, NEW it \in Iter, Iterate(it)
  PROVE  Inv' /\ crashed' = crashed /\ Promise!UseIterator
<1>0. iters[it] # NULL /\ it \notin lost
  BY DEF Iterate
<1>a. {iters[it].node} \subseteq nodes
  BY <1>0 DEF Inv, IteratorsOnNodes, InUse
<1> DEFINE p == iters[it]
<1>1. CASE next[p.node] = NULL
  <2>1. Answer("iterate", 0, 0)
    BY <1>1, <1>a DEF Iterate, Following
  <2>2. "iterate" \in CallName /\ 0 \in 0..SizeMax /\ 0 \in Nat
    BY NumberAssumption DEF CallName
  <2>3. Inv' /\ Contents' = Contents
    BY <2>1, <2>2, AnswerStep
  <2> QED
    BY <2>1, <2>3 DEF Answer, Called, list, Promise!UseIterator, Promise!Called
<1>2. CASE next[p.node] # NULL
  <2>0. {next[p.node]} \subseteq nodes
    BY <1>0, <1>2, AdvancedType
  <2>1. /\ iters' = [iters EXCEPT ![it] = Advanced(p)]
        /\ Called("iterate", 0, 1) /\ UNCHANGED <<list, lost, crashed>>
    BY <1>2, <1>a, <2>0 DEF Iterate, Following
  <2>2. /\ next[p.node] \in nodes /\ nodes \subseteq Node
        /\ Advanced(p) \in [node : Node, index : 0..SizeMax, data : Value \cup {Garbage}]
    BY <1>0, <1>2, AdvancedType
  <2>3. iters' \in [Iter -> [node : Node, index : 0..SizeMax, data : Value \cup {Garbage}]
                             \cup {NULL}]
    BY <2>1, <2>2 DEF Inv, TypeOK
  <2>4. call' \in [name : CallName, at : Nat] /\ ret' \in 0..SizeMax /\ lost' \subseteq Iter
    BY <2>1, NumberAssumption DEF CallName, Called, Inv, TypeOK
  <2>5. ASSUME NEW x \in Iter, iters'[x] # NULL, x \notin lost'
        PROVE  iters'[x].node \in nodes /\ iters'[x].data = data[iters'[x].node]
    <3>1. CASE x = it
      <4>1. iters'[x] = Advanced(p)
        BY <2>1, <3>1 DEF Inv, TypeOK
      <4> QED
        BY <4>1, <2>2 DEF Advanced
    <3>2. CASE x # it
      <4>1. iters'[x] = iters[x] /\ x \notin lost
        BY <2>1, <2>5, <3>2 DEF Inv, TypeOK
      <4> QED
        BY <4>1, <2>5 DEF Inv, IteratorsOnNodes, InUse
    <3> QED
      BY <3>1, <3>2
  <2>6. Inv' /\ Contents' = Contents
    BY <2>1, <2>3, <2>4, <2>5, IteratorsFrame
  <2> QED
    BY <2>1, <2>6 DEF Called, list, Promise!UseIterator, Promise!Called
<1> QED
  BY <1>1, <1>2

(* Calls without a list.                                                   *)
LEMMA CallOnNullStep ==
  ASSUME Inv, ~ll, CallOnNull
  PROVE  Inv' /\ crashed' = crashed /\ (Value # {} => Promise!Next)
<1>0. /\ {"delete", "size", "find", "insert", "remove", "iterator"} \subseteq CallName
      /\ {0, SizeMax} \subseteq 0..SizeMax /\ Index \subseteq Nat /\ 0 \in Nat
      /\ Contents = <<>> /\ Len(Contents) = 0
  BY NumberAssumption DEF CallName, Contents
<1>1. ASSUME NEW name \in CallName, NEW i \in Nat, NEW r \in 0..SizeMax, Answer(name, i, r)
      PROVE  /\ Inv' /\ crashed' = crashed /\ Contents' = Contents /\ ll' = ll
             /\ Promise!Called(name, i, r)
  BY <1>1, AnswerStep DEF Answer, Called, list, Promise!Called
<1>2. CASE Answer("delete", 0, 0)
  BY <1>0, <1>1, <1>2 DEF Promise!Next, Promise!NoDelete
<1>3. CASE Answer("size", 0, SizeMax)
  BY <1>0, <1>1, <1>3 DEF Promise!Next, Promise!Size
<1>4. CASE Answer("find", 0, SizeMax)
  <2>1. /\ Inv' /\ crashed' = crashed /\ Contents' = Contents /\ ll' = ll
        /\ Promise!Called("find", 0, SizeMax)
    BY <1>0, <1>1, <1>4
  <2>2. ASSUME NEW d \in Value PROVE Promise!Find(d)
    <3>1. Promise!IsFirst(SizeMax, d)
      BY <1>0 DEF Promise!IsFirst
    <3> QED
      BY <2>1, <3>1 DEF Promise!Find
  <2> QED
    BY <2>1, <2>2 DEF Promise!Next
<1>5. CASE \E i \in Index : Answer("insert", i, 0)
  <2>1. PICK i \in Index : Answer("insert", i, 0)
    BY <1>5
  <2>2. /\ Inv' /\ crashed' = crashed /\ Contents' = Contents /\ ll' = ll
        /\ Promise!Called("insert", i, 0)
    BY <1>0, <1>1, <2>1
  <2> QED
    BY <2>2 DEF Promise!Next, Promise!NoInsert
<1>6. CASE \E i \in Index : Answer("remove", i, 0)
  <2>1. PICK i \in Index : Answer("remove", i, 0)
    BY <1>6
  <2>2. /\ Inv' /\ crashed' = crashed /\ Contents' = Contents /\ ll' = ll
        /\ Promise!Called("remove", i, 0)
    BY <1>0, <1>1, <2>1
  <2> QED
    BY <2>2 DEF Promise!Next, Promise!NoRemove
<1>7. CASE \E i \in Index : Answer("iterator", i, 0)
  <2>1. PICK i \in Index : Answer("iterator", i, 0)
    BY <1>7
  <2>2. /\ Inv' /\ crashed' = crashed /\ Contents' = Contents /\ ll' = ll
        /\ Promise!Called("iterator", i, 0)
    BY <1>0, <1>1, <2>1
  <2> QED
    BY <2>2 DEF Promise!Next, Promise!CreateIterator
<1> QED
  BY <1>2, <1>3, <1>4, <1>5, <1>6, <1>7 DEF CallOnNull

LEMMA CallOnNullIteratorStep ==
  ASSUME Inv, CallOnNullIterator
  PROVE  Inv' /\ crashed' = crashed /\ Promise!Next
<1>1. PICK name \in {"delete_iterator", "iterate"} : Answer(name, 0, 0)
  BY DEF CallOnNullIterator
<1>2. name \in CallName /\ 0 \in 0..SizeMax /\ 0 \in Nat
  BY NumberAssumption DEF CallName
<1>3. Inv' /\ Contents' = Contents
  BY <1>1, <1>2, AnswerStep
<1>4. Promise!UseIterator
  BY <1>1, <1>3 DEF Answer, Called, list, Promise!UseIterator, Promise!Called
<1> QED
  BY <1>1, <1>3, <1>4 DEF Answer, Promise!Next

(* What no index that clients pass may exceed, to mean itself as the       *)
(* unsigned int of the traversal, and what NeverCrashes needs besides.     *)
Fits == Index \subseteq 0..UIntMax - 1
Provided == "node" \notin MallocFails /\ "iterator" \notin MallocFails

Still == UNCHANGED <<ll, Contents, call, ret>>

LEMMA CrashIsStill ==
  ASSUME Inv, Crash
  PROVE  Still
<1>1. UNCHANGED <<list, iters, lost, call, ret>>
  BY DEF Crash
<1> QED
  BY <1>1 DEF list, Still, Contents, Elem

LEMMA CallOnListStep ==
  ASSUME Inv, ll, CallOnList
  PROVE  /\ Inv'
         /\ Fits => Still \/ Promise!Next
         /\ Fits /\ Provided => crashed' = crashed
<1>0. Len(Contents) = len /\ Index \subseteq Nat
  BY ListNow, NumberAssumption
<1>1. CASE Delete
  BY <1>1, DeleteStep DEF Promise!Next
<1>2. CASE Size
  BY <1>2, SizeStep DEF Promise!Next
<1>3. CASE \E d \in Value : InsertEnd(d)
  BY <1>0, <1>3, InsertEndStep, CrashIsStill DEF Promise!Next, Provided
<1>4. CASE \E d \in Value : InsertFront(d)
  BY <1>4, InsertFrontStep, CrashIsStill DEF Promise!Next, Provided
<1>5. CASE \E i \in Index, d \in Value : Insert(i, d)
  BY <1>5, InsertStep, CrashIsStill DEF Promise!Next, Provided, Fits
<1>6. CASE \E i \in Index : Remove(i)
  BY <1>0, <1>6, RemoveStep DEF Promise!Next
<1>7. CASE \E d \in Value : Find(d)
  BY <1>7, FindStep DEF Promise!Next
<1>8. CASE \E i \in Index : CreateIterator(i)
  BY <1>8, CreateIteratorStep, CrashIsStill DEF Promise!Next, Provided, Fits
<1> QED
  BY <1>1, <1>2, <1>3, <1>4, <1>5, <1>6, <1>7, <1>8 DEF CallOnList

LEMMA NextStep ==
  ASSUME Inv, Next
  PROVE  /\ Inv'
         /\ Fits /\ Value # {} => Still \/ Promise!Next
         /\ Fits /\ Provided => crashed' = crashed
<1>1. CASE Create
  BY <1>1, CreateStep DEF Promise!Next
<1>2. CASE ~ll /\ CallOnNull
  BY <1>2, CallOnNullStep
<1>3. CASE ll /\ CallOnList
  BY <1>3, CallOnListStep
<1>4. CASE \E it \in Iter : Iterate(it)
  BY <1>4, IterateStep DEF Promise!Next
<1>5. CASE \E it \in Iter : DeleteIterator(it)
  BY <1>5, DeleteIteratorStep DEF Promise!Next
<1>6. CASE CallOnNullIterator
  BY <1>6, CallOnNullIteratorStep
<1> QED
  BY <1>1, <1>2, <1>3, <1>4, <1>5, <1>6 DEF Next

LEMMA StutterStep ==
  ASSUME Inv, UNCHANGED vars
  PROVE  Inv' /\ crashed' = crashed /\ Still
<1>1. UNCHANGED <<list, iters, lost, call, ret, crashed>>
  BY DEF vars
<1>2. Inv' /\ Contents' = Contents
  BY <1>1, FrameStep DEF Inv, TypeOK
<1> QED
  BY <1>1, <1>2 DEF list, Still

LEMMA InitInv == Init => Inv /\ ~crashed /\ Promise!Init
<1> SUFFICES ASSUME Init PROVE Inv /\ ~crashed /\ Promise!Init
  OBVIOUS
<1>1. TypeOK
  <2>1. call \in [name : CallName, at : Nat] /\ ret \in 0..SizeMax /\ len \in 0..UIntMax
    BY NumberAssumption DEF Init, CallName
  <2> QED
    BY <2>1 DEF Init, TypeOK
<1> QED
  BY <1>1 DEF Init, Inv, Listed, IteratorsOnNodes, InUse, Promise!Init, Contents

LEMMA WellLinkedNow == Inv => WellLinked
<1> SUFFICES ASSUME Inv, ll PROVE WellLinked
  BY DEF Inv, Listed, WellLinked
<1>1. IsOrder(Chain, len, head, tail, next, prev, nodes) /\ len \in Nat
  BY ListNow
<1>2. IsInjective(Chain) /\ Range(Chain) = nodes
  <2>1. DOMAIN Chain = 1..len
    BY DEF Chain
  <2> QED
    BY <1>1, <2>1 DEF IsOrder, IsInjective, Range
<1>3. ASSUME NEW a \in 1..len
      PROVE  /\ next[Chain[a]] = IF a = len THEN NULL ELSE Chain[a + 1]
             /\ prev[Chain[a]] = IF a = 1 THEN NULL ELSE Chain[a - 1]
  <2>1. len > 0
    BY <1>1
  <2>2. next[Chain[len]] = NULL /\ prev[Chain[1]] = NULL
    BY <2>1, EndsNow
  <2>3. a # 1 => a > 1
    BY <1>1
  <2>4. a # len => a < len
    BY <1>1
  <2> QED
    BY <2>2, <2>3, <2>4, Around
<1>4. head = (IF len = 0 THEN NULL ELSE Chain[1]) /\ (len > 0 => tail = Chain[len])
  BY <1>1 DEF IsOrder
<1> QED
  BY <1>2, <1>3, <1>4 DEF WellLinked

----------------------------------------------------------------------------
(* The inductive invariant.                                                *)
THEOREM Inductive == Spec => []Inv
<1>1. Init => Inv
  BY InitInv
<1>2. Inv /\ [Next]_vars => Inv'
  BY NextStep, StutterStep
<1> QED
  BY <1>1, <1>2, PTL DEF Spec

(* The fields of a list, its nodes and its iterators keep their types.     *)
THEOREM TypeCorrect == Spec => []TypeOK
<1>1. Inv => TypeOK
  BY DEF Inv
<1> QED
  BY <1>1, Inductive, PTL

(* The nodes held are those of the list, each once, and both directions of *)
(* pointers, the ends and the length agree: whatever the allocator refuses *)
(* and whatever indices the clients pass.                                  *)
THEOREM ListSafe == Spec => []WellLinked
BY WellLinkedNow, Inductive, PTL

(* An iterator in use shows the data of a node of the list, over every     *)
(* insertion and removal elsewhere.                                        *)
THEOREM IteratorsSafe == Spec => []IteratorsOnNodes
<1>1. Inv => IteratorsOnNodes
  BY DEF Inv
<1> QED
  BY <1>1, Inductive, PTL

(* With memory for nodes and iterators, and indices that an unsigned int   *)
(* holds, no call follows or frees NULL or a dangling pointer: the ends    *)
(* and the links that any calls leave behind, and those met on the way to  *)
(* an index, are those of nodes held.                                      *)
THEOREM NoCrash == ASSUME Fits, Provided PROVE Spec => []NeverCrashes
<1>1. Init => Inv /\ NeverCrashes
  BY InitInv DEF NeverCrashes
<1>2. Inv /\ NeverCrashes /\ [Next]_vars => (Inv /\ NeverCrashes)'
  BY NextStep, StutterStep DEF NeverCrashes
<1> QED
  BY <1>1, <1>2, PTL DEF Spec

(* With such indices, the list is the sequence that linked_list.h promises *)
(* call by call and answer by answer, until it is refused memory.          *)
THEOREM Refinement == ASSUME Fits, Value # {} PROVE Spec => ImplementsList
<1>1. Init => Promise!Init
  BY InitInv
<1>2. Inv /\ [Next]_vars => [Promise!Next]_(Promise!vars)
  BY NextStep, StutterStep DEF Promise!vars, Still
<1> QED
  BY <1>1, <1>2, Inductive, PTL DEF Spec, ImplementsList, Promise!Spec

(* The position of a node is unique, so is the distance of an iterator's   *)
(* index from it.                                                          *)
LEMMA Position ==
  ASSUME Inv, ll, NEW a \in 1..len
  PROVE  (CHOOSE b \in 1..len : Chain[b] = Chain[a]) = a
<1>1. \A b, c \in 1..len : Chain[b] = Chain[c] => b = c
  BY ListNow DEF IsOrder
<1> DEFINE P(b) == Chain[b] = Chain[a]
<1> HIDE DEF Chain
<1>2. P(CHOOSE b \in 1..len : P(b)) /\ (CHOOSE b \in 1..len : P(b)) \in 1..len
  OBVIOUS
<1> QED
  BY <1>1, <1>2

LEMMA SizeTStep ==
  ASSUME NEW x \in 0..SizeMax, NEW a \in 1..SizeMax
  PROVE  SizeT(SizeT(x + 1) - (a + 1) + 1) = SizeT(x - a + 1) /\ SizeT(0) = 0
<1>0. SizeMax \in Nat /\ x \in Nat /\ a \in Nat
  BY NumberAssumption
<1> DEFINE M == SizeMax + 1
<1>1. \A y \in 0..SizeMax : y % M = y
  BY <1>0
<1>2. CASE x < SizeMax
  <2>1. (x + 1) % M = x + 1
    BY <1>0, <1>1, <1>2
  <2> QED
    BY <2>1, <1>0, <1>1 DEF SizeT
<1>3. CASE x = SizeMax
  <2>1. (x + 1) % M = 0
    BY <1>0, <1>3
  <2>2. (-a) % M = M - a
    BY <1>0
  <2>3. (M - a) % M = M - a
    BY <1>0, <1>1
  <2>4. 0 - (a + 1) + 1 = -a /\ x - a + 1 = M - a
    BY <1>0, <1>3
  <2> QED
    BY <2>1, <2>2, <2>3, <2>4, <1>0, <1>1 DEF SizeT
<1> QED
  BY <1>0, <1>2, <1>3

LEMMA WhoMovesIterators ==
  ASSUME Next
  PROVE  \/ iters' = iters
         \/ ll /\ \E i \in Index : CreateIterator(i)
         \/ \E it \in Iter : Iterate(it)
         \/ \E it \in Iter : DeleteIterator(it)
<1>1. Create => iters' = iters
  BY DEF Create, Answer
<1>2. CallOnNull \/ CallOnNullIterator => iters' = iters
  BY DEF CallOnNull, CallOnNullIterator, Answer
<1>3. Delete \/ Size \/ (\E d \in Value : Find(d)) => iters' = iters
  BY DEF Delete, Size, Find, Answer, Following, Crash
<1>4. ASSUME NEW d \in Value, InsertEnd(d) \/ InsertFront(d) PROVE iters' = iters
  BY <1>4 DEF InsertEnd, InsertFront, CreateNodeFails, Crash, CreateNode, Following
<1>5. ASSUME NEW i \in Index, NEW d \in Value, Insert(i, d) PROVE iters' = iters
  <2>1. InsertMiddle(i, d) => iters' = iters
    BY DEF InsertMiddle, CreateNodeFails, Crash, CreateNode, Answer, Following
  <2> QED
    BY <2>1, <1>4, <1>5 DEF Insert
<1>6. ASSUME NEW i \in Index, Remove(i) PROVE iters' = iters
  BY <1>6 DEF Remove, RemoveMiddle, RemoveNode, Answer, Following, Crash
<1> QED
  BY <1>1, <1>2, <1>3, <1>4, <1>5, <1>6 DEF Next, CallOnList

(* A new iterator is at its index, and a step of an iterator moves its     *)
(* index as it moves its node: as long as no index is cut.                 *)
THEOREM IteratorsExact ==
  ASSUME Fits
  PROVE  Spec => IteratorsKeepStep
<1> DEFINE Step(it) ==
             /\ iters[it] = NULL /\ iters'[it] # NULL => Drift(it)' = 0
             /\ (it \in InUse /\ iters'[it] # iters[it] /\ iters'[it] # NULL)
                  => Drift(it)' = Drift(it)
<1>1. ASSUME Inv, [Next]_vars, NEW it \in Iter PROVE Step(it)
  <2>1. CASE iters' = iters
    BY <2>1
  <2>2. CASE ll /\ \E i \in Index : CreateIterator(i)
    <3> SUFFICES ASSUME iters'[it] # iters[it]
                 PROVE  iters[it] = NULL /\ Drift(it)' = 0
      BY DEF InUse
    <3>1. PICK i \in Index : CreateIterator(i)
      BY <2>2
    <3> DEFINE c == Traverse(UInt(i))
    <3>2. /\ c # NULL /\ iters[it] = NULL /\ UNCHANGED list
          /\ iters'[it] = [node |-> c, index |-> i, data |-> data[c]]
      <4>1. c # NULL
        BY <3>1 DEF CreateIterator, Answer, Following, Crash
      <4>2. PICK x \in Iter : /\ iters[x] = NULL /\ UNCHANGED list
                              /\ iters' = [iters EXCEPT ![x] =
                                    [node |-> c, index |-> i, data |-> data[c]]]
        BY <3>1, <4>1 DEF CreateIterator, Crash, Following
      <4>3. x = it /\ iters'[x] = [node |-> c, index |-> i, data |-> data[c]]
        <5> HIDE DEF c
        <5> QED
          BY <4>2, <1>1 DEF Inv, TypeOK
      <4> QED
        BY <4>1, <4>2, <4>3
    <3>3. i + 1 \in 1..len /\ c = Chain[i + 1] /\ i \in Nat
      <4>1. i \in Nat
        BY NumberAssumption
      <4> QED
        BY <4>1, <1>1, <2>2, <3>2, TraverseAny DEF Fits
    <3>4. len' = len /\ Chain' = Chain
      BY <3>2 DEF list, Chain
    <3>5. Drift(it)' = SizeT(i - (CHOOSE b \in 1..len : Chain[b] = Chain[i + 1]) + 1)
      BY <3>2, <3>3, <3>4 DEF Drift, SizeT
    <3>6. (CHOOSE b \in 1..len : Chain[b] = Chain[i + 1]) = i + 1
      BY <2>2, <3>3, Position, <1>1
    <3>7. i - (i + 1) + 1 = 0 /\ SizeT(0) = 0
      BY <3>3, NumberAssumption DEF SizeT
    <3> QED
      BY <3>2, <3>5, <3>6, <3>7
  <2>3. CASE \E x \in Iter : Iterate(x)
    <3> SUFFICES ASSUME iters'[it] # iters[it]
                 PROVE  iters[it] # NULL /\ Drift(it)' = Drift(it)
      OBVIOUS
    <3> DEFINE p == iters[it]
    <3>1. /\ Iterate(it) /\ p # NULL /\ it \notin lost /\ UNCHANGED list
          /\ iters'[it] = Advanced(p) /\ next[p.node] # NULL
      <4>1. PICK x \in Iter : Iterate(x)
        BY <2>3
      <4>2. /\ iters[x] # NULL /\ x \notin lost /\ next[iters[x].node] # NULL
            /\ iters' = [iters EXCEPT ![x] = Advanced(iters[x])] /\ UNCHANGED list
        BY <4>1 DEF Iterate, Answer, Following, Crash
      <4>3. x = it /\ iters'[x] = Advanced(iters[x])
        BY <4>2, <1>1 DEF Inv, TypeOK
      <4> QED
        BY <4>1, <4>2, <4>3
    <3>2. PICK a \in 1..len : /\ p.node = Chain[a]
                              /\ a + 1 \in 1..len /\ next[Chain[a]] = Chain[a + 1]
      BY <3>1, <1>1, NextOfUsed
    <3>3. ll /\ len' = len /\ Chain' = Chain /\ len \in Nat /\ len <= UIntMax
      BY <3>1, <1>1, NextOfUsed, ListNow DEF list, Chain
    <3>4. /\ (CHOOSE b \in 1..len : Chain[b] = Chain[a]) = a
          /\ (CHOOSE b \in 1..len : Chain[b] = Chain[a + 1]) = a + 1
      BY <3>2, <3>3, <1>1, Position
    <3>5. Drift(it) = SizeT(p.index - a + 1)
      BY <3>2, <3>4 DEF Drift
    <3>6. iters'[it].node = Chain[a + 1] /\ iters'[it].index = SizeT(p.index + 1)
      BY <3>1, <3>2 DEF Advanced
    <3>7. Drift(it)' = SizeT(SizeT(p.index + 1) - (a + 1) + 1)
      BY <3>3, <3>4, <3>6 DEF Drift, SizeT
    <3>8. p.index \in 0..SizeMax /\ a \in 1..SizeMax
      BY <3>1, <3>2, <3>3, <1>1, NumberAssumption DEF Inv, TypeOK
    <3> QED
      BY <3>1, <3>5, <3>7, <3>8, SizeTStep
  <2>4. CASE \E x \in Iter : DeleteIterator(x)
    BY <2>4, <1>1 DEF DeleteIterator, Inv, TypeOK
  <2> QED
    BY <2>1, <2>2, <2>3, <2>4, <1>1, WhoMovesIterators DEF vars
<1>2. Inv /\ [Next]_vars => [\A it \in Iter : Step(it)]_vars
  BY <1>1
<1> QED
  BY <1>2, Inductive, PTL DEF Spec, IteratorsKeepStep
=============================================================================
