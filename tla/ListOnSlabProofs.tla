--------------------------- MODULE ListOnSlabProofs ---------------------------
(***************************************************************************)
(* The list and the allocator under it agree on every block, for any       *)
(* number of slabs, any sizes and any values: no block is leaked or freed  *)
(* twice, and when the lists and the iterators are gone so are the slabs.  *)
(*                                                                         *)
(* What a call does to the list is taken from LinkedListProofs (LL where   *)
(* requests are served, LN where they are refused), what it does to the    *)
(* slabs from SlabAllocatorProofs (AP).                                    *)
(***************************************************************************)
EXTENDS ListOnSlab, SequenceTheorems, FiniteSetTheorems, TLAPS

AP == INSTANCE SlabAllocatorProofs
        WITH Size <- Sizes, Supported <- Sizes, next <- slab_next, prev <- slab_prev

LL == INSTANCE LinkedListProofs WITH MallocFails <- {}
LN == INSTANCE LinkedListProofs WITH MallocFails <- {"list", "node", "iterator"}

(* The definitions of the parts are the same under both names.             *)
LEMMA SameAssumptions ==
  /\ AP!SizeAssumption /\ AP!SlabSizeAssumption /\ AP!SlabAssumption /\ AP!NullAssumption
  /\ LL!NodeAssumption /\ LL!NumberAssumption /\ LN!NodeAssumption /\ LN!NumberAssumption
<1>1. AP!SizeAssumption /\ AP!SlabSizeAssumption /\ AP!SlabAssumption /\ AP!NullAssumption
  BY PartsAssumption
     DEF A!SizeAssumption, A!SlabSizeAssumption, A!SlabAssumption, A!NullAssumption,
         AP!SizeAssumption, AP!SlabSizeAssumption, AP!SlabAssumption, AP!NullAssumption,
         A!NODE_HEADER_SIZE, AP!NODE_HEADER_SIZE, A!IsFiniteSet, AP!IsFiniteSet
<1>2. LL!NodeAssumption /\ LL!NumberAssumption /\ LN!NodeAssumption /\ LN!NumberAssumption
  BY PartsAssumption
     DEF L!NodeAssumption, L!NumberAssumption, LL!NodeAssumption, LL!NumberAssumption,
         LN!NodeAssumption, LN!NumberAssumption, L!IsFiniteSet, LL!IsFiniteSet,
         LN!IsFiniteSet, L!Cardinality, LL!Cardinality, LN!Cardinality
<1> QED
  BY <1>1, <1>2

LEMMA SameSlabs ==
  /\ A!Init <=> AP!Init
  /\ \A sz : A!MallocTake(sz) <=> AP!MallocTake(sz)
  /\ \A sz : A!MallocNewSlab(sz) <=> AP!MallocNewSlab(sz)
  /\ \A sz : A!MallocFail(sz) <=> AP!MallocFail(sz)
  /\ \A b : A!Free(b) <=> AP!Free(b)
<1>1. A!Init <=> AP!Init
  BY DEF A!Init, AP!Init
<1>2. ASSUME NEW h, NEW S
      PROVE  /\ A!FirstIn(h, S) = AP!FirstIn(h, S)
             /\ (A!NoneIn(h, S) <=> AP!NoneIn(h, S))
  BY DEF A!FirstIn, AP!FirstIn, A!NoneIn, AP!NoneIn, A!Walk, AP!Walk, A!Path, AP!Path,
         A!Cardinality, AP!Cardinality
<1>3. /\ A!SlabsNow = AP!SlabsNow /\ A!NumSlabsNow = AP!NumSlabsNow
      /\ A!NumTotalNow = AP!NumTotalNow /\ A!NotFull = AP!NotFull
      /\ A!heap = AP!heap /\ A!nodes = AP!nodes /\ A!lists = AP!lists
      /\ (A!BelowLimit <=> AP!BelowLimit)
  BY DEF A!SlabsNow, AP!SlabsNow, A!NumSlabsNow, AP!NumSlabsNow, A!NumTotalNow,
         AP!NumTotalNow, A!NotFull, AP!NotFull, A!heap, AP!heap, A!nodes, AP!nodes,
         A!lists, AP!lists, A!BelowLimit, AP!BelowLimit
<1>4. \A sz, p : A!Answer(sz, p) <=> AP!Answer(sz, p)
  BY DEF A!Answer, AP!Answer
<1>5. ASSUME NEW sz PROVE A!MallocTake(sz) <=> AP!MallocTake(sz)
  BY <1>2, <1>3, <1>4 DEF A!MallocTake, AP!MallocTake, A!Pop, AP!Pop, A!heap, AP!heap
<1>6. ASSUME NEW sz PROVE A!MallocNewSlab(sz) <=> AP!MallocNewSlab(sz)
  <2>1. A!FreshFreeList(sz) = AP!FreshFreeList(sz)
    BY DEF A!FreshFreeList, AP!FreshFreeList, A!Nodes, AP!Nodes, A!NumNodes, AP!NumNodes,
           A!NODE_HEADER_SIZE, AP!NODE_HEADER_SIZE
  <2>2. \A s : A!LinkFirst(sz, s) <=> AP!LinkFirst(sz, s)
    BY <1>3 DEF A!LinkFirst, AP!LinkFirst
  <2>3. \A l : A!Pop(l) = AP!Pop(l)
    BY DEF A!Pop, AP!Pop
  <2> QED
    BY <1>2, <1>3, <1>4, <2>1, <2>2, <2>3, Zenon DEF A!MallocNewSlab, AP!MallocNewSlab
<1>7. ASSUME NEW sz PROVE A!MallocFail(sz) <=> AP!MallocFail(sz)
  BY <1>2, <1>3
     DEF A!MallocFail, AP!MallocFail, A!StructMallocFails, AP!StructMallocFails,
         A!PoolMallocFails, AP!PoolMallocFails, A!heap, AP!heap, A!nodes, AP!nodes
<1>8. ASSUME NEW b PROVE A!Free(b) <=> AP!Free(b)
  <2>1. ASSUME NEW s, NEW n PROVE A!FreeToSlab(s, n) <=> AP!FreeToSlab(s, n)
    BY DEF A!FreeToSlab, AP!FreeToSlab, A!Push, AP!Push, A!WasLastBlock, AP!WasLastBlock,
           A!RemoveSlab, AP!RemoveSlab, A!UnlinkOnly, AP!UnlinkOnly, A!UnlinkHead,
           AP!UnlinkHead, A!UnlinkBody, AP!UnlinkBody, A!lists, AP!lists, A!heap, AP!heap
  <2> QED
    BY <1>2, <1>3, <2>1
       DEF A!Free, AP!Free, A!lists, AP!lists, A!nodes, AP!nodes, A!heap, AP!heap
<1> QED
  BY <1>1, <1>5, <1>6, <1>7, <1>8

(* A call that is served is one that might have been refused.              *)
LEMMA SameCalls ==
  /\ (L!Crash <=> LL!Crash) /\ (L!Crash => LN!Crash)
  /\ (L!Create <=> LL!Create) /\ (L!Create => LN!Create)
  /\ (L!Delete <=> LL!Delete) /\ (L!Delete => LN!Delete)
  /\ \A d : (L!InsertEnd(d) <=> LL!InsertEnd(d)) /\ (L!InsertEnd(d) => LN!InsertEnd(d))
  /\ \A d : /\ (L!InsertFront(d) <=> LL!InsertFront(d))
            /\ (L!InsertFront(d) => LN!InsertFront(d))
  /\ \A i, d : /\ (L!Insert(i, d) <=> LL!Insert(i, d))
               /\ (L!Insert(i, d) => LN!Insert(i, d))
  /\ \A i : (L!Remove(i) <=> LL!Remove(i)) /\ (L!Remove(i) => LN!Remove(i))
  /\ \A i : /\ (L!CreateIterator(i) <=> LL!CreateIterator(i))
            /\ (L!CreateIterator(i) => LN!CreateIterator(i))
  /\ \A it : /\ (L!DeleteIterator(it) <=> LL!DeleteIterator(it))
             /\ (L!DeleteIterator(it) => LN!DeleteIterator(it))
  /\ \A it : (L!Iterate(it) <=> LL!Iterate(it)) /\ (L!Iterate(it) => LN!Iterate(it))
<1>1. /\ \A name, i, r : /\ (L!Called(name, i, r) <=> LL!Called(name, i, r))
                         /\ (L!Called(name, i, r) <=> LN!Called(name, i, r))
      /\ \A name, i, r : /\ (L!Answer(name, i, r) <=> LL!Answer(name, i, r))
                         /\ (L!Answer(name, i, r) <=> LN!Answer(name, i, r))
      /\ (L!Crash <=> LL!Crash) /\ (L!Crash <=> LN!Crash)
      /\ \A f, n, k : /\ L!Along(f, n, k) = LL!Along(f, n, k)
                      /\ L!Along(f, n, k) = LN!Along(f, n, k)
      /\ \A i : L!UInt(i) = LL!UInt(i) /\ L!UInt(i) = LN!UInt(i)
      /\ \A i : L!SizeT(i) = LL!SizeT(i) /\ L!SizeT(i) = LN!SizeT(i)
      /\ \A f, F : L!Freed(f, F) = LL!Freed(f, F) /\ L!Freed(f, F) = LN!Freed(f, F)
  BY DEF L!Called, LL!Called, LN!Called, L!Answer, LL!Answer, LN!Answer, L!Crash,
         LL!Crash, LN!Crash, L!list, LL!list, LN!list, L!Along, LL!Along, LN!Along,
         L!UInt, LL!UInt, LN!UInt, L!SizeT, LL!SizeT, LN!SizeT, L!Freed, LL!Freed,
         LN!Freed
<1>a. ASSUME NEW i
      PROVE  /\ L!Walked(i) = LL!Walked(i) /\ L!Walked(i) = LN!Walked(i)
             /\ L!Reached(i) = LL!Reached(i) /\ L!Reached(i) = LN!Reached(i)
  BY <1>1 DEF L!Walked, LL!Walked, LN!Walked, L!Reached, LL!Reached, LN!Reached
<1>2. ASSUME NEW F
      PROVE  /\ (L!FreeNodes(F) <=> LL!FreeNodes(F))
             /\ (L!FreeNodes(F) <=> LN!FreeNodes(F))
  BY <1>1 DEF L!FreeNodes, LL!FreeNodes, LN!FreeNodes
<1>3. ASSUME NEW i
      PROVE  L!Traverse(i) = LL!Traverse(i) /\ L!Traverse(i) = LN!Traverse(i)
  BY <1>1 DEF L!Traverse, LL!Traverse, LN!Traverse
<1>4. ASSUME NEW n, NEW d, NEW i
      PROVE  /\ (L!CreateNode(n, d, i) <=> LL!CreateNode(n, d, i))
             /\ (L!CreateNode(n, d, i) <=> LN!CreateNode(n, d, i))
  BY <1>1 DEF L!CreateNode, LL!CreateNode, LN!CreateNode
<1>5. ASSUME NEW n
      PROVE  /\ (L!LinkOnly(n) <=> LL!LinkOnly(n)) /\ (L!LinkOnly(n) <=> LN!LinkOnly(n))
            /\ (L!LinkLast(n) <=> LL!LinkLast(n)) /\ (L!LinkLast(n) <=> LN!LinkLast(n))
            /\ (L!LinkFirst(n) <=> LL!LinkFirst(n))
            /\ (L!LinkFirst(n) <=> LN!LinkFirst(n))
  BY DEF L!LinkOnly, LL!LinkOnly, LN!LinkOnly, L!LinkLast, LL!LinkLast, LN!LinkLast,
         L!LinkFirst, LL!LinkFirst, LN!LinkFirst
<1>6. ASSUME NEW n, NEW c
      PROVE  /\ (L!LinkBefore(n, c) <=> LL!LinkBefore(n, c))
             /\ (L!LinkBefore(n, c) <=> LN!LinkBefore(n, c))
  BY DEF L!LinkBefore, LL!LinkBefore, LN!LinkBefore
<1>7. ASSUME NEW d
      PROVE  (L!InsertEnd(d) <=> LL!InsertEnd(d)) /\ (L!InsertEnd(d) => LN!InsertEnd(d))
  BY <1>1, <1>4, <1>5, Zenon
     DEF L!InsertEnd, LL!InsertEnd, LN!InsertEnd, L!CreateNodeFails, LL!CreateNodeFails,
         LN!CreateNodeFails, L!Following, LL!Following, LN!Following
<1>8. ASSUME NEW d
      PROVE  /\ (L!InsertFront(d) <=> LL!InsertFront(d))
             /\ (L!InsertFront(d) => LN!InsertFront(d))
  BY <1>1, <1>4, <1>5, Zenon
     DEF L!InsertFront, LL!InsertFront, LN!InsertFront, L!CreateNodeFails,
         LL!CreateNodeFails, LN!CreateNodeFails, L!Following, LL!Following, LN!Following
<1>9. ASSUME NEW i, NEW d
      PROVE  /\ (L!InsertMiddle(i, d) <=> LL!InsertMiddle(i, d))
             /\ (L!InsertMiddle(i, d) => LN!InsertMiddle(i, d))
  BY <1>1, <1>a, <1>3, <1>4, <1>6, Zenon
     DEF L!InsertMiddle, LL!InsertMiddle, LN!InsertMiddle, L!CreateNodeFails,
         LL!CreateNodeFails, LN!CreateNodeFails, L!Following, LL!Following, LN!Following
<1>10. ASSUME NEW i, NEW d
       PROVE  /\ (L!Insert(i, d) <=> LL!Insert(i, d))
              /\ (L!Insert(i, d) => LN!Insert(i, d))
  BY <1>7, <1>8, <1>9 DEF L!Insert, LL!Insert, LN!Insert
<1>11. ASSUME NEW i
       PROVE  (L!Remove(i) <=> LL!Remove(i)) /\ (L!Remove(i) => LN!Remove(i))
  <2>1. \A c : /\ (L!RemoveNode(i, c) <=> LL!RemoveNode(i, c))
               /\ (L!RemoveNode(i, c) <=> LN!RemoveNode(i, c))
    BY <1>1, <1>2 DEF L!RemoveNode, LL!RemoveNode, LN!RemoveNode
  <2>2. /\ (L!UnlinkOnly <=> LL!UnlinkOnly) /\ (L!UnlinkOnly <=> LN!UnlinkOnly)
        /\ (L!UnlinkHead <=> LL!UnlinkHead) /\ (L!UnlinkHead <=> LN!UnlinkHead)
        /\ (L!UnlinkTail <=> LL!UnlinkTail) /\ (L!UnlinkTail <=> LN!UnlinkTail)
        /\ \A c : /\ (L!UnlinkBody(c) <=> LL!UnlinkBody(c))
                  /\ (L!UnlinkBody(c) <=> LN!UnlinkBody(c))
    BY <1>1 DEF L!UnlinkOnly, LL!UnlinkOnly, LN!UnlinkOnly, L!UnlinkHead, LL!UnlinkHead,
                LN!UnlinkHead, L!UnlinkTail, LL!UnlinkTail, LN!UnlinkTail, L!UnlinkBody,
                LL!UnlinkBody, LN!UnlinkBody
  <2>3. (L!RemoveMiddle(i) <=> LL!RemoveMiddle(i)) /\ (L!RemoveMiddle(i) <=> LN!RemoveMiddle(i))
    BY <1>1, <1>a, <1>3, <2>1, <2>2
       DEF L!RemoveMiddle, LL!RemoveMiddle, LN!RemoveMiddle, L!Following, LL!Following,
           LN!Following
  <2> QED
    BY <1>1, <2>1, <2>2, <2>3
       DEF L!Remove, LL!Remove, LN!Remove, L!Following, LL!Following, LN!Following
<1>12. (L!Create <=> LL!Create) /\ (L!Create => LN!Create)
  BY <1>1 DEF L!Create, LL!Create, LN!Create
<1>13. (L!Delete <=> LL!Delete) /\ (L!Delete => LN!Delete)
  <2>1. /\ L!Cardinality(Node) = LL!Cardinality(Node)
        /\ L!Cardinality(Node) = LN!Cardinality(Node)
    BY DEF L!Cardinality, LL!Cardinality, LN!Cardinality
  <2> QED
    BY <1>1, <1>a, <1>2, <2>1 DEF L!Delete, LL!Delete, LN!Delete, L!Following, LL!Following,
                                  LN!Following
<1>14. ASSUME NEW i
       PROVE  /\ (L!CreateIterator(i) <=> LL!CreateIterator(i))
              /\ (L!CreateIterator(i) => LN!CreateIterator(i))
  BY <1>1, <1>a, <1>3 DEF L!CreateIterator, LL!CreateIterator, LN!CreateIterator, L!list,
                          LL!list, LN!list, L!Following, LL!Following, LN!Following
<1>15. ASSUME NEW it
       PROVE  /\ (L!DeleteIterator(it) <=> LL!DeleteIterator(it))
              /\ (L!DeleteIterator(it) => LN!DeleteIterator(it))
  BY <1>1 DEF L!DeleteIterator, LL!DeleteIterator, LN!DeleteIterator, L!list, LL!list,
              LN!list
<1>16. ASSUME NEW it
       PROVE  (L!Iterate(it) <=> LL!Iterate(it)) /\ (L!Iterate(it) => LN!Iterate(it))
  BY <1>1 DEF L!Iterate, LL!Iterate, LN!Iterate, L!Advanced, LL!Advanced, LN!Advanced,
              L!list, LL!list, LN!list, L!Following, LL!Following, LN!Following
<1> QED
  BY <1>1, <1>7, <1>8, <1>10, <1>11, <1>12, <1>13, <1>14, <1>15, <1>16

----------------------------------------------------------------------------
(* The blocks in use: that of the list, those of its nodes, of the         *)
(* iterators, and those a deletion has still to free.                      *)
Blocks(lb, ns, us, td) ==
  {Block(lb, ListSize) : x \in {y \in {1} : lb # NULL}}
    \cup {Block(n, NodeSize) : n \in ns}
    \cup {Block(it, IteratorSize) : it \in us}
    \cup {Block(td[k], IF k = Len(td) THEN ListSize ELSE NodeSize) : k \in DOMAIN td}

(* No block is in use twice: with equal sizes, Blocks alone does not tell. *)
Apart(lb, ns, us, td) ==
  /\ lb \notin ns \cup us
  /\ ns \cap us = {}
  /\ \A k, l \in DOMAIN td : td[k] = td[l] => k = l
  /\ \A k \in DOMAIN td : td[k] \notin us
  /\ td # <<>> => lb = NULL /\ ns = {}

LEMMA InBlocks ==
  ASSUME NEW lb, NEW ns, NEW us, NEW td, NEW b
  PROVE  b \in Blocks(lb, ns, us, td) <=>
           \/ lb # NULL /\ b = Block(lb, ListSize)
           \/ \E n \in ns : b = Block(n, NodeSize)
           \/ \E it \in us : b = Block(it, IteratorSize)
           \/ \E k \in DOMAIN td : b = Block(td[k], IF k = Len(td) THEN ListSize ELSE NodeSize)
BY DEF Blocks

LEMMA BlockPtr == \A p, q, sz, t : Block(p, sz) = Block(q, t) => p = q
BY DEF Block

(* A set that grows or shrinks has a name of its own, for the provers.     *)
LEMMA AddList ==
  ASSUME NEW ns, NEW us, NEW td, NEW p, p # NULL
  PROVE  Blocks(p, ns, us, td) = Blocks(NULL, ns, us, td) \cup {Block(p, ListSize)}
BY DEF Blocks

LEMMA AddIterator ==
  ASSUME NEW lb, NEW ns, NEW us, NEW td, NEW p, NEW S, S = us \cup {p}
  PROVE  Blocks(lb, ns, S, td) = Blocks(lb, ns, us, td) \cup {Block(p, IteratorSize)}
BY DEF Blocks

LEMMA FreshIsApart ==
  ASSUME NEW lb, NEW ns, NEW us, NEW td, NEW p, p \notin {b.ptr : b \in Blocks(lb, ns, us, td)}
  PROVE  /\ lb # NULL => p # lb
         /\ p \notin ns /\ p \notin us
         /\ \A k \in DOMAIN td : td[k] # p
<1>1. ASSUME NEW q, NEW sz, Block(q, sz) \in Blocks(lb, ns, us, td) PROVE p # q
  <2>1. Block(q, sz).ptr = q
    BY DEF Block
  <2> QED
    BY <1>1, <2>1
<1>2. /\ lb # NULL => Block(lb, ListSize) \in Blocks(lb, ns, us, td)
      /\ \A n \in ns : Block(n, NodeSize) \in Blocks(lb, ns, us, td)
      /\ \A it \in us : Block(it, IteratorSize) \in Blocks(lb, ns, us, td)
      /\ \A k \in DOMAIN td : Block(td[k], IF k = Len(td) THEN ListSize ELSE NodeSize)
                                \in Blocks(lb, ns, us, td)
  BY InBlocks, Zenon
<1> QED
  BY <1>1, <1>2

LEMMA DropNode ==
  ASSUME NEW lb, NEW ns, NEW us, NEW td, Apart(lb, ns, us, td),
         NEW n \in ns, NEW S, S = ns \ {n}
  PROVE  /\ Block(n, NodeSize) \in Blocks(lb, ns, us, td)
         /\ Blocks(lb, S, us, td) = Blocks(lb, ns, us, td) \ {Block(n, NodeSize)}
         /\ Apart(lb, S, us, td)
<1>1. Block(n, NodeSize) \in Blocks(lb, ns, us, td)
  BY InBlocks
<1>2. lb # n /\ n \notin us /\ td = <<>>
  BY DEF Apart
<1>3. DOMAIN td = {}
  BY <1>2
<1>4. ASSUME NEW b
      PROVE  b \in Blocks(lb, S, us, td)
               <=> b \in Blocks(lb, ns, us, td) /\ b # Block(n, NodeSize)
  BY <1>2, <1>3, InBlocks, BlockPtr
<1>5. Apart(lb, S, us, td)
  BY DEF Apart
<1> QED
  BY <1>1, <1>4, <1>5

LEMMA DropIterator ==
  ASSUME NEW lb, NEW ns, NEW us, NEW td, Apart(lb, ns, us, td),
         NEW it \in us, NEW S, S = us \ {it}
  PROVE  /\ Block(it, IteratorSize) \in Blocks(lb, ns, us, td)
         /\ Blocks(lb, ns, S, td) = Blocks(lb, ns, us, td) \ {Block(it, IteratorSize)}
         /\ Apart(lb, ns, S, td)
<1>1. Block(it, IteratorSize) \in Blocks(lb, ns, us, td)
  BY InBlocks
<1>2. lb # it /\ it \notin ns /\ \A k \in DOMAIN td : td[k] # it
  BY DEF Apart
<1>3. ASSUME NEW b
      PROVE  b \in Blocks(lb, ns, S, td)
               <=> b \in Blocks(lb, ns, us, td) /\ b # Block(it, IteratorSize)
  BY <1>2, InBlocks, BlockPtr
<1>4. Apart(lb, ns, S, td)
  BY SMTT(30) DEF Apart
<1> QED
  BY <1>1, <1>3, <1>4

LEMMA DropFirst ==
  ASSUME NEW lb, NEW ns, NEW us, NEW T, NEW td \in Seq(T), td # <<>>, Apart(lb, ns, us, td),
         NEW b, b = Block(Head(td), IF Len(td) = 1 THEN ListSize ELSE NodeSize)
  PROVE  /\ b \in Blocks(lb, ns, us, td)
         /\ Blocks(lb, ns, us, Tail(td)) = Blocks(lb, ns, us, td) \ {b}
         /\ Apart(lb, ns, us, Tail(td)) /\ Tail(td) \in Seq(T)
<1>1. Len(td) \in Nat /\ Len(td) >= 1 /\ DOMAIN td = 1..Len(td) /\ Head(td) = td[1]
  BY EmptySeq, LenProperties
<1>2. /\ Tail(td) \in Seq(T) /\ Len(Tail(td)) = Len(td) - 1
      /\ \A k \in 1..Len(td) - 1 : Tail(td)[k] = td[k + 1]
  BY HeadTailProperties
<1>3. DOMAIN Tail(td) = 1..Len(td) - 1
  BY <1>2, LenProperties
<1>4. lb = NULL /\ ns = {} /\ (\A k, l \in 1..Len(td) : td[k] = td[l] => k = l)
      /\ (\A k \in 1..Len(td) : td[k] \notin us)
  BY <1>1 DEF Apart
<1> DEFINE Due(k) == Block(td[k], IF k = Len(td) THEN ListSize ELSE NodeSize)
<1>5. b = Due(1) /\ 1 \in DOMAIN td
  BY <1>1
<1>6. \A c : c \in Blocks(lb, ns, us, td) <=>
               (\E it \in us : c = Block(it, IteratorSize)) \/ \E k \in 1..Len(td) : c = Due(k)
  <2> SUFFICES ASSUME NEW c
               PROVE  c \in Blocks(lb, ns, us, td) <=>
                        \/ \E it \in us : c = Block(it, IteratorSize)
                        \/ \E k \in 1..Len(td) : c = Due(k)
    OBVIOUS
  <2>1. c \in Blocks(lb, ns, us, td) <=>
          \/ lb # NULL /\ c = Block(lb, ListSize)
          \/ \E n \in ns : c = Block(n, NodeSize)
          \/ \E it \in us : c = Block(it, IteratorSize)
          \/ \E k \in DOMAIN td : c = Due(k)
    BY DEF Blocks
  <2> HIDE DEF Due
  <2> QED
    BY <2>1, <1>1, <1>4
<1>7. \A c : c \in Blocks(lb, ns, us, Tail(td)) <=>
               \/ \E it \in us : c = Block(it, IteratorSize)
               \/ \E k \in 1..Len(td) - 1 : c = Due(k + 1)
  <2>1. ASSUME NEW k \in 1..Len(td) - 1
        PROVE  Due(k + 1)
                 = Block(Tail(td)[k], IF k = Len(Tail(td)) THEN ListSize ELSE NodeSize)
    <3>1. Tail(td)[k] = td[k + 1] /\ (k = Len(Tail(td)) <=> k + 1 = Len(td))
      BY <1>1, <1>2
    <3> QED
      BY <3>1
  <2>2. \A c : c \in Blocks(lb, ns, us, Tail(td)) <=>
               \/ \E it \in us : c = Block(it, IteratorSize)
               \/ \E k \in 1..Len(td) - 1 :
                    c = Block(Tail(td)[k], IF k = Len(Tail(td)) THEN ListSize ELSE NodeSize)
    <3> SUFFICES ASSUME NEW c
                 PROVE  c \in Blocks(lb, ns, us, Tail(td)) <=>
                   \/ \E it \in us : c = Block(it, IteratorSize)
                   \/ \E k \in 1..Len(td) - 1 :
                        c = Block(Tail(td)[k], IF k = Len(Tail(td)) THEN ListSize ELSE NodeSize)
      OBVIOUS
    <3> DEFINE r == Tail(td)
    <3>1. c \in Blocks(lb, ns, us, r) <=>
            \/ lb # NULL /\ c = Block(lb, ListSize)
            \/ \E n \in ns : c = Block(n, NodeSize)
            \/ \E it \in us : c = Block(it, IteratorSize)
            \/ \E k \in DOMAIN r : c = Block(r[k], IF k = Len(r) THEN ListSize ELSE NodeSize)
      BY DEF Blocks
    <3> QED
      BY <3>1, <1>3, <1>4
  <2> HIDE DEF Due
  <2>3. ASSUME NEW c
        PROVE  (\E k \in 1..Len(td) - 1 :
                  c = Block(Tail(td)[k], IF k = Len(Tail(td)) THEN ListSize ELSE NodeSize))
                 <=> \E k \in 1..Len(td) - 1 : c = Due(k + 1)
    BY <2>1
  <2> QED
    BY <2>2, <2>3
<1>8. \A k \in 1..Len(td) : k # 1 => Due(k) # Due(1)
  <2>1. \A k \in 1..Len(td) : k # 1 => td[k] # td[1]
    BY <1>1, <1>4
  <2> QED
    BY <2>1, BlockPtr, Zenon
<1>9. \A it \in us : Block(it, IteratorSize) # Due(1)
  BY <1>1, <1>4, BlockPtr
<1>10. Blocks(lb, ns, us, Tail(td)) = Blocks(lb, ns, us, td) \ {b}
  <2> HIDE DEF Due
  <2>1. ASSUME NEW c PROVE (\E k \in 1..Len(td) - 1 : c = Due(k + 1))
                             <=> \E k \in 1..Len(td) : k # 1 /\ c = Due(k)
    <3>1. \A k \in 1..Len(td) - 1 : k + 1 \in 1..Len(td) /\ k + 1 # 1
      BY <1>1
    <3>2. \A k \in 1..Len(td) : k # 1 => k - 1 \in 1..Len(td) - 1 /\ k - 1 + 1 = k
      BY <1>1
    <3> QED
      BY <3>1, <3>2
  <2>2. ASSUME NEW c PROVE c \in Blocks(lb, ns, us, Tail(td))
                             <=> c \in Blocks(lb, ns, us, td) /\ c # b
    BY <2>1, <1>1, <1>5, <1>6, <1>7, <1>8, <1>9
  <2> QED
    BY <2>2
<1>11. Apart(lb, ns, us, Tail(td))
  <2>1. \A k \in 1..Len(td) - 1 : k + 1 \in 1..Len(td) /\ Tail(td)[k] = td[k + 1]
    BY <1>1, <1>2
  <2>2. \A k, l \in 1..Len(td) - 1 : Tail(td)[k] = Tail(td)[l] => k = l
    <3> SUFFICES ASSUME NEW k \in 1..Len(td) - 1, NEW l \in 1..Len(td) - 1,
                        Tail(td)[k] = Tail(td)[l]
                 PROVE  k = l
      OBVIOUS
    <3>1. k + 1 = l + 1
      BY <2>1, <1>4
    <3> QED
      BY <3>1
  <2> QED
    BY <2>1, <2>2, <1>3, <1>4 DEF Apart
<1> QED
  BY <1>1, <1>2, <1>5, <1>6, <1>10, <1>11

(* A deletion hands over what the list had: no block changes hands.        *)
LEMMA Scrap ==
  ASSUME NEW lb, lb # NULL, NEW ns, NEW us, Apart(lb, ns, us, <<>>), NEW m \in Nat,
         NEW q \in [1..m -> ns],
         \A k, l \in 1..m : q[k] = q[l] => k = l, \A n \in ns : \E k \in 1..m : q[k] = n
  PROVE  /\ Append(q, lb) \in Seq(ns \cup {lb})
         /\ Blocks(NULL, {}, us, Append(q, lb)) = Blocks(lb, ns, us, <<>>)
         /\ Apart(NULL, {}, us, Append(q, lb)) \/ NULL \in us
<1> DEFINE t == Append(q, lb)
<1>1. q \in Seq(ns) /\ Len(q) = m /\ q \in Seq(ns \cup {lb})
  <2>1. q \in [1..m -> ns \cup {lb}]
    OBVIOUS
  <2> QED
    BY <2>1, SeqDef, LenProperties
<1>2. /\ t \in Seq(ns \cup {lb}) /\ Len(t) = m + 1 /\ DOMAIN t = 1..m + 1
      /\ (\A k \in 1..m : t[k] = q[k]) /\ t[m + 1] = lb /\ t # <<>>
  <2>1. /\ t \in Seq(ns \cup {lb}) /\ Len(t) = m + 1
        /\ (\A k \in 1..m : t[k] = q[k]) /\ t[m + 1] = lb
    BY <1>1, AppendProperties
  <2>2. DOMAIN t = 1..m + 1
    BY <2>1, LenProperties
  <2>3. t # <<>>
    BY <2>1, EmptySeq
  <2> QED
    BY <2>1, <2>2, <2>3
<1> HIDE DEF t
<1>3. /\ lb \notin ns /\ lb \notin us /\ ns \cap us = {}
      /\ \A k \in 1..m : q[k] \in ns
  BY DEF Apart
<1>4. ASSUME NEW b PROVE b \in Blocks(NULL, {}, us, t) <=> b \in Blocks(lb, ns, us, <<>>)
  <2>1. b \in Blocks(lb, ns, us, <<>>) <=>
          \/ b = Block(lb, ListSize)
          \/ \E n \in ns : b = Block(n, NodeSize)
          \/ \E it \in us : b = Block(it, IteratorSize)
    BY InBlocks
  <2>2. b \in Blocks(NULL, {}, us, t) <=>
          \/ \E it \in us : b = Block(it, IteratorSize)
          \/ \E k \in 1..m + 1 : b = Block(t[k], IF k = m + 1 THEN ListSize ELSE NodeSize)
    BY <1>2, InBlocks
  <2>3. (\E k \in 1..m + 1 : b = Block(t[k], IF k = m + 1 THEN ListSize ELSE NodeSize))
          <=> \/ b = Block(lb, ListSize)
              \/ \E k \in 1..m : b = Block(q[k], NodeSize)
    <3>1. \A k \in 1..m + 1 : k = m + 1 \/ (k \in 1..m /\ k # m + 1)
      OBVIOUS
    <3>2. \A k \in 1..m : k \in 1..m + 1 /\ k # m + 1
      OBVIOUS
    <3>3. m + 1 \in 1..m + 1
      OBVIOUS
    <3> QED
      BY <3>1, <3>2, <3>3, <1>2
  <2>4. (\E k \in 1..m : b = Block(q[k], NodeSize)) <=> \E n \in ns : b = Block(n, NodeSize)
    BY <1>3
  <2> QED
    BY <2>1, <2>2, <2>3, <2>4
<1>5. ASSUME NULL \notin us PROVE Apart(NULL, {}, us, t)
  <2>1. ASSUME NEW k \in 1..m + 1, NEW l \in 1..m + 1, t[k] = t[l] PROVE k = l
    <3>1. CASE k \in 1..m /\ l \in 1..m
      BY <3>1, <2>1, <1>2
    <3>2. CASE k = m + 1 /\ l \in 1..m
      BY <3>2, <2>1, <1>2, <1>3
    <3>3. CASE k \in 1..m /\ l = m + 1
      BY <3>3, <2>1, <1>2, <1>3
    <3> QED
      BY <3>1, <3>2, <3>3
  <2>2. ASSUME NEW k \in 1..m + 1 PROVE t[k] \notin us
    <3>1. CASE k \in 1..m
      BY <3>1, <1>2, <1>3
    <3>2. CASE k = m + 1
      BY <3>2, <1>2, <1>3
    <3> QED
      BY <3>1, <3>2
  <2> QED
    BY <1>2, <1>5, <2>1, <2>2 DEF Apart
<1> QED
  BY <1>2, <1>4, <1>5 DEF t

----------------------------------------------------------------------------
(* The inductive invariant: those of the two modules, that the blocks the  *)
(* slabs have handed out are those in use, none of them twice, and what    *)
(* the flags and pointers of the tests say.                                *)
Using == {it \in Iter : iters[it] # NULL}

Wired == queue_malloc = list_malloc /\ queue_free = list_free

Owners ==
  /\ list_block \in AP!Ptr \cup {NULL}
  /\ ll <=> list_block # NULL
  /\ todo \in Seq(AP!Ptr)
  /\ Apart(list_block, nodes, Using, todo)
  /\ live = Blocks(list_block, nodes, Using, todo)
  /\ instrumented_malloc_fail_next => ~ll

Inv == AP!Inv /\ LL!Inv /\ Wired /\ Owners /\ EndsOnlyRefused

(* What a step is to the two modules.                                      *)
SlabStep == AP!Next \/ UNCHANGED slab_vars
ListStep == LN!Next \/ UNCHANGED list_vars

Sound == Inv' /\ SlabStep /\ ListStep

LEMMA Addresses ==
  /\ NULL \notin AP!Ptr /\ Node \subseteq AP!Ptr /\ Iter \subseteq AP!Ptr
  /\ \A sz \in Sizes : Slab \X AP!Nodes(sz) \subseteq AP!Ptr
  /\ Node = Slab \X AP!Nodes(NodeSize) /\ Iter = Slab \X AP!Nodes(IteratorSize)
<1>1. NULL \notin AP!Ptr
  BY SameAssumptions, AP!PtrType DEF AP!NullAssumption
<1>2. \A c : A!Nodes(c) = AP!Nodes(c)
  BY DEF A!Nodes, AP!Nodes, A!NumNodes, AP!NumNodes, A!NODE_HEADER_SIZE, AP!NODE_HEADER_SIZE
<1>3. ListSize \in Sizes /\ NodeSize \in Sizes /\ IteratorSize \in Sizes
  BY DEF Sizes
<1>4. \A sz \in Sizes : Slab \X AP!Nodes(sz) \subseteq AP!Ptr
  BY DEF AP!Ptr
<1> QED
  BY <1>1, <1>2, <1>3, <1>4 DEF Node, Iter

(* A block that instrumented_malloc() returns is in nobody's use.          *)
LEMMA ServeEffect ==
  ASSUME Inv, NEW sz \in Sizes, Serve(sz)
  PROVE  /\ AP!Inv' /\ exited' = exited /\ SlabStep
         /\ \E p \in Slab \X AP!Nodes(sz) :
              /\ p \in AP!Ptr /\ p # NULL /\ p \notin {b.ptr : b \in live}
              /\ live' = live \cup {Block(p, sz)} /\ Given = {p}
         /\ ~instrumented_malloc_fail_next' /\ ~instrumented_malloc_fail_next
<1>1. AP!MallocTake(sz) \/ AP!MallocNewSlab(sz)
  BY SameSlabs DEF Serve
<1>2. AP!Inv' /\ AP!Fresh(sz)
  <2>1. CASE AP!MallocTake(sz)
    BY <2>1, SameAssumptions, AP!TakeStep, AP!TakeIsFresh DEF Inv
  <2>2. CASE AP!MallocNewSlab(sz)
    BY <2>2, SameAssumptions, AP!NewSlabStep, AP!NewSlabIsFresh DEF Inv
  <2> QED
    BY <1>1, <2>1, <2>2
<1>3. PICK p \in Slab \X AP!Nodes(sz) :
        /\ p \in AP!Ptr /\ p \notin {b.ptr : b \in live}
        /\ live' = live \cup {[ptr |-> p, size |-> sz]} /\ exited' = exited
  BY <1>2 DEF AP!Fresh, AP!Answer
<1>4. Given = {p}
  <2>1. PICK r : r = [ptr |-> p, size |-> sz]
    OBVIOUS
  <2>2. r.ptr = p /\ r \notin live
    BY <2>1, <1>3
  <2>3. live' \ live = {r}
    BY <2>1, <2>2, <1>3
  <2> QED
    BY <2>2, <2>3 DEF Given
<1>5. AP!Next
  BY <1>1 DEF AP!Next, Inv, EndsOnlyRefused
<1> QED
  BY <1>2, <1>3, <1>4, <1>5, Addresses DEF Serve, Block, SlabStep

LEMMA RefuseEffect ==
  ASSUME Inv, NEW sz \in Sizes, Refuse(sz)
  PROVE  /\ AP!Inv' /\ exited' = exited /\ SlabStep
         /\ live' = live
         /\ ~instrumented_malloc_last_alloc_successful'
         /\ instrumented_malloc_fail_next' => instrumented_malloc_fail_next
         /\ instrumented_malloc_fail_next \/ refused' # NULL
<1>1. CASE /\ instrumented_malloc_fail_next /\ ~instrumented_malloc_fail_next'
           /\ UNCHANGED slab_vars
  <2>1. UNCHANGED AP!vars
    BY <1>1 DEF slab_vars, AP!vars, AP!lists, AP!nodes, AP!heap, AP!client
  <2>2. AP!Inv'
    BY <2>1, SameAssumptions, AP!StutterStep DEF Inv
  <2> QED
    BY <1>1, <2>2 DEF slab_vars, SlabStep, Refuse
<1>2. CASE A!MallocFail(sz) /\ UNCHANGED instrumented_malloc_fail_next
  <2>1. AP!MallocFail(sz)
    BY <1>2, SameSlabs
  <2>2. AP!Inv'
    BY <2>1, SameAssumptions, AP!FailStep DEF Inv
  <2>3. refused' = sz /\ live' = live /\ exited' = exited
    BY <2>1 DEF AP!MallocFail
  <2>4. sz # NULL
    BY PartsAssumption
  <2>5. AP!Next
    BY <2>1 DEF AP!Next, Inv, EndsOnlyRefused
  <2> QED
    BY <1>2, <2>2, <2>3, <2>4, <2>5 DEF SlabStep, Refuse
<1> QED
  BY <1>1, <1>2 DEF Refuse

LEMMA GiveBackEffect ==
  ASSUME Inv, NEW p, NEW sz, Block(p, sz) \in live, GiveBack(p, sz)
  PROVE  /\ AP!Inv' /\ exited' = exited /\ SlabStep
         /\ live' = live \ {Block(p, sz)}
<1>1. AP!Free(Block(p, sz))
  BY SameSlabs DEF GiveBack, Block
<1>2. AP!Inv' /\ live' = live \ {Block(p, sz)} /\ exited' = exited
  BY <1>1, SameAssumptions, AP!FreeStep, AP!FreeIsDone DEF Inv
<1>3. AP!Next
  BY <1>1 DEF AP!Next, Inv, EndsOnlyRefused
<1> QED
  BY <1>2, <1>3 DEF SlabStep

(* Steps that leave the slabs, or the list, alone.                         *)
LEMMA SlabsStill ==
  ASSUME Inv, UNCHANGED slab_vars
  PROVE  AP!Inv' /\ SlabStep /\ UNCHANGED <<live, refused, exited>>
<1>1. UNCHANGED AP!vars
  BY DEF slab_vars, AP!vars, AP!lists, AP!nodes, AP!heap, AP!client
<1> QED
  BY <1>1, SameAssumptions, AP!StutterStep DEF Inv, slab_vars, SlabStep

LEMMA ListStill ==
  ASSUME Inv, UNCHANGED list_vars
  PROVE  LL!Inv' /\ ListStep /\ UNCHANGED <<ll, nodes, iters, crashed>> /\ Using' = Using
<1>1. UNCHANGED LL!vars
  BY DEF list_vars, LL!vars, LL!list
<1> QED
  BY <1>1, SameAssumptions, LL!StutterStep DEF Inv, list_vars, ListStep, Using

(* What the types say of nodes and iterators.                              *)
LEMMA ListTypes ==
  ASSUME Inv
  PROVE  /\ nodes \subseteq Node /\ Using \subseteq Iter /\ (~ll => nodes = {})
         /\ iters \in [Iter -> [node : Node, index : 0..SizeMax, data : Value \cup {Garbage}]
                                  \cup {NULL}]
         /\ NULL \notin [node : Node, index : 0..SizeMax, data : Value \cup {Garbage}]
         /\ nodes \subseteq AP!Ptr /\ Using \subseteq AP!Ptr
         /\ list_block # NULL => todo = <<>>
         /\ ll \in BOOLEAN /\ crashed \in BOOLEAN
<1>1. LL!TypeOK /\ LL!Listed
  BY DEF Inv, LL!Inv
<1>2. NULL \notin [node : Node, index : 0..SizeMax, data : Value \cup {Garbage}]
  <2>1. 0..SizeMax \subseteq Nat
    BY SameAssumptions DEF LL!NumberAssumption
  <2>2. [node : Node, index : 0..SizeMax, data : Value \cup {Garbage}]
           \subseteq [node : Node, index : Nat, data : Value \cup {Garbage}]
    BY <2>1
  <2> QED
    BY <2>2, SameAssumptions DEF LL!NodeAssumption
<1>3. list_block # NULL => todo = <<>>
  BY DEF Inv, Owners, Apart
<1> QED
  BY <1>1, <1>2, <1>3, Addresses DEF LL!TypeOK, LL!Listed, Using

----------------------------------------------------------------------------
(* The calls of the list, as far as blocks are concerned.                  *)
Fits == Index \subseteq 0..UIntMax - 1

LEMMA InsertServed ==
  ASSUME Inv, Fits, ll, ~crashed, Inserts
  PROVE  /\ LL!Inv' /\ ListStep /\ ~crashed'
         /\ nodes' # nodes => /\ UNCHANGED <<ll, iters>>
                              /\ \E n \in Node : nodes' = nodes \cup {n} /\ n \notin nodes
<1> DEFINE Puts == /\ LL!Inv' /\ ~crashed'
                   /\ nodes' # nodes =>
                        /\ UNCHANGED <<ll, iters>>
                        /\ \E n \in Node : nodes' = nodes \cup {n} /\ n \notin nodes
<1>0. LL!Inv
  BY DEF Inv
<1>a. /\ LL!Crash => nodes' = nodes
      /\ \A name, i, r : LL!Answer(name, i, r) => nodes' = nodes
  BY DEF LL!Crash, LL!Answer, LL!list
<1>1. ASSUME NEW d \in Value, LL!InsertEnd(d) PROVE Puts
  <2>1. LL!Inv' /\ crashed' = crashed
    BY <1>0, <1>1, SameAssumptions, LL!InsertEndStep
  <2> QED
    BY <1>1, <1>a, <2>1 DEF LL!InsertEnd, LL!CreateNodeFails, LL!CreateNode, LL!Following
<1>2. ASSUME NEW d \in Value, LL!InsertFront(d) PROVE Puts
  <2>1. LL!Inv' /\ crashed' = crashed
    BY <1>0, <1>2, SameAssumptions, LL!InsertFrontStep
  <2> QED
    BY <1>2, <1>a, <2>1 DEF LL!InsertFront, LL!CreateNodeFails, LL!CreateNode, LL!Following
<1>3. ASSUME NEW d \in Value, NEW i \in Index, LL!Insert(i, d) PROVE Puts
  <2>1. LL!Inv' /\ crashed' = crashed
    BY <1>0, <1>3, SameAssumptions, LL!InsertStep DEF Fits
  <2>2. CASE LL!InsertMiddle(i, d)
    BY <1>a, <2>1, <2>2 DEF LL!InsertMiddle, LL!CreateNodeFails, LL!CreateNode, LL!Following
  <2> QED
    BY <1>1, <1>2, <1>3, <2>2 DEF LL!Insert
<1>4. Puts
  BY <1>1, <1>2, <1>3, SameCalls DEF Inserts
<1>5. LN!CallOnList
  BY SameCalls DEF Inserts, LN!CallOnList
<1> QED
  BY <1>4, <1>5 DEF ListStep, LN!Next

(* Without memory, the first write ends the program.                       *)
LEMMA Crashes ==
  ASSUME Inv, L!Crash
  PROVE  LL!Inv' /\ UNCHANGED <<ll, nodes, iters>> /\ Using' = Using
<1>1. LL!Inv'
  BY SameAssumptions, SameCalls, LL!CrashStep DEF Inv
<1> QED
  BY <1>1 DEF L!Crash, L!list, Using

LEMMA InsertRefused ==
  ASSUME ll, ~crashed, InsertsWithoutMemory, crashed'
  PROVE  L!Crash /\ ListStep
<1>1. N!Crash <=> L!Crash
  BY DEF N!Crash, L!Crash, N!list, L!list
<1>2. PICK d \in Value : N!InsertEnd(d) \/ N!InsertFront(d) \/ \E i \in Index : N!Insert(i, d)
  BY DEF InsertsWithoutMemory
<1>3. N!Crash
  BY <1>2 DEF N!InsertEnd, N!InsertFront, N!Insert, N!InsertMiddle, N!CreateNodeFails,
              N!CreateNode, N!Answer, N!Following
<1>4. LN!InsertEnd(d)
  BY <1>3 DEF N!Crash, N!list, LN!InsertEnd, LN!CreateNodeFails, LN!Crash, LN!list
<1> QED
  BY <1>1, <1>3, <1>4 DEF ListStep, LN!Next, LN!CallOnList

LEMMA RemoveDetail ==
  ASSUME Inv, ll, ~crashed, NEW i \in Index, L!Remove(i)
  PROVE  /\ LL!Inv' /\ ListStep /\ ~crashed' /\ UNCHANGED <<ll, iters>>
<1>1. LL!Remove(i) /\ LN!Remove(i)
  BY SameCalls
<1>2. i \in Nat
  BY SameAssumptions DEF LL!NumberAssumption
<1>3. LL!Inv' /\ crashed' = crashed
  BY <1>1, <1>2, SameAssumptions, LL!RemoveStep DEF Inv
<1>4. LL!Answer("remove", i, 0) \/ LL!Crash \/ \E c : LL!RemoveNode(i, c)
  BY <1>1 DEF LL!Remove, LL!RemoveMiddle, LL!Following
<1>5. UNCHANGED <<ll, iters>>
  BY <1>4 DEF LL!RemoveNode, LL!Answer, LL!Crash, LL!list
<1> QED
  BY <1>1, <1>3, <1>5 DEF ListStep, LN!Next, LN!CallOnList

LEMMA CreateIteratorServed ==
  ASSUME Inv, Fits, ll, ~crashed, NEW i \in Index, L!CreateIterator(i),
         NEW p, {it \in Iter : iters[it] = NULL /\ iters'[it] # NULL} = {p}
  PROVE  /\ LL!Inv' /\ ListStep /\ ~crashed' /\ UNCHANGED <<ll, nodes>>
         /\ Using' = Using \cup {p}
<1>1. LL!CreateIterator(i) /\ LN!CreateIterator(i)
  BY SameCalls
<1>2. LL!Inv' /\ crashed' = crashed
  BY <1>1, SameAssumptions, LL!CreateIteratorStep DEF Inv, Fits
<1>3. p \in Iter /\ iters[p] = NULL /\ iters'[p] # NULL
  OBVIOUS
<1>4. ~LL!Answer("iterator", i, 0) /\ ~LL!Crash
  BY <1>3 DEF LL!Answer, LL!Crash
<1>5. PICK x \in Iter : /\ iters[x] = NULL /\ UNCHANGED <<ll, nodes>>
                        /\ \A y \in Iter : y # x => iters'[y] = iters[y]
  <2>1. PICK x \in Iter : /\ iters[x] = NULL /\ UNCHANGED <<ll, nodes>>
                          /\ \E v : iters' = [iters EXCEPT ![x] = v]
    BY <1>1, <1>4 DEF LL!CreateIterator, LL!list, LL!Following
  <2> QED
    BY <2>1, ListTypes
<1>6. x = p
  BY <1>3, <1>5
<1>7. Using' = Using \cup {p}
  BY <1>3, <1>5, <1>6 DEF Using
<1> QED
  BY <1>1, <1>2, <1>5, <1>7 DEF ListStep, LN!Next, LN!CallOnList

LEMMA CreateIteratorRefused ==
  ASSUME ll, ~crashed, NEW i \in Index, N!CreateIterator(i), crashed'
  PROVE  L!Crash /\ ListStep
<1>1. \A k : N!Traverse(N!UInt(k)) = LN!Traverse(LN!UInt(k))
  BY DEF N!Traverse, LN!Traverse, N!UInt, LN!UInt, N!Along, LN!Along
<1>2. \A k : N!Walked(N!UInt(k)) = LN!Walked(LN!UInt(k))
  BY DEF N!Walked, LN!Walked, N!UInt, LN!UInt, N!Along, LN!Along
<1>3. N!Crash
  BY DEF N!CreateIterator, N!Answer, N!list, N!Following
<1>4. L!Crash /\ LN!Crash
  BY <1>3 DEF N!Crash, N!list, L!Crash, L!list, LN!Crash, LN!list
<1>5. ~(N!Walked(N!UInt(i)) \subseteq nodes) \/ N!Traverse(N!UInt(i)) # NULL
  BY <1>3 DEF N!CreateIterator, N!Answer, N!Following, N!Crash
<1>6. LN!CreateIterator(i)
  BY <1>1, <1>2, <1>4, <1>5 DEF LN!CreateIterator, LN!Following
<1> QED
  BY <1>4, <1>6 DEF ListStep, LN!Next, LN!CallOnList

LEMMA DeleteIteratorDetail ==
  ASSUME Inv, ~crashed, NEW it \in Iter, L!DeleteIterator(it)
  PROVE  /\ LL!Inv' /\ ListStep /\ ~crashed' /\ UNCHANGED <<ll, nodes>>
         /\ it \in Using /\ Using' = Using \ {it}
<1>1. LL!DeleteIterator(it) /\ LN!DeleteIterator(it)
  BY SameCalls
<1>2. LL!Inv' /\ crashed' = crashed
  BY <1>1, SameAssumptions, LL!DeleteIteratorStep DEF Inv
<1>3. /\ iters[it] # NULL /\ iters' = [iters EXCEPT ![it] = NULL]
      /\ UNCHANGED <<ll, nodes>>
  BY <1>1 DEF LL!DeleteIterator, LL!list
<1>4. it \in Using /\ Using' = Using \ {it}
  BY <1>3, ListTypes DEF Using
<1> QED
  BY <1>1, <1>2, <1>3, <1>4 DEF ListStep, LN!Next

LEMMA IterateDetail ==
  ASSUME Inv, ~crashed, NEW it \in Iter, L!Iterate(it)
  PROVE  /\ LL!Inv' /\ ListStep /\ ~crashed' /\ UNCHANGED <<ll, nodes>>
         /\ Using' = Using
<1>1. LL!Iterate(it) /\ LN!Iterate(it)
  BY SameCalls
<1>2. LL!Inv' /\ crashed' = crashed
  BY <1>1, SameAssumptions, LL!IterateStep DEF Inv
<1>3. UNCHANGED <<ll, nodes>>
  BY <1>1 DEF LL!Iterate, LL!Answer, LL!list, LL!Following, LL!Crash
<1>4. Using' = Using
  <2>1. CASE iters' = iters
    BY <2>1 DEF Using
  <2>2. CASE /\ iters[it] # NULL /\ it \notin lost /\ next[iters[it].node] # NULL
             /\ iters' = [iters EXCEPT ![it] = LL!Advanced(iters[it])]
    <3>1. LL!Advanced(iters[it]) # NULL
      BY <2>2, SameAssumptions, ListTypes, LL!AdvancedType DEF Inv
    <3> QED
      BY <2>2, <3>1, ListTypes DEF Using
  <2> QED
    BY <1>1, <2>1, <2>2 DEF LL!Iterate, LL!Answer, LL!Following, LL!Crash
<1> QED
  BY <1>1, <1>2, <1>3, <1>4 DEF ListStep, LN!Next

----------------------------------------------------------------------------
(* Every step of the program keeps the invariant, and is one of the list   *)
(* and one of the slabs.                                                   *)
LEMMA NothingDue ==
  ASSUME NEW lb, NEW ns, NEW us
  PROVE  Apart(lb, ns, us, <<>>) <=> lb \notin ns \cup us /\ ns \cap us = {}
BY DEF Apart

LEMMA RegisterStep ==
  ASSUME Inv, ~crashed, Register
  PROVE  Sound
<1>1. UNCHANGED <<slab_vars, list_vars, flags, list_block, todo>> /\ Wired'
  BY DEF Register, queue_register_malloc, queue_register_free, SetMalloc, SetFree,
         linked_list_register_malloc, linked_list_register_free, Inv, Wired
<1>2. AP!Inv' /\ SlabStep /\ UNCHANGED <<live, refused, exited>>
  BY <1>1, SlabsStill
<1>3. LL!Inv' /\ ListStep /\ UNCHANGED <<ll, nodes, iters, crashed>> /\ Using' = Using
  BY <1>1, ListStill
<1>4. Owners' /\ EndsOnlyRefused'
  BY <1>1, <1>2, <1>3 DEF Inv, Owners, EndsOnlyRefused, flags
<1> QED
  BY <1>1, <1>2, <1>3, <1>4 DEF Sound, Inv

LEMMA FailNextStep ==
  ASSUME Inv, ~crashed, FailNext
  PROVE  Sound
<1>1. AP!Inv' /\ SlabStep /\ UNCHANGED <<live, refused, exited>>
  BY SlabsStill DEF FailNext
<1>2. LL!Inv' /\ ListStep /\ UNCHANGED <<ll, nodes, iters, crashed>> /\ Using' = Using
  BY ListStill DEF FailNext
<1>3. Owners' /\ EndsOnlyRefused' /\ Wired'
  BY <1>1, <1>2 DEF FailNext, Inv, Owners, EndsOnlyRefused, Wired, fptrs
<1> QED
  BY <1>1, <1>2, <1>3 DEF Sound, Inv

LEMMA CreateListStep ==
  ASSUME Inv, ~crashed, Registered, todo = <<>>, CreateList
  PROVE  Sound
<1>0. /\ ~ll /\ list_block = NULL /\ list_malloc # NULL /\ UNCHANGED todo
      /\ Wired /\ Wired' /\ EndsOnlyRefused /\ ListSize \in Sizes
  BY DEF CreateList, Inv, Owners, Wired, Registered, fptrs, Ends, Sizes
<1>1. CASE Serve(ListSize) /\ L!Create /\ list_block' \in Given
  <2>1. PICK p \in Slab \X AP!Nodes(ListSize) :
          /\ p \in AP!Ptr /\ p # NULL /\ p \notin {b.ptr : b \in live}
          /\ live' = live \cup {Block(p, ListSize)} /\ Given = {p}
    BY <1>0, <1>1, ServeEffect
  <2>2. /\ AP!Inv' /\ exited' = exited /\ SlabStep
        /\ ~instrumented_malloc_fail_next'
    BY <1>0, <1>1, ServeEffect
  <2>3. LL!Create /\ LN!Create
    BY <1>1, SameCalls
  <2>4. LL!Inv' /\ crashed' = crashed
    BY <2>3, SameAssumptions, LL!CreateStep DEF Inv
  <2>5. ll' /\ UNCHANGED <<nodes, iters>> /\ Using' = Using
    BY <2>3 DEF LL!Create, Using
  <2>6. list_block' = p
    BY <2>1, <1>1
  <2>7. live' = Blocks(list_block', nodes', Using', todo')
    <3>1. live = Blocks(NULL, nodes, Using, todo)
      BY <1>0 DEF Inv, Owners
    <3>2. Blocks(p, nodes, Using, todo)
            = Blocks(NULL, nodes, Using, todo) \cup {Block(p, ListSize)}
      BY <2>1, AddList
    <3> QED
      BY <3>1, <3>2, <1>0, <2>1, <2>5, <2>6
  <2>8. Apart(list_block', nodes', Using', todo')
    <3>1. nodes \cap Using = {}
      BY NothingDue DEF Inv, Owners
    <3>2. p \notin nodes /\ p \notin Using
      BY <2>1, FreshIsApart DEF Inv, Owners
    <3> QED
      BY <3>1, <3>2, <2>5, <2>6, <1>0, NothingDue
  <2>9. Owners'
    BY <1>0, <2>1, <2>2, <2>5, <2>6, <2>7, <2>8 DEF Inv, Owners
  <2>10. EndsOnlyRefused'
    BY <1>0, <2>2, <2>4 DEF EndsOnlyRefused
  <2> QED
    BY <1>0, <2>2, <2>3, <2>4, <2>9, <2>10 DEF Sound, Inv, ListStep, LN!Next
<1>2. CASE Refuse(ListSize) /\ N!Create /\ ~ll' /\ UNCHANGED list_block
  <2>1. /\ AP!Inv' /\ exited' = exited /\ SlabStep /\ live' = live
    BY <1>0, <1>2, RefuseEffect
  <2>2. N!Answer("create", 0, 0)
    BY <1>2 DEF N!Create
  <2>3. LL!Answer("create", 0, 0) /\ LN!Answer("create", 0, 0)
    BY <2>2 DEF N!Answer, N!Called, N!list, LL!Answer, LL!Called, LL!list,
                LN!Answer, LN!Called, LN!list
  <2>4. LN!Create
    BY <2>3, <1>0 DEF LN!Create
  <2>5. LL!Inv'
    <3>1. "create" \in LL!CallName /\ 0 \in Nat /\ 0 \in 0..SizeMax
      BY SameAssumptions DEF LL!NumberAssumption, LL!CallName
    <3> QED
      BY <3>1, <2>3, SameAssumptions, LL!AnswerStep DEF Inv
  <2>6. UNCHANGED <<ll, nodes, iters, crashed>> /\ Using' = Using
    BY <2>3 DEF LL!Answer, LL!list, Using
  <2>7. Owners'
    BY <1>0, <1>2, <2>1, <2>6 DEF Inv, Owners
  <2>8. EndsOnlyRefused'
    BY <1>0, <2>1, <2>6 DEF EndsOnlyRefused
  <2> QED
    BY <1>0, <2>1, <2>4, <2>5, <2>7, <2>8 DEF Sound, Inv, ListStep, LN!Next
<1> QED
  BY <1>0, <1>1, <1>2 DEF CreateList, Ends

(* A crash of the list where memory was refused.                           *)
LEMMA RefusedStep ==
  ASSUME Inv, ~crashed, ll, NEW sz \in Sizes, Refuse(sz), L!Crash, ListStep,
         UNCHANGED <<fptrs, list_block, todo>>
  PROVE  Sound
<1>1. /\ AP!Inv' /\ exited' = exited /\ SlabStep /\ live' = live
      /\ ~instrumented_malloc_last_alloc_successful'
      /\ instrumented_malloc_fail_next' => instrumented_malloc_fail_next
      /\ instrumented_malloc_fail_next \/ refused' # NULL
  BY RefuseEffect
<1>2. ~instrumented_malloc_fail_next
  BY DEF Inv, Owners
<1>3. LL!Inv' /\ UNCHANGED <<ll, nodes, iters>> /\ Using' = Using
  BY Crashes
<1>4. Owners' /\ Wired' /\ EndsOnlyRefused'
  BY <1>1, <1>2, <1>3 DEF Inv, Owners, Wired, fptrs, EndsOnlyRefused
<1> QED
  BY <1>1, <1>3, <1>4 DEF Sound, Inv

LEMMA InsertNodeStep ==
  ASSUME Inv, Fits, ~crashed, todo = <<>>, InsertNode
  PROVE  Sound
<1>0. /\ ll /\ UNCHANGED <<fptrs, list_block, todo>> /\ NodeSize \in Sizes
      /\ Wired' /\ EndsOnlyRefused
  BY DEF InsertNode, Sizes, Inv, Wired, fptrs
<1>1. CASE Serve(NodeSize) /\ Inserts /\ nodes' \ nodes = Given
  <2>1. PICK p \in Slab \X AP!Nodes(NodeSize) :
          /\ p \in AP!Ptr /\ p # NULL /\ p \notin {b.ptr : b \in live}
          /\ live' = live \cup {Block(p, NodeSize)} /\ Given = {p}
    BY <1>0, <1>1, ServeEffect
  <2>2. /\ AP!Inv' /\ exited' = exited /\ SlabStep
        /\ ~instrumented_malloc_fail_next'
    BY <1>0, <1>1, ServeEffect
  <2>3. LL!Inv' /\ ListStep /\ ~crashed' /\ UNCHANGED <<ll, iters>> /\ nodes' # nodes
    <3>1. nodes' # nodes
      BY <1>1, <2>1
    <3> QED
      BY <1>0, <1>1, <3>1, InsertServed
  <2>4. nodes' = nodes \cup {p} /\ Using' = Using
    <3>1. PICK n \in Node : nodes' = nodes \cup {n} /\ n \notin nodes
      BY <1>0, <1>1, <2>3, InsertServed
    <3>2. n = p
      BY <3>1, <2>1, <1>1
    <3> QED
      BY <3>1, <3>2, <2>3 DEF Using
  <2>5. live' = Blocks(list_block', nodes', Using', todo')
    <3>1. live = Blocks(list_block, nodes, Using, todo)
      BY DEF Inv, Owners
    <3>2. nodes' = nodes \cup {p} /\ UNCHANGED <<list_block, todo>> /\ Using' = Using
      BY <2>4, <1>0
    <3>3. \A S : S = nodes \cup {p} =>
            Blocks(list_block, S, Using, todo)
              = Blocks(list_block, nodes, Using, todo) \cup {Block(p, NodeSize)}
      BY Zenon DEF Blocks
    <3>4. Blocks(list_block, nodes', Using, todo) = live \cup {Block(p, NodeSize)}
      BY <3>1, <3>2, <3>3, Zenon
    <3>5. Blocks(list_block', nodes', Using', todo') = Blocks(list_block, nodes', Using, todo)
      BY <3>2
    <3> QED
      BY <3>4, <3>5, <2>1
  <2>6. Apart(list_block', nodes', Using', todo')
    <3>1. list_block \notin nodes \cup Using /\ nodes \cap Using = {}
      BY NothingDue DEF Inv, Owners
    <3>2. p # list_block /\ p \notin Using
      BY <2>1, FreshIsApart, ZenonT(30) DEF Inv, Owners
    <3> QED
      BY <3>1, <3>2, <2>4, <1>0, NothingDue
  <2>7. Owners'
    BY <1>0, <2>2, <2>3, <2>5, <2>6 DEF Inv, Owners
  <2>8. EndsOnlyRefused'
    BY <1>0, <2>2, <2>3 DEF EndsOnlyRefused
  <2> QED
    BY <1>0, <2>2, <2>3, <2>7, <2>8 DEF Sound, Inv
<1>2. CASE Refuse(NodeSize) /\ InsertsWithoutMemory /\ crashed'
  BY <1>0, <1>2, InsertRefused, RefusedStep
<1>3. ~Ends(Inserts)
  BY <1>0, InsertServed DEF Ends
<1> QED
  BY <1>1, <1>2, <1>3 DEF InsertNode

LEMMA RemoveNodeStep ==
  ASSUME Inv, ~crashed, Registered, todo = <<>>, RemoveNode
  PROVE  Sound
<1>a. \A i \in Index : ~Ends(L!Remove(i))
  BY RemoveDetail DEF Ends, RemoveNode
<1>1. PICK i \in Index, n \in nodes : /\ L!Remove(i) /\ nodes' = nodes \ {n}
                                     /\ GiveBack(n, NodeSize) /\ UNCHANGED <<fptrs, flags>>
  BY <1>a DEF RemoveNode, Freeing, Registered, Inv, Wired
<1>0. /\ ll /\ UNCHANGED <<fptrs, flags, list_block, todo>>
      /\ Wired' /\ EndsOnlyRefused /\ Apart(list_block, nodes, Using, todo)
      /\ live = Blocks(list_block, nodes, Using, todo)
  BY <1>1 DEF RemoveNode, Inv, Wired, fptrs, Owners
<1>2. /\ LL!Inv' /\ ListStep /\ ~crashed' /\ UNCHANGED <<ll, iters>>
      /\ nodes' = nodes \ {n} /\ Using' = Using
  BY <1>0, <1>1, RemoveDetail DEF Using
<1>3. /\ Block(n, NodeSize) \in live
      /\ Blocks(list_block, nodes', Using, todo) = live \ {Block(n, NodeSize)}
      /\ Apart(list_block, nodes', Using, todo)
  <2>1. /\ Block(n, NodeSize) \in Blocks(list_block, nodes, Using, todo)
        /\ Blocks(list_block, nodes', Using, todo)
             = Blocks(list_block, nodes, Using, todo) \ {Block(n, NodeSize)}
        /\ Apart(list_block, nodes', Using, todo)
    BY <1>0, <1>2, DropNode
  <2> QED
    BY <2>1, <1>0
<1>4. AP!Inv' /\ exited' = exited /\ SlabStep /\ live' = live \ {Block(n, NodeSize)}
  BY <1>1, <1>3, GiveBackEffect
<1>5. Owners' /\ EndsOnlyRefused'
  BY <1>0, <1>2, <1>3, <1>4 DEF Inv, Owners, EndsOnlyRefused, flags
<1> QED
  BY <1>0, <1>2, <1>4, <1>5 DEF Sound, Inv

LEMMA CreateIteratorStep ==
  ASSUME Inv, Fits, ~crashed, todo = <<>>, CreateIterator
  PROVE  Sound
<1>0. /\ ll /\ UNCHANGED <<fptrs, list_block, todo>> /\ IteratorSize \in Sizes
      /\ Wired' /\ EndsOnlyRefused
  BY DEF CreateIterator, Ends, Sizes, Inv, Wired, fptrs
<1>1. CASE /\ Serve(IteratorSize)
           /\ \E i \in Index : L!CreateIterator(i)
           /\ {it \in Iter : iters[it] = NULL /\ iters'[it] # NULL} = Given
  <2>1. PICK p \in Slab \X AP!Nodes(IteratorSize) :
          /\ p \in AP!Ptr /\ p # NULL /\ p \notin {b.ptr : b \in live}
          /\ live' = live \cup {Block(p, IteratorSize)} /\ Given = {p}
    BY <1>0, <1>1, ServeEffect
  <2>2. /\ AP!Inv' /\ exited' = exited /\ SlabStep
        /\ ~instrumented_malloc_fail_next'
    BY <1>0, <1>1, ServeEffect
  <2>3. /\ LL!Inv' /\ ListStep /\ ~crashed' /\ UNCHANGED <<ll, nodes>>
        /\ Using' = Using \cup {p}
    BY <1>0, <1>1, <2>1, CreateIteratorServed
  <2>4. live' = Blocks(list_block', nodes', Using', todo')
    <3>1. live = Blocks(list_block, nodes, Using, todo)
      BY DEF Inv, Owners
    <3>2. Blocks(list_block, nodes, Using', todo)
            = Blocks(list_block, nodes, Using, todo) \cup {Block(p, IteratorSize)}
      BY <2>3, AddIterator
    <3> QED
      BY <3>1, <3>2, <1>0, <2>1, <2>3
  <2>5. Apart(list_block', nodes', Using', todo')
    <3>1. list_block \notin nodes \cup Using /\ nodes \cap Using = {}
      BY NothingDue DEF Inv, Owners
    <3>2. p # list_block /\ p \notin nodes
      BY <2>1, FreshIsApart, ZenonT(30) DEF Inv, Owners
    <3> QED
      BY <3>1, <3>2, <2>3, <1>0, NothingDue
  <2>6. Owners'
    BY <1>0, <2>2, <2>3, <2>4, <2>5 DEF Inv, Owners
  <2>7. EndsOnlyRefused'
    BY <1>0, <2>2, <2>3 DEF EndsOnlyRefused
  <2> QED
    BY <1>0, <2>2, <2>3, <2>6, <2>7 DEF Sound, Inv
<1>2. CASE /\ Refuse(IteratorSize)
           /\ \E i \in Index : N!CreateIterator(i)
           /\ crashed'
  BY <1>0, <1>2, CreateIteratorRefused, RefusedStep
<1>3. ASSUME NEW i \in Index, Ends(L!CreateIterator(i)) PROVE FALSE
  <2>1. LL!CreateIterator(i) /\ crashed' /\ LL!Inv
    BY <1>3, SameCalls DEF Ends, Inv
  <2> QED
    BY <1>0, <2>1, SameAssumptions, LL!CreateIteratorStep DEF Fits
<1> QED
  BY <1>1, <1>2, <1>3 DEF CreateIterator

LEMMA DeleteIteratorStep ==
  ASSUME Inv, ~crashed, Registered, todo = <<>>, NEW it \in Iter, DeleteIterator(it)
  PROVE  Sound
<1>a. list_free # NULL
  BY DEF Registered, Inv, Wired
<1>0. /\ UNCHANGED <<fptrs, flags, list_block, todo>>
      /\ Wired' /\ EndsOnlyRefused /\ Apart(list_block, nodes, Using, todo)
      /\ live = Blocks(list_block, nodes, Using, todo)
  BY <1>a DEF DeleteIterator, Freeing, Inv, Wired, fptrs, Owners
<1>1. L!DeleteIterator(it) /\ GiveBack(it, IteratorSize)
  BY <1>a DEF DeleteIterator, Freeing
<1>2. /\ LL!Inv' /\ ListStep /\ ~crashed' /\ UNCHANGED <<ll, nodes>>
      /\ it \in Using /\ Using' = Using \ {it}
  BY <1>1, DeleteIteratorDetail
<1>3. /\ Block(it, IteratorSize) \in live
      /\ Blocks(list_block, nodes, Using', todo) = live \ {Block(it, IteratorSize)}
      /\ Apart(list_block, nodes, Using', todo)
  <2>1. /\ Block(it, IteratorSize) \in Blocks(list_block, nodes, Using, todo)
        /\ Blocks(list_block, nodes, Using', todo)
             = Blocks(list_block, nodes, Using, todo) \ {Block(it, IteratorSize)}
        /\ Apart(list_block, nodes, Using', todo)
    BY <1>0, <1>2, DropIterator
  <2> QED
    BY <2>1, <1>0
<1>4. AP!Inv' /\ exited' = exited /\ SlabStep /\ live' = live \ {Block(it, IteratorSize)}
  BY <1>1, <1>3, GiveBackEffect
<1>5. Owners' /\ EndsOnlyRefused'
  BY <1>0, <1>2, <1>3, <1>4 DEF Inv, Owners, EndsOnlyRefused, flags
<1> QED
  BY <1>0, <1>2, <1>4, <1>5 DEF Sound, Inv

LEMMA IterateStep ==
  ASSUME Inv, ~crashed, NEW it \in Iter, Iterate(it)
  PROVE  Sound
<1>1. UNCHANGED <<slab_vars, fptrs, flags, list_block, todo>> /\ L!Iterate(it)
  BY DEF Iterate
<1>2. AP!Inv' /\ SlabStep /\ UNCHANGED <<live, refused, exited>>
  BY <1>1, SlabsStill
<1>3. LL!Inv' /\ ListStep /\ ~crashed' /\ UNCHANGED <<ll, nodes>> /\ Using' = Using
  BY <1>1, IterateDetail
<1>4. Owners' /\ EndsOnlyRefused' /\ Wired'
  BY <1>1, <1>2, <1>3 DEF Inv, Owners, EndsOnlyRefused, flags, Wired, fptrs
<1> QED
  BY <1>2, <1>3, <1>4 DEF Sound, Inv

LEMMA DeleteListStep ==
  ASSUME Inv, ~crashed, todo = <<>>, DeleteList
  PROVE  Sound
<1>0. /\ L!Delete /\ LL!Delete /\ LN!Delete /\ LL!Inv' /\ crashed' = crashed
  <2>1. L!Delete /\ LL!Delete /\ LN!Delete
    BY SameCalls DEF DeleteList, Ends
  <2> QED
    BY <2>1, SameAssumptions, LL!DeleteStep DEF Inv
<1>1. /\ UNCHANGED <<slab_vars, fptrs, flags>> /\ L!Delete
      /\ todo' = Append(L!Chain, list_block) /\ list_block' = NULL
  BY <1>0 DEF DeleteList, Ends, Frees
<1>2. AP!Inv' /\ SlabStep /\ UNCHANGED <<live, refused, exited>>
  BY <1>1, SlabsStill
<1>3. LL!Delete /\ LN!Delete
  BY <1>0
<1>4. LL!Inv' /\ crashed' = crashed
  BY <1>0
<1>5. ll /\ ~ll' /\ iters' = iters /\ Using' = Using /\ nodes' = {}
  <2>1. ll /\ ~ll' /\ iters' = iters
    <3>1. ~LL!Crash
      <4>1. CASE LL!Crash
        BY <4>1, <1>4 DEF LL!Crash
      <4> QED
        BY <4>1
    <3> QED
      BY <1>3, <3>1 DEF LL!Delete, LL!Following
  <2>2. nodes' = {}
    BY <2>1, <1>4 DEF LL!Inv, LL!Listed
  <2> QED
    BY <2>1, <2>2 DEF Using
<1>6. L!Chain = LL!Chain
  BY DEF L!Chain, LL!Chain, L!Along, LL!Along
<1>7. /\ len \in Nat /\ LL!Chain \in [1..len -> nodes]
      /\ \A k, l \in 1..len : LL!Chain[k] = LL!Chain[l] => k = l
      /\ \A n \in nodes : \E k \in 1..len : LL!Chain[k] = n
  <2>1. LL!IsOrder(LL!Chain, len, head, tail, next, prev, nodes) /\ len \in Nat
    BY <1>5, SameAssumptions, LL!ListNow DEF Inv
  <2>2. \A k \in 1..len : LL!Chain[k] \in nodes
    BY <2>1 DEF LL!IsOrder
  <2>3. LL!Chain \in [1..len -> nodes]
    BY <2>2 DEF LL!Chain
  <2> QED
    BY <2>1, <2>2, <2>3 DEF LL!IsOrder
<1>8. /\ list_block # NULL /\ Apart(list_block, nodes, Using, <<>>)
      /\ live = Blocks(list_block, nodes, Using, <<>>)
      /\ NULL \notin Using /\ nodes \cup {list_block} \subseteq AP!Ptr
  BY <1>5, ListTypes, Addresses DEF Inv, Owners
<1>9. /\ todo' \in Seq(nodes \cup {list_block})
      /\ Blocks(NULL, {}, Using, todo') = live
      /\ Apart(NULL, {}, Using, todo')
  <2> DEFINE q == LL!Chain
  <2>1. /\ len \in Nat /\ q \in [1..len -> nodes]
        /\ \A k, l \in 1..len : q[k] = q[l] => k = l
        /\ \A n \in nodes : \E k \in 1..len : q[k] = n
    BY <1>7
  <2>2. todo' = Append(q, list_block)
    BY <1>1, <1>6
  <2> HIDE DEF q
  <2> QED
    <3>1. /\ Append(q, list_block) \in Seq(nodes \cup {list_block})
          /\ Blocks(NULL, {}, Using, Append(q, list_block))
               = Blocks(list_block, nodes, Using, <<>>)
          /\ Apart(NULL, {}, Using, Append(q, list_block)) \/ NULL \in Using
      BY <2>1, <1>8, Scrap
    <3> QED
      BY <3>1, <2>2, <1>8
<1>10. todo' \in Seq(AP!Ptr)
  BY <1>8, <1>9, SeqMonotonic
<1>11. Owners' /\ EndsOnlyRefused' /\ Wired'
  BY <1>1, <1>2, <1>4, <1>5, <1>9, <1>10 DEF Inv, Owners, EndsOnlyRefused, flags, Wired, fptrs
<1> QED
  BY <1>2, <1>3, <1>4, <1>5, <1>11 DEF Sound, Inv, ListStep, LN!Next, LN!CallOnList

LEMMA FreeNextStep ==
  ASSUME Inv, ~crashed, Registered, FreeNext
  PROVE  Sound
<1> DEFINE sz == IF Len(todo) = 1 THEN ListSize ELSE NodeSize
           b == Block(Head(todo), sz)
<1>0. /\ todo # <<>> /\ GiveBack(Head(todo), sz) /\ todo' = Tail(todo)
      /\ UNCHANGED <<list_vars, fptrs, flags, list_block>>
      /\ todo \in Seq(AP!Ptr) /\ Apart(list_block, nodes, Using, todo)
      /\ live = Blocks(list_block, nodes, Using, todo)
  BY DEF FreeNext, Freeing, Registered, Wired, Inv, Owners
<1>1. /\ b \in live
      /\ Blocks(list_block, nodes, Using, Tail(todo)) = live \ {b}
      /\ Apart(list_block, nodes, Using, Tail(todo)) /\ Tail(todo) \in Seq(AP!Ptr)
  BY <1>0, DropFirst
<1> HIDE DEF sz
<1>2. AP!Inv' /\ exited' = exited /\ SlabStep /\ live' = live \ {b}
  BY <1>0, <1>1, GiveBackEffect
<1>3. LL!Inv' /\ ListStep /\ UNCHANGED <<ll, nodes, iters, crashed>> /\ Using' = Using
  BY <1>0, ListStill
<1> HIDE DEF b
<1>4. Owners' /\ EndsOnlyRefused' /\ Wired'
  BY <1>0, <1>1, <1>2, <1>3 DEF Inv, Owners, EndsOnlyRefused, flags, Wired, fptrs
<1> QED
  BY <1>2, <1>3, <1>4 DEF Sound, Inv

LEMMA NextStep ==
  ASSUME Inv, Fits, Next
  PROVE  Sound
<1>0. ~crashed /\ exited = "no"
  BY DEF Next
<1>1. CASE Register
  BY <1>0, <1>1, RegisterStep
<1>2. CASE Registered /\ FreeNext
  BY <1>0, <1>2, FreeNextStep
<1>3. CASE Registered /\ todo = <<>> /\ (FailNext \/ CreateList \/ InsertNode \/ RemoveNode)
  BY <1>0, <1>3, FailNextStep, CreateListStep, InsertNodeStep, RemoveNodeStep
<1>4. CASE Registered /\ todo = <<>> /\ (CreateIterator \/ DeleteList)
  BY <1>0, <1>4, CreateIteratorStep, DeleteListStep
<1>5. CASE Registered /\ todo = <<>> /\ \E it \in Iter : DeleteIterator(it) \/ Iterate(it)
  BY <1>0, <1>5, DeleteIteratorStep, IterateStep
<1> QED
  BY <1>1, <1>2, <1>3, <1>4, <1>5 DEF Next

LEMMA StutterStep ==
  ASSUME Inv, UNCHANGED vars
  PROVE  Sound
<1>1. UNCHANGED <<slab_vars, list_vars, fptrs, flags, list_block, todo>>
  BY DEF vars
<1>2. AP!Inv' /\ SlabStep /\ UNCHANGED <<live, refused, exited>>
  BY <1>1, SlabsStill
<1>3. LL!Inv' /\ ListStep /\ UNCHANGED <<ll, nodes, iters, crashed>> /\ Using' = Using
  BY <1>1, ListStill
<1>4. Owners' /\ EndsOnlyRefused' /\ Wired'
  BY <1>1, <1>2, <1>3 DEF Inv, Owners, EndsOnlyRefused, flags, Wired, fptrs
<1> QED
  BY <1>2, <1>3, <1>4 DEF Sound, Inv

LEMMA InitInv ==
  ASSUME Init
  PROVE  Inv /\ AP!Init /\ LN!Init
<1>1. AP!Init /\ AP!Inv
  BY SameSlabs, SameAssumptions, AP!Initially DEF Init
<1>2. LL!Init /\ LN!Init
  BY DEF Init, L!Init, LL!Init, LN!Init
<1>3. LL!Inv
  BY <1>2, SameAssumptions, LL!InitInv
<1>4. Owners
  <2>1. Using = {} /\ nodes = {} /\ live = {} /\ ~ll
    BY <1>1, <1>2 DEF AP!Init, LL!Init, Using
  <2>2. /\ Blocks(NULL, {}, {}, <<>>) = {} /\ Apart(NULL, {}, {}, <<>>)
        /\ <<>> \in Seq(AP!Ptr)
    BY EmptySeq DEF Blocks, Apart
  <2> QED
    BY <2>1, <2>2 DEF Init, Owners
<1>5. Wired /\ EndsOnlyRefused
  BY <1>1, <1>2 DEF Init, AP!Init, LL!Init, Wired, EndsOnlyRefused
<1> QED
  BY <1>1, <1>2, <1>3, <1>4, <1>5 DEF Inv

----------------------------------------------------------------------------
(* The inductive invariant, of clients whose indices are indices of a list *)
(* that an unsigned int can count.                                         *)
THEOREM Inductive == ASSUME Fits PROVE Spec => []Inv
<1>1. Init => Inv
  BY InitInv
<1>2. Inv /\ [Next]_vars => Inv'
  BY NextStep, StutterStep DEF Sound
<1> QED
  BY <1>1, <1>2, PTL DEF Spec

(* Every block taken from the slabs is that of the list, of a node, of an  *)
(* iterator, or due to be freed: none is leaked or freed while in use.     *)
THEOREM AllAccounted == ASSUME Fits PROVE Spec => []BlocksAccounted
<1>1. Inv => BlocksAccounted
  BY DEF Inv, Owners, BlocksAccounted, Blocks, Using
<1> QED
  BY <1>1, Inductive, PTL

(* When the lists and the iterators are gone, so is every slab.            *)
THEOREM SlabsReturned == ASSUME Fits PROVE Spec => []AllReturned
<1>1. ASSUME Inv, ~ll, todo = <<>>, \A it \in Iter : iters[it] = NULL
      PROVE  /\ structs = {} /\ pools = {}
             /\ num_total_slabs = 0 /\ \A c \in Sizes : slabs[c] = NULL
  <2>1. list_block = NULL /\ nodes = {} /\ Using = {}
    BY <1>1, ListTypes DEF Inv, Owners, Using
  <2>2. live = {}
    BY <1>1, <2>1 DEF Inv, Owners, Blocks
  <2>3. pools = {}
    <3>1. \A s \in pools : AP!NodesOf(live, s) # {}
      BY <1>1, SameAssumptions, AP!HeldFacts DEF Inv
    <3> QED
      BY <2>2, <3>1 DEF AP!NodesOf
  <2>4. structs = {}
    BY <1>1, <2>3 DEF Inv, AP!Inv, AP!NothingIdle
  <2> QED
    BY <1>1, <2>3, <2>4, SameAssumptions, AP!NoPools DEF Inv
<1>2. Inv => AllReturned
  BY <1>1 DEF AllReturned
<1> QED
  BY <1>2, Inductive, PTL

(* Neither allocation nor free() goes through a pointer that was not       *)
(* registered, no call of the list follows a bad pointer and no block      *)
(* given back is foreign to the slabs: only a refused call ends a run.     *)
THEOREM EndsSafe == ASSUME Fits PROVE Spec => []EndsOnlyRefused
<1>1. Inv => EndsOnlyRefused
  BY DEF Inv
<1> QED
  BY <1>1, Inductive, PTL

(* An iterator shows the data of a node of the list, though the slabs hand *)
(* out again first what was freed last.                                    *)
THEOREM IteratorsSafe == ASSUME Fits PROVE Spec => []IteratorsOnNodes
<1>1. LL!Inv => IteratorsOnNodes
  BY DEF LL!Inv, LL!IteratorsOnNodes, LL!InUse, IteratorsOnNodes, L!IteratorsOnNodes, L!InUse
<1>2. Inv => IteratorsOnNodes
  BY <1>1 DEF Inv
<1> QED
  BY <1>2, Inductive, PTL

(* What the program does to its slabs is what the slab allocator's own     *)
(* specification allows, and what it does to its list what the list's own  *)
(* does with an allocator that may refuse anything: the theorems of both   *)
(* hold here.                                                              *)
THEOREM Composition == ASSUME Fits PROVE Spec => AP!Spec /\ LN!Spec
<1>1. Init => AP!Init /\ LN!Init
  BY InitInv
<1>2. Inv /\ [Next]_vars => [AP!Next]_(AP!vars) /\ [LN!Next]_(LN!vars)
  <2>1. Inv /\ [Next]_vars => SlabStep /\ ListStep
    BY NextStep, StutterStep DEF Sound
  <2>2. SlabStep => [AP!Next]_(AP!vars)
    BY DEF SlabStep, slab_vars, AP!vars, AP!lists, AP!nodes, AP!heap, AP!client
  <2>3. ListStep => [LN!Next]_(LN!vars)
    BY DEF ListStep, list_vars, LN!vars, LN!list
  <2> QED
    BY <2>1, <2>2, <2>3
<1> QED
  BY <1>1, <1>2, Inductive, PTL DEF Spec, AP!Spec, LN!Spec

(* The program's memory is a malloc() and free(), and its list a sequence. *)
THEOREM Refinement ==
  ASSUME Fits, Value # {}
  PROVE  Spec => AP!ImplementsMalloc /\ LN!ImplementsList
<1>1. AP!Spec => AP!ImplementsMalloc
  BY SameAssumptions, AP!Refinement
<1>2. LN!Spec => LN!ImplementsList
  BY SameAssumptions, LN!Refinement DEF Fits, LN!Fits
<1> QED
  BY <1>1, <1>2, Composition, PTL

(* A new iterator is at its index, and while nothing is inserted or        *)
(* removed before it its index moves with its node.                        *)
THEOREM IteratorsExact == ASSUME Fits PROVE Spec => IteratorsKeepStep
<1>1. LN!Spec => LN!IteratorsKeepStep
  BY SameAssumptions, LN!IteratorsExact DEF Fits, LN!Fits
<1>2. L!InUse = LN!InUse /\ L!vars = LN!vars /\ (UNCHANGED L!vars <=> UNCHANGED LN!vars)
  BY DEF L!InUse, LN!InUse, L!vars, LN!vars, L!list, LN!list
<1>3. ASSUME NEW it PROVE L!Drift(it) = LN!Drift(it) /\ L!Drift(it)' = LN!Drift(it)'
  BY DEF L!Drift, LN!Drift, L!SizeT, LN!SizeT, L!Chain, LN!Chain, L!Along, LN!Along
<1>4. [\A it \in Iter :
         /\ iters[it] = NULL /\ iters'[it] # NULL => LN!Drift(it)' = 0
         /\ (it \in LN!InUse /\ iters'[it] # iters[it] /\ iters'[it] # NULL)
              => LN!Drift(it)' = LN!Drift(it)]_(LN!vars)
      => [\A it \in Iter :
            /\ iters[it] = NULL /\ iters'[it] # NULL => L!Drift(it)' = 0
            /\ (it \in L!InUse /\ iters'[it] # iters[it] /\ iters'[it] # NULL)
                 => L!Drift(it)' = L!Drift(it)]_(L!vars)
  BY <1>2, <1>3
<1> QED
  BY <1>1, <1>4, Composition, PTL
     DEF IteratorsKeepStep, L!IteratorsKeepStep, LN!IteratorsKeepStep
=============================================================================
