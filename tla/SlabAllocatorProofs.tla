------------------------ MODULE SlabAllocatorProofs ------------------------
(***************************************************************************)
(* The invariants of SlabAllocator, proved for any number of slabs, nodes, *)
(* sizes and blocks.                                                       *)
(***************************************************************************)
EXTENDS SlabListLemmas

(* Free lists.  Taking the first node, giving a node back, a new slab. *)
LEMMA TakeNode ==
  ASSUME NEW l \in Seq(Nat), l # <<>>, NEW N, IsFiniteSet(N), NEW n, NEW c,
         Partition(l, N, n, c)
  PROVE  /\ Pop(l) \in Seq(Nat)
         /\ Head(l) \in Nodes(c) /\ Head(l) \notin N
         /\ Partition(Pop(l), N \cup {Head(l)}, n + 1, c)
<1>1. Len(l) \in Nat /\ Len(l) >= 1 /\ DOMAIN l = 1..Len(l) /\ Head(l) = l[1]
  BY EmptySeq, LenProperties
<1>2. /\ Tail(l) \in Seq(Nat) /\ Len(Tail(l)) = Len(l) - 1
      /\ \A i \in 1..Len(Tail(l)) : Tail(l)[i] = l[i + 1]
  BY HeadTailProperties
<1>3. DOMAIN Tail(l) = 1..Len(l) - 1
  BY <1>2, LenProperties
<1>4. \A i, j \in 1..Len(l) : l[i] = l[j] => i = j
  BY <1>1 DEF Partition, IsInjective
<1>5. IsInjective(Tail(l))
  <2>1. SUFFICES ASSUME NEW i \in 1..Len(l) - 1, NEW j \in 1..Len(l) - 1,
                        Tail(l)[i] = Tail(l)[j]
                 PROVE  i = j
    BY <1>3 DEF IsInjective
  <2>2. i + 1 \in 1..Len(l) /\ j + 1 \in 1..Len(l)
    BY <1>1
  <2>3. l[i + 1] = l[j + 1]
    BY <2>1, <1>2
  <2> QED
    BY <2>2, <2>3, <1>4, <1>1
<1>6. Range(Tail(l)) = Range(l) \ {Head(l)}
  <2>1. ASSUME NEW x \in Range(Tail(l)) PROVE x \in Range(l) /\ x # Head(l)
    <3>1. PICK i \in 1..Len(l) - 1 : x = Tail(l)[i]
      BY <2>1, <1>3 DEF Range
    <3>2. x = l[i + 1] /\ i + 1 \in 1..Len(l) /\ 1 \in 1..Len(l) /\ i + 1 # 1
      BY <3>1, <1>1, <1>2
    <3> QED
      BY <3>2, <1>1, <1>4 DEF Range
  <2>2. ASSUME NEW x \in Range(l), x # Head(l) PROVE x \in Range(Tail(l))
    <3>1. PICK i \in 1..Len(l) : x = l[i]
      BY <2>2, <1>1 DEF Range
    <3>2. i # 1 /\ i - 1 \in 1..Len(l) - 1 /\ i - 1 + 1 = i
      BY <3>1, <2>2, <1>1
    <3>3. x = Tail(l)[i - 1]
      BY <3>1, <3>2, <1>2
    <3> QED
      BY <3>2, <3>3, <1>3 DEF Range
  <2> QED
    BY <2>1, <2>2
<1>7. Head(l) \in Range(l)
  BY <1>1 DEF Range
<1>8. Head(l) \in Nodes(c) /\ Head(l) \notin N
  BY <1>7 DEF Partition
<1>9. Cardinality(N \cup {Head(l)}) = Cardinality(N) + 1
  BY <1>8, FS_AddElement
<1>10. /\ Range(Tail(l)) \cap (N \cup {Head(l)}) = {}
       /\ Range(Tail(l)) \cup (N \cup {Head(l)}) = Nodes(c)
  BY <1>6, <1>7 DEF Partition
<1> QED
  BY <1>2, <1>5, <1>8, <1>9, <1>10 DEF Partition, Pop

(* Freeing a node: it goes back to the free list and leaves the clients'   *)
(* hands, and the slab stays partitioned (lines 261-263).                  *)
LEMMA GiveNode ==
  ASSUME NEW l \in Seq(Nat), NEW N, IsFiniteSet(N), NEW n, NEW c \in Supported,
         Partition(l, N, n, c), NEW e \in N
  PROVE  Push(l, e) \in Seq(Nat) /\ Partition(Push(l, e), N \ {e}, n - 1, c)
<1>1. e \in Nat /\ e \notin Range(l)
  BY NumNodesType DEF Partition, Nodes
<1>2. Len(l) \in Nat /\ DOMAIN l = 1..Len(l)
  BY LenProperties
<1> DEFINE p == <<e>> \o l
<1>3. <<e>> \in Seq(Nat) /\ Len(<<e>>) = 1 /\ <<e>>[1] = e
  BY <1>1
<1>4. /\ p \in Seq(Nat) /\ Len(p) = Len(l) + 1
      /\ \A i \in 1..1 + Len(l) : p[i] = IF i <= 1 THEN <<e>>[i] ELSE l[i - 1]
  BY <1>3, <1>2, ConcatProperties
<1>5. DOMAIN p = 1..Len(l) + 1
  BY <1>4, LenProperties
<1>6. /\ p[1] = e
      /\ \A i \in 1..Len(l) : i + 1 \in 1..Len(l) + 1 /\ p[i + 1] = l[i]
      /\ \A i \in 1..Len(l) + 1 : i # 1 => i - 1 \in 1..Len(l) /\ p[i] = l[i - 1]
  BY <1>2, <1>3, <1>4
<1>7. 1 \in 1..Len(l) + 1
  BY <1>2
<1> HIDE DEF p
<1>8. \A i, j \in 1..Len(l) : l[i] = l[j] => i = j
  BY <1>2 DEF Partition, IsInjective
<1>9. \A i \in 1..Len(l) : l[i] # e
  BY <1>1, <1>2 DEF Range
<1>10. IsInjective(p)
  <2>1. SUFFICES ASSUME NEW i \in 1..Len(l) + 1, NEW j \in 1..Len(l) + 1, p[i] = p[j]
                 PROVE  i = j
    BY <1>5 DEF IsInjective
  <2>2. CASE i = 1 \/ j = 1
    BY <2>1, <2>2, <1>6, <1>9
  <2>3. CASE i # 1 /\ j # 1
    BY <2>1, <2>3, <1>2, <1>6, <1>8
  <2> QED
    BY <2>2, <2>3
<1>11. Range(p) = Range(l) \cup {e}
  <2>1. ASSUME NEW x \in Range(p) PROVE x \in Range(l) \cup {e}
    <3>1. PICK i \in 1..Len(l) + 1 : x = p[i]
      BY <1>5 DEF Range
    <3> QED
      BY <3>1, <1>2, <1>6 DEF Range
  <2>2. ASSUME NEW x \in Range(l) PROVE x \in Range(p)
    BY <1>2, <1>5, <1>6 DEF Range
  <2>3. e \in Range(p)
    BY <1>5, <1>6, <1>7 DEF Range
  <2> QED
    BY <2>1, <2>2, <2>3
<1>12. Cardinality(N \ {e}) = Cardinality(N) - 1
  BY FS_RemoveElement
<1>13. Range(p) \cap (N \ {e}) = {} /\ Range(p) \cup (N \ {e}) = Nodes(c)
  BY <1>11 DEF Partition
<1> QED
  BY <1>4, <1>10, <1>12, <1>13 DEF Partition, Push, p

(* A new pool whose first node is handed out at once is partitioned        *)
(* (create_slab(), then the recursive call of line 232).                   *)
LEMMA FreshNodes ==
  ASSUME NEW c \in Supported
  PROVE  /\ Pop(FreshFreeList(c)) \in Seq(Nat)
         /\ Head(FreshFreeList(c)) \in Nodes(c)
         /\ Partition(Pop(FreshFreeList(c)), {Head(FreshFreeList(c))}, 1, c)
<1> DEFINE l == FreshFreeList(c)
<1>1. NumNodes(c) \in Nat /\ NumNodes(c) >= 1
  BY NumNodesType
<1>2. l \in [1..NumNodes(c) -> Nat] /\ DOMAIN l = 1..NumNodes(c)
      /\ \A i \in 1..NumNodes(c) : l[i] = i
  BY <1>1 DEF FreshFreeList, Nodes
<1>3. l \in Seq(Nat)
  BY <1>1, <1>2, SeqDef
<1> HIDE DEF l
<1>4. IsInjective(l) /\ Range(l) = Nodes(c)
  BY <1>2 DEF IsInjective, Range, Nodes
<1>5. l # <<>>
  BY <1>1, <1>2, <1>3, EmptySeq, LenProperties
<1>6. IsFiniteSet({}) /\ Cardinality({}) = 0
  BY FS_EmptySet
<1>7. Partition(l, {}, 0, c)
  BY <1>4, <1>6 DEF Partition
<1>8. /\ Pop(l) \in Seq(Nat)
      /\ Head(l) \in Nodes(c) /\ Head(l) \notin {}
      /\ Partition(Pop(l), {} \cup {Head(l)}, 0 + 1, c)
  BY <1>3, <1>5, <1>6, <1>7, TakeNode
<1>9. {} \cup {Head(l)} = {Head(l)}
  OBVIOUS
<1> QED
  BY <1>8, <1>9 DEF l

(* Live blocks, seen slab by slab. *)
LEMMA AddBlock ==
  ASSUME NEW L, NEW a
  PROVE  /\ NodesOf(L \cup {a}, a.ptr[1]) = NodesOf(L, a.ptr[1]) \cup {a.ptr[2]}
         /\ \A t : t # a.ptr[1] => NodesOf(L \cup {a}, t) = NodesOf(L, t)
<1>1. ASSUME NEW t
      PROVE  NodesOf(L \cup {a}, t)
               = IF t = a.ptr[1] THEN NodesOf(L, t) \cup {a.ptr[2]} ELSE NodesOf(L, t)
  <2>1. {x \in L \cup {a} : x.ptr[1] = t}
          = IF t = a.ptr[1] THEN {x \in L : x.ptr[1] = t} \cup {a}
                            ELSE {x \in L : x.ptr[1] = t}
    OBVIOUS
  <2>2. CASE t = a.ptr[1]
    BY <2>1, <2>2 DEF NodesOf
  <2>3. CASE t # a.ptr[1]
    BY <2>1, <2>3 DEF NodesOf
  <2> QED
    BY <2>2, <2>3
<1> QED
  BY <1>1

(* What freeing block b does to the nodes the clients hold: one less in    *)
(* its slab, the same in the others.                                       *)
LEMMA DropBlock ==
  ASSUME NEW L \in SUBSET [ptr : Slab \X Nat, size : Supported], NEW b \in L,
         \A a \in L : a.ptr = b.ptr => a = b
  PROVE  /\ b.ptr[2] \in NodesOf(L, b.ptr[1])
         /\ NodesOf(L \ {b}, b.ptr[1]) = NodesOf(L, b.ptr[1]) \ {b.ptr[2]}
         /\ \A t : t # b.ptr[1] => NodesOf(L \ {b}, t) = NodesOf(L, t)
<1>1. b.ptr = <<b.ptr[1], b.ptr[2]>>
  OBVIOUS
<1>2. ASSUME NEW a \in L, a.ptr[1] = b.ptr[1], a.ptr[2] = b.ptr[2] PROVE a = b
  <2>1. a.ptr = <<a.ptr[1], a.ptr[2]>>
    OBVIOUS
  <2> QED
    BY <1>1, <1>2, <2>1
<1> QED
  BY <1>2 DEF NodesOf

----------------------------------------------------------------------------
(* The inductive invariant.  Neither part is inductive alone: a free only  *)
(* finds its slab because the lists are consistent, a slab only leaves its *)
(* list in good order because used counts its live blocks.                 *)
Inv ==
  /\ TypeOK
  /\ BlocksInPools
  /\ NodesPartition
  /\ ListsConsistent
  /\ NothingIdle
  /\ exited # "foreign"

(* The address of a node of a slab is an address of the model. *)
LEMMA PtrType ==
  /\ Ptr \subseteq Slab \X Nat
  /\ \A c \in Supported : \A s \in Slab, n \in Nodes(c) : <<s, n>> \in Ptr
  BY NumNodesType DEF Ptr, Nodes

(* A held pool has a finite number of live blocks and a size of its own. *)
LEMMA HeldFacts ==
  ASSUME Inv, NEW s \in pools
  PROVE  /\ s \in Slab /\ alloc_size[s] \in Supported
         /\ IsFiniteSet(NodesOf(live, s)) /\ NodesOf(live, s) # {}
<1>1. s \in Slab /\ alloc_size[s] \in Supported \cup {NULL}
  BY DEF Inv, TypeOK
<1>2. /\ used[s] > 0 /\ used[s] \in Nat
      /\ used[s] = Cardinality(NodesOf(live, s))
      /\ NodesOf(live, s) \subseteq Nodes(alloc_size[s])
  BY <1>1 DEF Inv, TypeOK, NothingIdle, NodesPartition, Partition
<1>3. NodesOf(live, s) # {}
  BY <1>2, FS_EmptySet
<1>4. PICK b \in live : b.ptr[1] = s
  BY <1>3 DEF NodesOf
<1>5. alloc_size[s] \in Supported
  BY <1>4 DEF Inv, TypeOK, BlocksInPools
<1>6. IsFiniteSet(Nodes(alloc_size[s]))
  BY <1>5, NumNodesType, FS_Interval DEF Nodes
<1> QED
  BY <1>1, <1>2, <1>3, <1>5, <1>6, FS_Subset

(* Without a pool there is nothing on any list. *)
LEMMA NoPools ==
  ASSUME Inv, pools = {}
  PROVE  /\ num_total_slabs = 0
         /\ \A c \in Supported : slabs[c] = NULL /\ num_slabs[c] = 0
<1>1. num_total_slabs = 0
  BY FS_EmptySet DEF Inv, ListsConsistent
<1>2. ASSUME NEW c \in Supported PROVE slabs[c] = NULL /\ num_slabs[c] = 0
  <2>1. PICK q \in SlabSeq : IsSlabList(c, q)
    BY DEF Inv, ListsConsistent
  <2>2. IsList(q, slabs[c], next, prev, Held(c)) /\ num_slabs[c] = Len(q)
    BY <2>1 DEF IsSlabList
  <2>3. Held(c) = {}
    BY DEF Held
  <2>4. Len(q) \in Nat /\ (\A i \in 1..Len(q) : q[i] \in Held(c))
        /\ (Len(q) = 0 => slabs[c] = NULL)
    BY <2>2, ListFacts
  <2>5. Len(q) = 0
    BY <2>3, <2>4
  <2> QED
    BY <2>2, <2>4, <2>5
<1> QED
  BY <1>1, <1>2

(* allocator_init() on the second and later first uses changes nothing. *)
LEMMA InitIsIdempotent ==
  ASSUME Inv
  PROVE  SlabsNow = slabs /\ NumSlabsNow = num_slabs /\ NumTotalNow = num_total_slabs
<1>1. CASE init
  BY <1>1 DEF SlabsNow, NumSlabsNow, NumTotalNow
<1>2. CASE ~init
  <2>1. pools = {}
    BY <1>2 DEF Inv, ListsConsistent
  <2>2. /\ num_total_slabs = 0
        /\ \A c \in Supported : slabs[c] = NULL /\ num_slabs[c] = 0
    BY <2>1, NoPools
  <2>3. slabs = [c \in Supported |-> slabs[c]] /\ num_slabs = [c \in Supported |-> num_slabs[c]]
    BY DEF Inv, TypeOK
  <2>4. slabs = [c \in Supported |-> NULL] /\ num_slabs = [c \in Supported |-> 0]
    BY <2>2, <2>3
  <2> QED
    BY <1>2, <2>2, <2>4 DEF SlabsNow, NumSlabsNow, NumTotalNow
<1> QED
  BY <1>1, <1>2 DEF Inv, TypeOK

(* Inv holds before the first call, when g_allocator is all zeros (line    *)
(* 52).                                                                    *)
THEOREM Initially == Init => Inv
<1> SUFFICES ASSUME Init PROVE Inv
  OBVIOUS
<1>1. TypeOK
  <2>1. <<>> \in Seq(Nat)
    BY EmptySeq
  <2>2. free_list \in [Slab -> Seq(Nat)]
    BY <2>1 DEF Init
  <2>3. num_total_slabs \in 0..MaxSlabs
    BY SlabAssumption DEF Init
  <2> QED
    BY <2>2, <2>3 DEF Init, TypeOK
<1>2. BlocksInPools /\ NodesPartition /\ NothingIdle /\ exited # "foreign"
  BY DEF Init, BlocksInPools, NodesPartition, NothingIdle
<1>3. ListsConsistent
  <2>1. ASSUME NEW c \in Supported PROVE \E q \in SlabSeq : IsSlabList(c, q)
    <3>1. <<>> \in SlabSeq /\ Len(<<>>) = 0 /\ DOMAIN <<>> = {}
      BY EmptySeq DEF SlabSeq
    <3>2. slabs[c] = NULL /\ num_slabs[c] = 0 /\ Held(c) = {}
      BY DEF Init, Held
    <3>3. IsInjective(<<>>) /\ Range(<<>>) = {}
      BY DEF IsInjective, Range
    <3>4. IsSlabList(c, <<>>)
      BY <3>1, <3>2, <3>3 DEF IsSlabList, IsList
    <3> QED
      BY <3>1, <3>4
  <2> QED
    BY <2>1, FS_EmptySet DEF Init, ListsConsistent
<1> QED
  BY <1>1, <1>2, <1>3 DEF Inv

----------------------------------------------------------------------------
(* The lists and the blocks do not see a step that leaves them alone. *)
LEMMA ListsUnchanged ==
  ASSUME Inv, UNCHANGED <<lists, pools, alloc_size>>, init' = TRUE \/ init' = init
  PROVE  ListsConsistent'
<1>1. ASSUME NEW c \in Supported PROVE \E q \in SlabSeq : IsSlabList(c, q)'
  <2>1. PICK q \in SlabSeq : IsSlabList(c, q)
    BY DEF Inv, ListsConsistent
  <2>2. IsSlabList(c, q)'
    BY <2>1 DEF IsSlabList, Held, lists
  <2> QED
    BY <2>2
<1>2. num_total_slabs' = Cardinality(pools') /\ (~init' => pools' = {})
  BY DEF Inv, ListsConsistent, lists
<1> QED
  BY <1>1, <1>2 DEF ListsConsistent

(* Answering with a node of a pool that nobody holds keeps the blocks      *)
(* apart and in their pools.                                               *)
LEMMA AnswerKeepsBlocks ==
  ASSUME Inv, NEW s \in Slab, NEW sz \in Supported, NEW e \in Nodes(sz),
         s \in pools => e \notin NodesOf(live, s),
         Answer(sz, <<s, e>>),
         pools' = pools \cup {s}, alloc_size' = [alloc_size EXCEPT ![s] = sz],
         s \in pools => alloc_size[s] = sz
  PROVE  /\ BlocksInPools' /\ live' \subseteq [ptr : Ptr, size : Supported]
         /\ NodesOf(live', s) = NodesOf(live, s) \cup {e}
         /\ \A t : t # s => NodesOf(live', t) = NodesOf(live, t)
<1> DEFINE a == [ptr |-> <<s, e>>, size |-> sz]
<1>1. live' = live \cup {a}
  BY DEF Answer
<1>2. a \in [ptr : Ptr, size : Supported] /\ a.ptr[1] = s /\ a.ptr[2] = e /\ a.size = sz
  BY PtrType
<1> HIDE DEF a
<1>3. /\ NodesOf(live', s) = NodesOf(live, s) \cup {e}
      /\ \A t : t # s => NodesOf(live', t) = NodesOf(live, t)
  BY <1>1, <1>2, AddBlock, ZenonT(30)
<1>4. live' \subseteq [ptr : Ptr, size : Supported]
  BY <1>1, <1>2 DEF Inv, TypeOK
<1>5. ASSUME NEW b \in live PROVE b.ptr # a.ptr
  <2>1. b.ptr[1] \in pools
    BY DEF Inv, BlocksInPools
  <2>2. b.ptr[1] = s => b.ptr[2] \in NodesOf(live, s)
    BY DEF NodesOf
  <2> QED
    BY <2>1, <2>2, <1>2
<1>6. \A x, y \in live' : x.ptr = y.ptr => x = y
  BY <1>1, <1>5 DEF Inv, BlocksInPools
<1>7. ASSUME NEW b \in live' PROVE b.ptr[1] \in pools' /\ alloc_size'[b.ptr[1]] = b.size
  <2>1. CASE b = a
    BY <2>1, <1>2 DEF Inv, TypeOK
  <2>2. CASE b \in live
    BY <2>2 DEF Inv, TypeOK, BlocksInPools
  <2> QED
    BY <2>1, <2>2, <1>1
<1> QED
  BY <1>3, <1>4, <1>6, <1>7 DEF BlocksInPools

(* A request served by a slab of the list keeps Inv (lines 215-227). *)
LEMMA TakeStep ==
  ASSUME Inv, NEW sz \in Supported, MallocTake(sz)
  PROVE  Inv'
<1>1. PICK s \in FirstIn(slabs[sz], NotFull) :
        /\ init' = TRUE
        /\ slabs' = slabs
        /\ num_slabs' = num_slabs
        /\ num_total_slabs' = num_total_slabs
        /\ free_list' = [free_list EXCEPT ![s] = Pop(free_list[s])]
        /\ used' = [used EXCEPT ![s] = used[s] + 1]
        /\ Answer(sz, <<s, Head(free_list[s])>>)
        /\ UNCHANGED <<next, prev, alloc_size, heap, exited>>
  BY InitIsIdempotent DEF MallocTake
<1>2. s \in NotFull /\ s \in pools /\ alloc_size[s] = sz
  <2>1. PICK q \in SlabSeq : IsList(q, slabs[sz], next, prev, Held(sz))
    BY DEF Inv, ListsConsistent, IsSlabList
  <2>2. s \in NotFull /\ s \in Held(sz)
    BY <2>1, FirstIsMember
  <2> QED
    BY <2>2 DEF Held
<1>3. /\ s \in Slab /\ free_list[s] \in Seq(Nat) /\ free_list[s] # <<>>
      /\ used[s] \in Nat /\ IsFiniteSet(NodesOf(live, s))
      /\ Partition(free_list[s], NodesOf(live, s), used[s], sz)
  BY <1>2, HeldFacts DEF Inv, TypeOK, NotFull, NodesPartition
<1> DEFINE e == Head(free_list[s])
<1>4. /\ Pop(free_list[s]) \in Seq(Nat)
      /\ e \in Nodes(sz) /\ e \notin NodesOf(live, s)
      /\ Partition(Pop(free_list[s]), NodesOf(live, s) \cup {e}, used[s] + 1, sz)
  BY <1>3, TakeNode
<1>5. pools' = pools /\ structs' = structs /\ alloc_size' = alloc_size /\ Answer(sz, <<s, e>>)
  BY <1>1 DEF heap
<1> HIDE DEF e
<1>6. /\ BlocksInPools' /\ live' \subseteq [ptr : Ptr, size : Supported]
      /\ NodesOf(live', s) = NodesOf(live, s) \cup {e}
      /\ \A t : t # s => NodesOf(live', t) = NodesOf(live, t)
  <2>1. pools' = pools \cup {s} /\ alloc_size' = [alloc_size EXCEPT ![s] = sz]
    BY <1>2, <1>3, <1>5 DEF Inv, TypeOK
  <2> QED
    BY <2>1, <1>2, <1>3, <1>4, <1>5, AnswerKeepsBlocks
<1>7. TypeOK'
  <2>1. free_list' \in [Slab -> Seq(Nat)] /\ used' \in [Slab -> Nat]
    BY <1>1, <1>3, <1>4 DEF Inv, TypeOK
  <2> QED
    BY <2>1, <1>1, <1>5, <1>6 DEF Inv, TypeOK, Answer
<1>8. NodesPartition'
  <2>1. ASSUME NEW t \in pools
        PROVE  Partition(free_list'[t], NodesOf(live', t), used'[t], alloc_size'[t])
    <3>1. CASE t = s
      BY <3>1, <1>1, <1>2, <1>3, <1>4, <1>5, <1>6 DEF Inv, TypeOK
    <3>2. CASE t # s
      BY <3>2, <1>1, <1>5, <1>6 DEF Inv, TypeOK, NodesPartition
    <3> QED
      BY <3>1, <3>2
  <2> QED
    BY <2>1, <1>5 DEF NodesPartition
<1>9. ListsConsistent'
  BY <1>1, <1>5, ListsUnchanged DEF lists
<1>10. NothingIdle'
  BY <1>1, <1>2, <1>3, <1>5 DEF Inv, TypeOK, NothingIdle
<1>11. exited' # "foreign"
  BY <1>1 DEF Inv
<1> QED
  BY <1>6, <1>7, <1>8, <1>9, <1>10, <1>11 DEF Inv

(* A request served by a new slab keeps Inv (lines 230-233). *)
LEMMA NewSlabStep ==
  ASSUME Inv, NEW sz \in Supported, MallocNewSlab(sz)
  PROVE  Inv'
<1>a. PICK s \in Slab \ (structs \cup pools) :
        /\ init' = TRUE
        /\ structs' = structs \cup {s}
        /\ pools' = pools \cup {s}
        /\ LinkFirst(sz, s)
        /\ alloc_size' = [alloc_size EXCEPT ![s] = sz]
        /\ free_list' = [free_list EXCEPT ![s] = Pop(FreshFreeList(sz))]
        /\ used' = [used EXCEPT ![s] = 1]
        /\ Answer(sz, <<s, Head(FreshFreeList(sz))>>)
        /\ UNCHANGED exited
  BY DEF MallocNewSlab
<1>1. /\ s \in Slab \ (structs \cup pools)
      /\ init' = TRUE
      /\ structs' = structs \cup {s}
      /\ pools' = pools \cup {s}
      /\ slabs' = [slabs EXCEPT ![sz] = s]
      /\ next' = [next EXCEPT ![s] = slabs[sz]]
      /\ prev' = [p \in Slab |->
                      IF p = slabs[sz] THEN s ELSE IF p = s THEN NULL ELSE prev[p]]
      /\ num_slabs' = [num_slabs EXCEPT ![sz] = num_slabs[sz] + 1]
      /\ num_total_slabs' = num_total_slabs + 1
      /\ alloc_size' = [alloc_size EXCEPT ![s] = sz]
      /\ free_list' = [free_list EXCEPT ![s] = Pop(FreshFreeList(sz))]
      /\ used' = [used EXCEPT ![s] = 1]
      /\ Answer(sz, <<s, Head(FreshFreeList(sz))>>)
      /\ UNCHANGED exited
  BY <1>a, InitIsIdempotent DEF LinkFirst
<1>2. num_total_slabs + 1 <= MaxSlabs
  BY InitIsIdempotent DEF MallocNewSlab, BelowLimit
<1> DEFINE e == Head(FreshFreeList(sz))
<1>3. /\ Pop(FreshFreeList(sz)) \in Seq(Nat) /\ e \in Nodes(sz)
      /\ Partition(Pop(FreshFreeList(sz)), {e}, 1, sz)
  BY FreshNodes
<1>4. Answer(sz, <<s, e>>)
  BY <1>1
<1> HIDE DEF e
<1>5. NodesOf(live, s) = {}
  BY <1>1 DEF Inv, BlocksInPools, NodesOf
<1>6. /\ BlocksInPools' /\ live' \subseteq [ptr : Ptr, size : Supported]
      /\ NodesOf(live', s) = {e}
      /\ \A t : t # s => NodesOf(live', t) = NodesOf(live, t)
  <2>1. /\ BlocksInPools' /\ live' \subseteq [ptr : Ptr, size : Supported]
        /\ NodesOf(live', s) = NodesOf(live, s) \cup {e}
        /\ \A t : t # s => NodesOf(live', t) = NodesOf(live, t)
    BY <1>1, <1>3, <1>4, <1>5, AnswerKeepsBlocks
  <2> QED
    BY <2>1, <1>5
<1>7. slabs[sz] \in Slab \cup {NULL} /\ num_slabs[sz] \in Nat /\ num_total_slabs \in Nat
  BY SlabAssumption DEF Inv, TypeOK
<1>8. TypeOK'
  <2>1. free_list' \in [Slab -> Seq(Nat)] /\ used' \in [Slab -> Nat]
    BY <1>1, <1>3 DEF Inv, TypeOK
  <2>2. /\ slabs' \in [Supported -> Slab \cup {NULL}]
        /\ next' \in [Slab -> Slab \cup {NULL}]
        /\ alloc_size' \in [Slab -> Supported \cup {NULL}]
    BY <1>1, <1>7 DEF Inv, TypeOK
  <2>3. prev' \in [Slab -> Slab \cup {NULL}]
    BY <1>1 DEF Inv, TypeOK
  <2>4. num_slabs' \in [Supported -> Nat] /\ num_total_slabs' \in 0..MaxSlabs
    BY <1>1, <1>2, <1>7, SlabAssumption DEF Inv, TypeOK
  <2> QED
    BY <2>1, <2>2, <2>3, <2>4, <1>1, <1>4, <1>6 DEF Inv, TypeOK, Answer
<1>9. NodesPartition'
  <2>1. ASSUME NEW t \in pools'
        PROVE  Partition(free_list'[t], NodesOf(live', t), used'[t], alloc_size'[t])
    <3>1. CASE t = s
      BY <3>1, <1>1, <1>3, <1>6 DEF Inv, TypeOK
    <3>2. CASE t # s
      BY <3>2, <1>1, <1>6 DEF Inv, TypeOK, NodesPartition
    <3> QED
      BY <3>1, <3>2
  <2> QED
    BY <2>1 DEF NodesPartition
<1>10. ASSUME NEW c \in Supported PROVE \E q \in SlabSeq : IsSlabList(c, q)'
  <2>1. PICK q \in SlabSeq : IsList(q, slabs[c], next, prev, Held(c)) /\ num_slabs[c] = Len(q)
    BY DEF Inv, ListsConsistent, IsSlabList
  <2>2. /\ s \notin Held(c) /\ Held(c) \subseteq Slab /\ NULL \notin Slab
        /\ \A t \in Slab : t # s => next'[t] = next[t]
        /\ \A t \in Slab : t # s /\ t # slabs[sz] => prev'[t] = prev[t]
    BY <1>1, SlabAssumption DEF Inv, TypeOK, Held
  <2>3. CASE c = sz
    <3>1. /\ next'[s] = slabs[sz] /\ prev'[s] = NULL
          /\ slabs[sz] \in Held(sz) => prev'[slabs[sz]] = s
      <4>1. slabs[sz] # s
        <5>1. Len(q) = 0 \/ slabs[sz] \in Held(sz)
          <6>1. Len(q) \in Nat /\ (Len(q) >= 1 => slabs[sz] = q[1])
                /\ \A i \in 1..Len(q) : q[i] \in Held(sz)
            BY <2>1, <2>3, ListFacts
          <6> QED
            BY <6>1
        <5>2. Len(q) = 0 => slabs[sz] = NULL
          BY <2>1, <2>3, ListFacts
        <5> QED
          BY <5>1, <5>2, <2>2, <2>3, <1>1
      <4> QED
        BY <4>1, <1>1, <2>2, <2>3 DEF Inv, TypeOK
    <3>2. PutFirst(s, slabs[sz], next, prev, Held(sz), next', prev')
      BY <3>1, <2>2, <2>3 DEF PutFirst
    <3>3. s \in Slab /\ s \notin Held(sz) /\ IsList(q, slabs[sz], next, prev, Held(sz))
      BY <2>1, <2>2, <2>3, <1>1
    <3>4. \E r \in SlabSeq : Len(r) = Len(q) + 1 /\ IsList(r, s, next', prev', Held(sz) \cup {s})
      BY <3>2, <3>3, ListPush
    <3>5. Held(sz)' = Held(sz) \cup {s} /\ slabs'[sz] = s /\ num_slabs'[sz] = Len(q) + 1
      BY <1>1, <2>1, <2>3 DEF Inv, TypeOK, Held
    <3> QED
      BY <3>4, <3>5, <2>3 DEF IsSlabList
  <2>4. CASE c # sz
    <3>1. Held(c)' = Held(c)
      BY <2>4, <1>1 DEF Inv, TypeOK, Held
    <3>2. slabs'[c] = slabs[c] /\ num_slabs'[c] = num_slabs[c]
      BY <2>4, <1>1 DEF Inv, TypeOK
    <3>3. slabs[sz] \notin Held(c)
      <4>1. PICK u \in SlabSeq : IsList(u, slabs[sz], next, prev, Held(sz))
        BY DEF Inv, ListsConsistent, IsSlabList
      <4>2. Len(u) \in Nat /\ (Len(u) = 0 => slabs[sz] = NULL) /\ (Len(u) >= 1 => slabs[sz] = u[1])
            /\ \A i \in 1..Len(u) : u[i] \in Held(sz)
        BY <4>1, ListFacts
      <4>3. slabs[sz] = NULL \/ slabs[sz] \in Held(sz)
        BY <4>2
      <4> QED
        BY <4>3, <2>2, <2>4 DEF Held
    <3>4. \A t \in Held(c) : next'[t] = next[t] /\ prev'[t] = prev[t]
      BY <2>2, <3>3
    <3>5. IsList(q, slabs[c], next', prev', Held(c))
      BY <2>1, <3>4, ListFrame
    <3> QED
      BY <2>1, <3>1, <3>2, <3>5 DEF IsSlabList
  <2> QED
    BY <2>3, <2>4
<1>11. ListsConsistent'
  <2>1. IsFiniteSet(pools)
    BY SlabAssumption, FS_Subset DEF Inv, TypeOK
  <2>2. num_total_slabs' = Cardinality(pools')
    BY <2>1, <1>1, FS_AddElement DEF Inv, ListsConsistent
  <2> QED
    BY <2>2, <1>1, <1>10 DEF ListsConsistent
<1>12. NothingIdle'
  BY <1>1 DEF Inv, TypeOK, NothingIdle
<1>13. exited' # "foreign"
  BY <1>1 DEF Inv
<1> QED
  BY <1>6, <1>8, <1>9, <1>11, <1>12, <1>13 DEF Inv

(* A refused request keeps Inv (lines 95-106, 140-143 and 235). *)
LEMMA FailStep ==
  ASSUME Inv, NEW sz \in Supported, MallocFail(sz)
  PROVE  Inv'
<1>1. /\ init' = TRUE /\ slabs' = slabs /\ num_slabs' = num_slabs
      /\ num_total_slabs' = num_total_slabs /\ refused' = sz
      /\ UNCHANGED <<next, prev, nodes, live, exited>>
  BY InitIsIdempotent DEF MallocFail
<1>2. pools' = pools /\ structs' = structs
  BY DEF MallocFail, StructMallocFails, PoolMallocFails, heap
<1>3. ListsConsistent'
  BY <1>1, <1>2, ListsUnchanged DEF lists, nodes
<1>4. TypeOK' /\ BlocksInPools' /\ NothingIdle' /\ exited' # "foreign"
  BY <1>1, <1>2 DEF Inv, TypeOK, BlocksInPools, NothingIdle, nodes
<1>5. NodesPartition'
  BY <1>1, <1>2 DEF Inv, NodesPartition, nodes
<1> QED
  BY <1>3, <1>4, <1>5 DEF Inv

(* A request of an unsupported size keeps Inv (lines 78-81). *)
LEMMA UnsupportedStep ==
  ASSUME Inv, NEW sz, MallocUnsupported(sz)
  PROVE  Inv'
<1>1. /\ init' = TRUE /\ slabs' = slabs /\ num_slabs' = num_slabs
      /\ num_total_slabs' = num_total_slabs /\ refused' = NULL
      /\ pools' = pools /\ structs' = structs /\ exited' = "unsupported"
      /\ UNCHANGED <<next, prev, nodes, live>>
  BY InitIsIdempotent DEF MallocUnsupported, heap
<1>2. ListsConsistent'
  BY <1>1, ListsUnchanged DEF lists, nodes
<1>3. TypeOK' /\ BlocksInPools' /\ NothingIdle' /\ exited' # "foreign"
  BY <1>1 DEF Inv, TypeOK, BlocksInPools, NothingIdle, nodes
<1>4. NodesPartition'
  BY <1>1 DEF Inv, NodesPartition, nodes
<1> QED
  BY <1>2, <1>3, <1>4 DEF Inv

(* A block given back, before the question whether its slab is idle. *)
LEMMA FreeKeepsBlocks ==
  ASSUME Inv, NEW b \in live, live' = live \ {b}
  PROVE  /\ b.ptr[1] \in pools /\ b.ptr[2] \in NodesOf(live, b.ptr[1])
         /\ live' \subseteq [ptr : Ptr, size : Supported]
         /\ \A x, y \in live' : x.ptr = y.ptr => x = y
         /\ NodesOf(live', b.ptr[1]) = NodesOf(live, b.ptr[1]) \ {b.ptr[2]}
         /\ \A t : t # b.ptr[1] => NodesOf(live', t) = NodesOf(live, t)
<1>1. live \in SUBSET [ptr : Slab \X Nat, size : Supported]
  BY PtrType DEF Inv, TypeOK
<1>2. \A a \in live : a.ptr = b.ptr => a = b
  BY DEF Inv, BlocksInPools
<1>3. /\ b.ptr[2] \in NodesOf(live, b.ptr[1])
      /\ NodesOf(live \ {b}, b.ptr[1]) = NodesOf(live, b.ptr[1]) \ {b.ptr[2]}
      /\ \A t : t # b.ptr[1] => NodesOf(live \ {b}, t) = NodesOf(live, t)
  BY <1>1, <1>2, DropBlock
<1>4. live' \subseteq [ptr : Ptr, size : Supported]
  BY DEF Inv, TypeOK
<1>5. \A x, y \in live' : x.ptr = y.ptr => x = y
  BY DEF Inv, BlocksInPools
<1>6. b.ptr[1] \in pools
  BY DEF Inv, BlocksInPools
<1> QED
  BY <1>3, <1>4, <1>5, <1>6

(* allocator_remove_slab() takes the slab out of its list, whatever its    *)
(* place there, and leaves the other lists alone.                          *)
LEMMA RemoveKeepsLists ==
  ASSUME Inv, NEW s \in pools, RemoveSlab(s), alloc_size' = alloc_size
  PROVE  ListsConsistent'
<1>1. PICK c \in Supported : c = alloc_size[s]
  BY HeldFacts
<1>2. PICK q \in SlabSeq : IsList(q, slabs[c], next, prev, Held(c)) /\ num_slabs[c] = Len(q)
  BY DEF Inv, ListsConsistent, IsSlabList
<1>3. /\ pools' = pools \ {s}
      /\ num_slabs' = [num_slabs EXCEPT ![c] = num_slabs[c] - 1]
      /\ num_total_slabs' = num_total_slabs - 1
      /\ init' = (num_total_slabs - 1 # 0)
  BY <1>1 DEF RemoveSlab
<1>4. /\ num_slabs[c] = 1 => UnlinkOnly(c)
      /\ num_slabs[c] # 1 /\ s = slabs[c] => UnlinkHead(c, s)
      /\ num_slabs[c] # 1 /\ s # slabs[c] => UnlinkBody(s)
  BY <1>1 DEF RemoveSlab
<1>5. Len(q) \in Nat /\ q \in [1..Len(q) -> Slab]
  BY <1>2, ListFacts
<1>6. s \in Held(c) /\ Held(c) \subseteq Slab /\ NULL \notin Slab
  BY <1>1, SlabAssumption DEF Held, Inv, TypeOK
<1>7. PICK k \in 1..Len(q) : q[k] = s
  BY <1>2, <1>6, ListFacts
<1>8. /\ slabs \in [Supported -> Slab \cup {NULL}]
      /\ next \in [Slab -> Slab \cup {NULL}]
      /\ prev \in [Slab -> Slab \cup {NULL}]
      /\ num_slabs \in [Supported -> Nat]
  BY DEF Inv, TypeOK
(* Where the neighbours are. *)
<1>9. /\ slabs[c] \in Held(c)
      /\ next[s] = NULL \/ next[s] \in Held(c)
      /\ s = slabs[c] => prev[s] = NULL
      /\ s # slabs[c] => prev[s] \in Held(c)
      /\ s # slabs[c] => num_slabs[c] # 1
      /\ s = slabs[c] /\ num_slabs[c] # 1 => next[s] \in Held(c)
      /\ num_slabs[c] = 1 => next[s] = NULL
  <2>1. /\ \A i \in 1..Len(q) : q[i] \in Held(c)
        /\ \A i, j \in 1..Len(q) : q[i] = q[j] => i = j
    BY <1>2, ListFacts
  <2>2. Len(q) >= 1 => slabs[c] = q[1] /\ next[q[Len(q)]] = NULL /\ prev[q[1]] = NULL
    BY <1>2, ListFacts
  <2>3. \A i \in 1..Len(q) - 1 : next[q[i]] = q[i + 1] /\ prev[q[i + 1]] = q[i]
    BY <1>2, ListFacts
  <2>4. Len(q) >= 1 /\ 1 \in 1..Len(q) /\ k \in Nat
    BY <1>5
  <2>5. s = slabs[c] <=> k = 1
    BY <2>1, <2>2, <2>4, <1>7
  <2>6. k = Len(q) => next[s] = NULL
    BY <2>2, <2>4, <1>7
  <2>7. k < Len(q) => next[s] \in Held(c)
    <3>1. k < Len(q) => k \in 1..Len(q) - 1 /\ k + 1 \in 1..Len(q)
      BY <1>5
    <3> QED
      BY <3>1, <2>1, <2>3, <1>7
  <2>8. k > 1 => prev[s] \in Held(c)
    <3>1. k > 1 => k - 1 \in 1..Len(q) - 1 /\ k - 1 \in 1..Len(q) /\ k - 1 + 1 = k
      BY <1>5
    <3>2. k > 1 => prev[q[k]] = q[k - 1]
      BY <3>1, <2>3
    <3> QED
      BY <3>1, <3>2, <2>1, <1>7
  <2>a. k = Len(q) \/ k < Len(q)
    <3> DEFINE n == Len(q)
    <3>1. n \in Nat /\ k \in Nat /\ k <= n
      BY <1>5
    <3> HIDE DEF n
    <3>2. k = n \/ k < n
      BY <3>1
    <3> QED
      BY <3>2 DEF n
  <2>b. k = 1 \/ k > 1
    BY <1>5
  <2>9. Len(q) = 1 => k = 1
    BY <1>5
  <2> QED
    BY <2>1, <2>2, <2>4, <2>5, <2>6, <2>7, <2>8, <2>9, <2>a, <2>b, <1>2, <1>7
<1>10. TakenOut(s, slabs[c], next, prev, Held(c), slabs'[c], next', prev')
  <2>1. CASE num_slabs[c] = 1
    BY <2>1, <1>1, <1>4, <1>6, <1>8, <1>9 DEF TakenOut, UnlinkOnly
  <2>2. CASE num_slabs[c] # 1 /\ s = slabs[c]
    BY <2>2, <1>1, <1>4, <1>6, <1>8, <1>9 DEF TakenOut, UnlinkHead
  <2>3. CASE num_slabs[c] # 1 /\ s # slabs[c]
    BY <2>3, <1>1, <1>4, <1>6, <1>8, <1>9 DEF TakenOut, UnlinkBody
  <2> QED
    BY <2>1, <2>2, <2>3
(* The pointers of the slabs of other sizes are not written. *)
<1>11. /\ \A d \in Supported : d # c => slabs'[d] = slabs[d]
       /\ \A t \in Slab : t \notin Held(c) => next'[t] = next[t] /\ prev'[t] = prev[t]
  <2>1. CASE num_slabs[c] = 1
    BY <2>1, <1>1, <1>4, <1>8 DEF UnlinkOnly
  <2>2. CASE num_slabs[c] # 1 /\ s = slabs[c]
    BY <2>2, <1>1, <1>4, <1>6, <1>8, <1>9 DEF UnlinkHead
  <2>3. CASE num_slabs[c] # 1 /\ s # slabs[c]
    BY <2>3, <1>1, <1>4, <1>6, <1>8, <1>9 DEF UnlinkBody
  <2> QED
    BY <2>1, <2>2, <2>3
<1>12. \E r \in SlabSeq : Len(r) = Len(q) - 1 /\ IsList(r, slabs'[c], next', prev', Held(c) \ {s})
  BY <1>2, <1>6, <1>10, ListRemove
<1>13. ASSUME NEW d \in Supported PROVE \E r \in SlabSeq : IsSlabList(d, r)'
  <2>1. CASE d = c
    <3>1. Held(c)' = Held(c) \ {s} /\ num_slabs'[c] = Len(q) - 1
      BY <1>1, <1>2, <1>3, <1>8 DEF Held
    <3> QED
      BY <2>1, <3>1, <1>12 DEF IsSlabList
  <2>2. CASE d # c
    <3>1. PICK u \in SlabSeq : IsList(u, slabs[d], next, prev, Held(d)) /\ num_slabs[d] = Len(u)
      BY DEF Inv, ListsConsistent, IsSlabList
    <3>2. Held(d)' = Held(d) /\ num_slabs'[d] = num_slabs[d] /\ slabs'[d] = slabs[d]
      BY <2>2, <1>1, <1>3, <1>8, <1>11 DEF Held
    <3>3. \A t \in Held(d) : next'[t] = next[t] /\ prev'[t] = prev[t]
      BY <2>2, <1>11 DEF Held, Inv, TypeOK
    <3>4. IsList(u, slabs[d], next', prev', Held(d))
      BY <3>1, <3>3, ListFrame
    <3> QED
      BY <3>1, <3>2, <3>4 DEF IsSlabList
  <2> QED
    BY <2>1, <2>2
<1>14. IsFiniteSet(pools) /\ num_total_slabs = Cardinality(pools)
  BY SlabAssumption, FS_Subset DEF Inv, TypeOK, ListsConsistent
<1>15. num_total_slabs' = Cardinality(pools')
  BY <1>3, <1>14, FS_RemoveElement
<1>16. ~init' => pools' = {}
  <2>1. IsFiniteSet(pools')
    BY <1>3, <1>14, FS_RemoveElement
  <2> QED
    BY <2>1, <1>3, <1>15, FS_EmptySet
<1> QED
  BY <1>13, <1>15, <1>16 DEF ListsConsistent

(* The search for the pool around an owned block finds it (lines 253-258). *)
LEMMA OwnedBlockFound ==
  ASSUME Inv, NEW s \in pools
  PROVE  s \in FirstIn(slabs[alloc_size[s]], {s})
<1>1. PICK c \in Supported : c = alloc_size[s]
  BY HeldFacts
<1>2. PICK q \in SlabSeq : IsList(q, slabs[c], next, prev, Held(c))
  BY DEF Inv, ListsConsistent, IsSlabList
<1>3. s \in Held(c)
  BY <1>1 DEF Held
<1> QED
  BY <1>1, <1>2, <1>3, MemberIsFound

(* Freeing an owned block keeps Inv, whether its slab stays or is given    *)
(* back (lines 239-281).                                                   *)
LEMMA FreeStep ==
  ASSUME Inv, NEW b \in live, Free(b)
  PROVE  Inv'
<1>1. live' = live \ {b} /\ refused' = NULL
  BY DEF Free
<1>2. PICK s, n : s = b.ptr[1] /\ n = b.ptr[2]
  OBVIOUS
<1>3. /\ s \in pools /\ n \in NodesOf(live, s)
      /\ live' \subseteq [ptr : Ptr, size : Supported]
      /\ \A x, y \in live' : x.ptr = y.ptr => x = y
      /\ NodesOf(live', s) = NodesOf(live, s) \ {n}
      /\ \A t : t # s => NodesOf(live', t) = NodesOf(live, t)
  BY <1>1, <1>2, FreeKeepsBlocks
<1>4. FreeToSlab(s, n)
  BY <1>2, <1>3, OwnedBlockFound DEF Free
<1>5. /\ free_list' = [free_list EXCEPT ![s] = Push(free_list[s], n)]
      /\ used' = [used EXCEPT ![s] = used[s] - 1]
      /\ alloc_size' = alloc_size /\ exited' = exited
  BY <1>4 DEF FreeToSlab
<1>6. /\ s \in Slab /\ alloc_size[s] \in Supported
      /\ IsFiniteSet(NodesOf(live, s))
      /\ free_list[s] \in Seq(Nat) /\ used[s] \in Nat /\ used[s] > 0
      /\ Partition(free_list[s], NodesOf(live, s), used[s], alloc_size[s])
  BY <1>3, HeldFacts DEF Inv, TypeOK, NothingIdle, NodesPartition
<1>7. /\ Push(free_list[s], n) \in Seq(Nat)
      /\ Partition(Push(free_list[s], n), NodesOf(live, s) \ {n}, used[s] - 1, alloc_size[s])
  BY <1>3, <1>6, GiveNode
<1>8. CASE WasLastBlock(s)
  <2>1. RemoveSlab(s)
    BY <1>4, <1>8 DEF FreeToSlab
  <2>2. ListsConsistent'
    BY <2>1, <1>3, <1>5, RemoveKeepsLists
  <2>3. NodesOf(live', s) = {}
    <3>1. Cardinality(NodesOf(live', s)) = 0 /\ IsFiniteSet(NodesOf(live', s))
      BY <1>3, <1>6, <1>7, <1>8, FS_RemoveElement DEF Partition, WasLastBlock
    <3> QED
      BY <3>1, FS_EmptySet
  <2>4. pools' = pools \ {s} /\ structs' = structs \ {s}
    BY <2>1 DEF RemoveSlab
  <2>5. BlocksInPools'
    <3>1. ASSUME NEW a \in live' PROVE a.ptr[1] # s
      BY <3>1, <2>3 DEF NodesOf
    <3> QED
      BY <3>1, <2>4, <1>1, <1>3, <1>5 DEF Inv, BlocksInPools
  <2>6. NodesPartition'
    <3>1. ASSUME NEW t \in pools'
          PROVE  Partition(free_list'[t], NodesOf(live', t), used'[t], alloc_size'[t])
      BY <3>1, <2>4, <1>3, <1>5 DEF Inv, TypeOK, NodesPartition
    <3> QED
      BY <3>1 DEF NodesPartition
  <2>7. NothingIdle'
    BY <2>4, <1>5 DEF Inv, TypeOK, NothingIdle
  <2>8. TypeOK'
    <3>1. free_list' \in [Slab -> Seq(Nat)] /\ used' \in [Slab -> Nat]
      BY <1>5, <1>6, <1>7 DEF Inv, TypeOK
    <3>2. PICK c \in Supported : c = alloc_size[s]
      BY <1>6
    <3>3. /\ num_slabs' = [num_slabs EXCEPT ![c] = num_slabs[c] - 1]
          /\ num_total_slabs' = num_total_slabs - 1
          /\ init' = (num_total_slabs - 1 # 0)
          /\ UnlinkOnly(c) \/ UnlinkHead(c, s) \/ UnlinkBody(s)
      BY <2>1, <3>2 DEF RemoveSlab
    <3>4. next[s] \in Slab \cup {NULL} /\ prev[s] \in Slab \cup {NULL}
      BY <1>6 DEF Inv, TypeOK
    <3>5. /\ slabs' \in [Supported -> Slab \cup {NULL}]
          /\ next' \in [Slab -> Slab \cup {NULL}]
          /\ prev' \in [Slab -> Slab \cup {NULL}]
      <4>1. CASE UnlinkOnly(c)
        BY <4>1 DEF UnlinkOnly, Inv, TypeOK
      <4>2. CASE UnlinkHead(c, s)
        BY <4>2, <3>4 DEF UnlinkHead, Inv, TypeOK
      <4>3. CASE UnlinkBody(s)
        BY <4>3, <3>4 DEF UnlinkBody, Inv, TypeOK
      <4> QED
        BY <4>1, <4>2, <4>3, <3>3
    <3>6. num_total_slabs' \in 0..MaxSlabs
      <4>1. IsFiniteSet(pools) /\ num_total_slabs = Cardinality(pools)
            /\ num_total_slabs \in 0..MaxSlabs
        BY SlabAssumption, FS_Subset DEF Inv, TypeOK, ListsConsistent
      <4>2. num_total_slabs # 0
        BY <4>1, <1>3, FS_EmptySet
      <4> QED
        BY <4>1, <4>2, <3>3, SlabAssumption
    <3>7. num_slabs' \in [Supported -> Nat]
      <4>1. PICK q \in SlabSeq : IsList(q, slabs[c], next, prev, Held(c)) /\ num_slabs[c] = Len(q)
        BY DEF Inv, ListsConsistent, IsSlabList
      <4>2. s \in Held(c)
        BY <1>3, <3>2 DEF Held
      <4>3. Len(q) \in Nat /\ \E i \in 1..Len(q) : q[i] = s
        BY <4>1, <4>2, ListFacts
      <4>4. num_slabs[c] \in Nat /\ num_slabs[c] >= 1
        BY <4>1, <4>3
      <4> QED
        BY <4>4, <3>3 DEF Inv, TypeOK
    <3> QED
      BY <3>1, <3>3, <3>5, <3>6, <3>7, <2>4, <1>1, <1>3, <1>5 DEF Inv, TypeOK
  <2> QED
    BY <2>2, <2>5, <2>6, <2>7, <2>8, <1>5 DEF Inv
<1>9. CASE ~WasLastBlock(s)
  <2>1. UNCHANGED <<init, lists, heap>>
    BY <1>4, <1>9 DEF FreeToSlab
  <2>2. pools' = pools /\ structs' = structs
    BY <2>1 DEF heap
  <2>3. ListsConsistent'
    BY <2>1, <2>2, <1>5, ListsUnchanged
  <2>4. BlocksInPools'
    BY <2>2, <1>1, <1>3, <1>5 DEF Inv, BlocksInPools
  <2>5. NodesPartition'
    <3>1. ASSUME NEW t \in pools
          PROVE  Partition(free_list'[t], NodesOf(live', t), used'[t], alloc_size'[t])
      <4>1. CASE t = s
        BY <4>1, <1>3, <1>5, <1>6, <1>7 DEF Inv, TypeOK
      <4>2. CASE t # s
        BY <4>2, <1>3, <1>5 DEF Inv, TypeOK, NodesPartition
      <4> QED
        BY <4>1, <4>2
    <3> QED
      BY <3>1, <2>2 DEF NodesPartition
  <2>6. NothingIdle'
    BY <2>2, <1>5, <1>6, <1>9 DEF Inv, TypeOK, NothingIdle, WasLastBlock
  <2>7. TypeOK'
    <3>1. free_list' \in [Slab -> Seq(Nat)] /\ used' \in [Slab -> Nat]
      BY <1>5, <1>6, <1>7 DEF Inv, TypeOK
    <3> QED
      BY <3>1, <2>1, <2>2, <1>1, <1>3, <1>5 DEF Inv, TypeOK, lists
  <2> QED
    BY <2>3, <2>4, <2>5, <2>6, <2>7, <1>5 DEF Inv
<1> QED
  BY <1>8, <1>9

(* Inv does not depend on anything but the variables. *)
LEMMA StutterStep ==
  ASSUME Inv, UNCHANGED vars
  PROVE  Inv'
<1>1. /\ UNCHANGED <<init, lists, nodes, heap, live, refused, exited>>
      /\ UNCHANGED <<pools, structs, alloc_size, free_list, used>>
  BY DEF vars, nodes, heap, client
<1>2. ListsConsistent'
  BY <1>1, ListsUnchanged
<1>3. TypeOK' /\ BlocksInPools' /\ NothingIdle' /\ exited' # "foreign"
  BY <1>1 DEF Inv, TypeOK, BlocksInPools, NothingIdle, lists
<1>4. NodesPartition'
  BY <1>1 DEF Inv, NodesPartition
<1> QED
  BY <1>2, <1>3, <1>4 DEF Inv

(* Inv is kept by every call of slab_allocator_malloc() and                *)
(* slab_allocator_free().                                                  *)
THEOREM Inductive == Inv /\ [Next]_vars => Inv'
<1> SUFFICES ASSUME Inv, [Next]_vars PROVE Inv'
  OBVIOUS
<1>1. ASSUME NEW sz \in Supported, MallocTake(sz) PROVE Inv'
  BY <1>1, TakeStep
<1>2. ASSUME NEW sz \in Supported, MallocNewSlab(sz) PROVE Inv'
  BY <1>2, NewSlabStep
<1>3. ASSUME NEW sz \in Supported, MallocFail(sz) PROVE Inv'
  BY <1>3, FailStep
<1>4. ASSUME NEW sz \in Size \ Supported, MallocUnsupported(sz) PROVE Inv'
  BY <1>4, UnsupportedStep
<1>5. ASSUME NEW b \in live, Free(b) PROVE Inv'
  BY <1>5, FreeStep
<1>6. CASE UNCHANGED vars
  BY <1>6, StutterStep
<1> QED
  BY <1>1, <1>2, <1>3, <1>4, <1>5, <1>6 DEF Next

(* The invariant holds in every reachable state. *)
THEOREM Invariance == Spec => []Inv
  BY Initially, Inductive, PTL DEF Spec

----------------------------------------------------------------------------
(* What follows from it. *)

(* The allocator's variables keep their types and the number of slabs its *)
(* limit. *)
THEOREM TypeCorrect == Spec => []TypeOK
<1>1. Inv => TypeOK
  BY DEF Inv
<1> QED
  BY <1>1, Invariance, PTL

(* Memory safety towards the clients: live blocks never overlap, lie in    *)
(* held pools, and no node of a pool is lost or handed out twice.          *)
THEOREM BlocksSafe == Spec => []BlocksPartition
<1>1. Inv => BlocksPartition
  BY DEF Inv, BlocksPartition
<1> QED
  BY <1>1, Invariance, PTL

(* The doubly linked lists stay well formed through every insertion and    *)
(* removal, and the counters agree with them.                              *)
THEOREM ListsSafe == Spec => []ListsConsistent
<1>1. Inv => ListsConsistent
  BY DEF Inv
<1> QED
  BY <1>1, Invariance, PTL

(* No slab outlives its blocks, no struct slab its pool. *)
THEOREM NoLeak == Spec => []NothingIdle
<1>1. Inv => NothingIdle
  BY DEF Inv
<1> QED
  BY <1>1, Invariance, PTL

(* free() of an owned block finds its slab. *)
THEOREM FreeSucceeds == Spec => []OwnedBlocksFreeable
<1>1. Inv => OwnedBlocksFreeable
  <2>1. SUFFICES ASSUME Inv PROVE OwnedBlocksFreeable
    OBVIOUS
  <2>2. ASSUME NEW b \in live PROVE b.ptr[1] \in FirstIn(slabs[alloc_size[b.ptr[1]]], {b.ptr[1]})
    <3>1. b.ptr[1] \in pools
      BY <2>1 DEF Inv, BlocksInPools
    <3> QED
      BY <3>1, <2>1, OwnedBlockFound
  <2> QED
    BY <2>1, <2>2 DEF Inv, OwnedBlocksFreeable
<1> QED
  BY <1>1, Invariance, PTL

(* A supported request is refused only if every slab of the size is full. *)
THEOREM RefusalJustified == Spec => NoSpuriousFailure
<1> DEFINE Justified ==
      refused' # NULL => \A s \in pools : alloc_size[s] = refused' => free_list[s] = <<>>
<1>1. Inv /\ [Next]_vars => [Justified]_vars
  <2>1. SUFFICES ASSUME Inv, Next PROVE Justified
    OBVIOUS
  <2>2. ASSUME NEW sz \in Supported, MallocTake(sz) PROVE Justified
    BY <2>2 DEF MallocTake, Answer
  <2>3. ASSUME NEW sz \in Supported, MallocNewSlab(sz) PROVE Justified
    BY <2>3 DEF MallocNewSlab, Answer
  <2>4. ASSUME NEW sz \in Supported, MallocFail(sz) PROVE Justified
    <3>1. refused' = sz /\ NoneIn(slabs[sz], NotFull)
      BY <2>4, <2>1, InitIsIdempotent DEF MallocFail
    <3>2. PICK q \in SlabSeq : IsList(q, slabs[sz], next, prev, Held(sz))
      BY <2>1 DEF Inv, ListsConsistent, IsSlabList
    <3>3. \A s \in Held(sz) : s \notin NotFull
      BY <3>1, <3>2, NoneMeansNone
    <3> QED
      BY <3>1, <3>3, <2>1 DEF Held, NotFull, Inv, TypeOK
  <2>5. ASSUME NEW sz \in Size \ Supported, MallocUnsupported(sz) PROVE Justified
    BY <2>5 DEF MallocUnsupported
  <2>6. ASSUME NEW b \in live, Free(b) PROVE Justified
    BY <2>6 DEF Free
  <2> QED
    BY <2>1, <2>2, <2>3, <2>4, <2>5, <2>6 DEF Next
<1>2. Spec => [][Justified]_vars
  BY <1>1, Invariance, PTL DEF Spec
<1> QED
  BY <1>2, PTL DEF NoSpuriousFailure

(* A block that is handed out was in no client's hands. *)
Fresh(sz) ==
  \E p \in Slab \X Nodes(sz) :
    p \in Ptr /\ p \notin {b.ptr : b \in live} /\ Answer(sz, p) /\ exited' = exited

LEMMA TakeIsFresh ==
  ASSUME Inv, NEW sz \in Supported, MallocTake(sz)
  PROVE  Fresh(sz)
<1>1. PICK s \in FirstIn(slabs[sz], NotFull) :
        Answer(sz, <<s, Head(free_list[s])>>) /\ UNCHANGED exited
  BY InitIsIdempotent DEF MallocTake
<1>2. s \in NotFull /\ s \in pools /\ alloc_size[s] = sz
  <2>1. PICK q \in SlabSeq : IsList(q, slabs[sz], next, prev, Held(sz))
    BY DEF Inv, ListsConsistent, IsSlabList
  <2>2. s \in NotFull /\ s \in Held(sz)
    BY <2>1, FirstIsMember
  <2> QED
    BY <2>2 DEF Held
<1>3. /\ s \in Slab /\ free_list[s] \in Seq(Nat) /\ free_list[s] # <<>>
      /\ IsFiniteSet(NodesOf(live, s))
      /\ Partition(free_list[s], NodesOf(live, s), used[s], sz)
  BY <1>2, HeldFacts DEF Inv, TypeOK, NotFull, NodesPartition
<1>4. Head(free_list[s]) \in Nodes(sz) /\ Head(free_list[s]) \notin NodesOf(live, s)
  BY <1>3, TakeNode
<1>5. PICK p : p = <<s, Head(free_list[s])>>
  OBVIOUS
<1>6. p \in Slab \X Nodes(sz) /\ p \in Ptr
  BY <1>3, <1>4, <1>5, PtrType
<1>7. ASSUME NEW b \in live, b.ptr = p PROVE FALSE
  <2>1. b.ptr[1] = s /\ b.ptr[2] = Head(free_list[s])
    BY <1>7, <1>5
  <2> QED
    BY <2>1, <1>4 DEF NodesOf
<1> QED
  BY <1>1, <1>5, <1>6, <1>7 DEF Fresh

LEMMA NewSlabIsFresh ==
  ASSUME Inv, NEW sz \in Supported, MallocNewSlab(sz)
  PROVE  Fresh(sz)
<1>1. PICK s \in Slab \ (structs \cup pools) :
        Answer(sz, <<s, Head(FreshFreeList(sz))>>) /\ UNCHANGED exited
  BY DEF MallocNewSlab
<1>2. Head(FreshFreeList(sz)) \in Nodes(sz)
  BY FreshNodes
<1>3. PICK p : p = <<s, Head(FreshFreeList(sz))>>
  OBVIOUS
<1>4. p \in Slab \X Nodes(sz) /\ p \in Ptr
  BY <1>1, <1>2, <1>3, PtrType
<1>5. p[1] \notin pools
  BY <1>1, <1>3
<1> QED
  BY <1>1, <1>3, <1>4, <1>5 DEF Inv, BlocksInPools, Fresh

(* A block of one's own is freed, and nothing else happens to the others.  *)
LEMMA FreeIsDone ==
  ASSUME Inv, NEW b \in live, Free(b)
  PROVE  live' = live \ {b} /\ refused' = NULL /\ exited' = exited
<1>1. b.ptr[1] \in pools
  BY DEF Inv, BlocksInPools
<1>2. FreeToSlab(b.ptr[1], b.ptr[2])
  BY <1>1, OwnedBlockFound DEF Free
<1> QED
  BY <1>2 DEF Free, FreeToSlab

(* Every step of the allocator is a step of MallocSpec or none at all. *)
THEOREM Refinement == Spec => ImplementsMalloc
<1>1. Init => Promise!Init
  BY DEF Init, Promise!Init
<1>2. Inv /\ [Next]_vars => [Promise!Next]_(Promise!vars)
  <2>1. SUFFICES ASSUME Inv, [Next]_vars PROVE [Promise!Next]_(Promise!vars)
    OBVIOUS
  <2>2. ASSUME exited = "no", NEW sz \in Supported, Fresh(sz) PROVE Promise!Next
    <3>1. PICK p \in Ptr : Promise!Malloc(sz, p)
      BY <2>2 DEF Fresh, Answer, Promise!Malloc
    <3> QED
      BY <2>2, <3>1 DEF Promise!Next
  <2>3. ASSUME NEW sz \in Supported, MallocTake(sz) \/ MallocNewSlab(sz) PROVE Fresh(sz)
    BY <2>1, <2>3, TakeIsFresh, NewSlabIsFresh
  <2>4. ASSUME exited = "no", NEW sz \in Supported, MallocFail(sz) PROVE Promise!Next
    <3>1. Promise!MallocFails(sz)
      BY <2>4 DEF MallocFail, Promise!MallocFails
    <3> QED
      BY <2>4, <3>1 DEF Promise!Next
  <2>5. ASSUME exited = "no", NEW sz \in Size \ Supported, MallocUnsupported(sz)
        PROVE  Promise!Next
    <3>1. Promise!Exit(sz)
      BY <2>5 DEF MallocUnsupported, Promise!Exit
    <3> QED
      BY <2>5, <3>1 DEF Promise!Next
  <2>6. ASSUME exited = "no", NEW b \in live, Free(b) PROVE Promise!Next
    <3>1. Promise!Free(b)
      BY <2>1, <2>6, FreeIsDone DEF Promise!Free
    <3> QED
      BY <2>6, <3>1 DEF Promise!Next
  <2>7. UNCHANGED vars => UNCHANGED (Promise!vars)
    BY DEF vars, client, Promise!vars
  <2> QED
    BY <2>1, <2>2, <2>3, <2>4, <2>5, <2>6, <2>7 DEF Next
<1> QED
  BY <1>1, <1>2, Invariance, PTL DEF Spec, ImplementsMalloc, Promise!Spec
=============================================================================
