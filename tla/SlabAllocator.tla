--------------------------- MODULE SlabAllocator ---------------------------
(***************************************************************************)
(* The slab allocator of slab_allocator.c: one list of slabs per supported *)
(* block size, a LIFO free list in every slab, a slab taken from libc when *)
(* no slab of the size has a free node and given back as soon as its last  *)
(* block is freed.                                                         *)
(*                                                                         *)
(* A member of Slab stands for a struct slab and the pool it points to; a  *)
(* node of a pool is its index, and the address of a block is the pair     *)
(* <<slab, node>>, so "the address lies inside the pool" is equality of    *)
(* the first component.  The free list is the sequence of nodes that the   *)
(* chain free_list -> next -> ... visits.  The fields of a struct slab     *)
(* that was given back keep their last value until create_slab() writes    *)
(* them again: nothing may depend on them.                                 *)
(***************************************************************************)
EXTENDS Integers, Sequences, FiniteSets, Functions

CONSTANTS
  Size,      \* the sizes clients ask for
  Supported, \* SUPPORTED_SIZES_DEF
  SlabSize,  \* SLAB_SIZE, in bytes
  MaxSlabs,  \* MAX_SLABS
  Slab,      \* what libc malloc() may return for a slab and its pool
  NULL

NODE_HEADER_SIZE == 4

ASSUME SizeAssumption == Size \subseteq Nat \ {0} /\ Supported \subseteq Size

(* A pool has room for a node of each size (512 KiB against 36 bytes). *)
ASSUME SlabSizeAssumption ==
  SlabSize \in Nat /\ \A c \in Supported : c + NODE_HEADER_SIZE <= SlabSize

ASSUME SlabAssumption ==
  IsFiniteSet(Slab) /\ NULL \notin Slab /\ MaxSlabs \in Nat

ASSUME NullAssumption == NULL \notin Slab \X Nat

VARIABLES
  init,            \* g_allocator.init
  slabs,           \* g_allocator.slabs[], indexed by the size itself
  num_slabs,       \* g_allocator.num_slabs[]
  num_total_slabs, \* g_allocator.num_total_slabs
  next, prev,      \* slab->next, slab->prev
  free_list,       \* slab->free_list
  used,            \* slab->used
  alloc_size,      \* the alloc_size that every node header of a pool holds
  structs, pools,  \* the struct slabs and the pools held from libc
  live,            \* the blocks in the clients' hands: [ptr, size]
  refused,         \* the size just refused, if the last call answered NULL
  exited           \* why exit(1) was called, or "no"

lists == <<slabs, num_slabs, num_total_slabs, next, prev>>
nodes == <<free_list, used, alloc_size>>
heap == <<structs, pools>>
client == <<live, refused, exited>>
vars == <<init, lists, nodes, heap, client>>

----------------------------------------------------------------------------
(* num_nodes of a slab: a node is its header and its block. *)
NumNodes(c) == SlabSize \div (c + NODE_HEADER_SIZE)
Nodes(c) == 1..NumNodes(c)

Ptr == UNION {Slab \X Nodes(c) : c \in Supported}

(* Here and below, a definition whose comment begins with "Variant:" is a  *)
(* plausible mistake in the definition that follows it.  Nothing uses it:  *)
(* replacing the definition by it must break a property (see the README).  *)

(* Walking a slab list.  The paths that follow the next pointers from h;   *)
(* the slabs at which a loop that stops at the first member of S can stop; *)
(* and whether such a loop meets the NULL at the end of the list instead.  *)
Path == UNION {[1..n -> Slab] : n \in 1..Cardinality(Slab)}

Walk(h) ==
  {w \in Path : w[1] = h /\ \A i \in 1..Len(w) - 1 : w[i + 1] = next[w[i]]}

FirstIn(h, S) ==
  {s \in S : \E w \in Walk(h) :
               w[Len(w)] = s /\ \A i \in 1..Len(w) - 1 : w[i] \notin S}

(* Variant: only the head of the list is looked at. *)
NoneInHead(h, S) == h = NULL \/ h \notin S

NoneIn(h, S) ==
  \/ h = NULL
  \/ \E w \in Walk(h) : /\ next[w[Len(w)]] = NULL
                        /\ \A i \in 1..Len(w) : w[i] \notin S

(* allocator_init(), which the first call after a drain runs again. *)
SlabsNow == IF init THEN slabs ELSE [c \in Supported |-> NULL]
NumSlabsNow == IF init THEN num_slabs ELSE [c \in Supported |-> 0]
NumTotalNow == IF init THEN num_total_slabs ELSE 0

NotFull == {s \in Slab : free_list[s] # <<>>}

Init ==
  /\ init = FALSE
  /\ slabs = [c \in Supported |-> NULL]
  /\ num_slabs = [c \in Supported |-> 0]
  /\ num_total_slabs = 0
  /\ next = [s \in Slab |-> NULL]
  /\ prev = [s \in Slab |-> NULL]
  /\ free_list = [s \in Slab |-> <<>>]
  /\ used = [s \in Slab |-> 0]
  /\ alloc_size = [s \in Slab |-> NULL]
  /\ structs = {}
  /\ pools = {}
  /\ live = {}
  /\ refused = NULL
  /\ exited = "no"

----------------------------------------------------------------------------
(* Variant: the loop cuts one node more than the pool has room for. *)
FreshOneMore(c) == [i \in 1..NumNodes(c) + 1 |-> i]

(* The list of all the nodes of a new pool, in address order. *)
FreshFreeList(c) == [i \in Nodes(c) |-> i]

(* Variant: the free list keeps the node that was handed out. *)
PopKeeps(l) == l

(* Taking the first node of a free list, *)
Pop(l) == Tail(l)

(* and giving one back. *)
Push(l, n) == <<n>> \o l

Answer(sz, p) ==
  /\ live' = live \cup {[ptr |-> p, size |-> sz]}
  /\ refused' = NULL

(* A slab of the list has a free node: the first such slab serves. *)
MallocTake(sz) ==
  \E s \in FirstIn(SlabsNow[sz], NotFull) :
    /\ init' = TRUE
    /\ slabs' = SlabsNow
    /\ num_slabs' = NumSlabsNow
    /\ num_total_slabs' = NumTotalNow
    /\ free_list' = [free_list EXCEPT ![s] = Pop(@)]
    /\ used' = [used EXCEPT ![s] = @ + 1]
    /\ Answer(sz, <<s, Head(free_list[s])>>)
    /\ UNCHANGED <<next, prev, alloc_size, heap, exited>>

(* Variant: the new slab is not counted. *)
LimitReachedLate == NumTotalNow <= MaxSlabs

BelowLimit == NumTotalNow + 1 <= MaxSlabs

(* Variant: the new slab forgets the rest of the list. *)
LinkAlone(c, s) ==
  /\ slabs' = [SlabsNow EXCEPT ![c] = s]
  /\ next' = [next EXCEPT ![s] = NULL]
  /\ prev' = [prev EXCEPT ![s] = NULL]
  /\ num_slabs' = [NumSlabsNow EXCEPT ![c] = @ + 1]
  /\ num_total_slabs' = NumTotalNow + 1

(* The list surgery of allocator_add_slab(). *)
LinkFirst(c, s) ==
  /\ slabs' = [SlabsNow EXCEPT ![c] = s]
  /\ next' = [next EXCEPT ![s] = SlabsNow[c]]
  /\ prev' = [p \in Slab |->
                IF p = SlabsNow[c] THEN s ELSE IF p = s THEN NULL ELSE prev[p]]
  /\ num_slabs' = [NumSlabsNow EXCEPT ![c] = @ + 1]
  /\ num_total_slabs' = NumTotalNow + 1

(* No slab has a free node, libc provides another one, it becomes the head *)
(* of the list, and the recursive call takes its first node.               *)
MallocNewSlab(sz) ==
  /\ NoneIn(SlabsNow[sz], NotFull)
  /\ BelowLimit
  /\ \E s \in Slab \ (structs \cup pools) :
       /\ init' = TRUE
       /\ structs' = structs \cup {s}
       /\ pools' = pools \cup {s}
       /\ LinkFirst(sz, s)
       /\ alloc_size' = [alloc_size EXCEPT ![s] = sz]
       /\ free_list' = [free_list EXCEPT ![s] = Pop(FreshFreeList(sz))]
       /\ used' = [used EXCEPT ![s] = 1]
       /\ Answer(sz, <<s, Head(FreshFreeList(sz))>>)
       /\ UNCHANGED exited

(* create_slab() without memory: nothing was allocated, or the struct slab *)
(* was and is freed again because its pool could not be.                   *)
StructMallocFails == UNCHANGED heap

PoolMallocFails ==
  \E s \in Slab \ (structs \cup pools) :
    /\ structs' = (structs \cup {s}) \ {s}
    /\ UNCHANGED pools

(* The request is answered with NULL: too many slabs, or no memory.        *)
(* allocator_init() may have run all the same.                             *)
MallocFail(sz) ==
  /\ NoneIn(SlabsNow[sz], NotFull)
  /\ IF BelowLimit THEN StructMallocFails \/ PoolMallocFails ELSE UNCHANGED heap
  /\ init' = TRUE
  /\ slabs' = SlabsNow
  /\ num_slabs' = NumSlabsNow
  /\ num_total_slabs' = NumTotalNow
  /\ refused' = sz
  /\ UNCHANGED <<next, prev, nodes, live, exited>>

(* supported_alloc_size_map() ends the program. *)
MallocUnsupported(sz) ==
  /\ init' = TRUE
  /\ slabs' = SlabsNow
  /\ num_slabs' = NumSlabsNow
  /\ num_total_slabs' = NumTotalNow
  /\ refused' = NULL
  /\ exited' = "unsupported"
  /\ UNCHANGED <<next, prev, nodes, heap, live>>

----------------------------------------------------------------------------
(* allocator_remove_slab(): the only slab of the list, its head, another. *)
UnlinkOnly(c) ==
  /\ slabs' = [slabs EXCEPT ![c] = NULL]
  /\ UNCHANGED <<next, prev>>

(* Variant: the new head still points back to the slab that is freed. *)
UnlinkHeadOnly(c, s) == slabs' = [slabs EXCEPT ![c] = next[s]] /\ UNCHANGED <<next, prev>>

UnlinkHead(c, s) ==
  /\ slabs' = [slabs EXCEPT ![c] = next[s]]
  /\ prev' = [prev EXCEPT ![next[s]] = NULL]
  /\ UNCHANGED next

UnlinkBody(s) ==
  /\ prev' = [p \in Slab |-> IF p = next[s] THEN prev[s] ELSE prev[p]]
  /\ next' = [next EXCEPT ![prev[s]] = next[s]]
  /\ UNCHANGED slabs

RemoveSlab(s) ==
  LET c == alloc_size[s] IN
  /\ IF num_slabs[c] = 1 THEN UnlinkOnly(c)
     ELSE IF s = slabs[c] THEN UnlinkHead(c, s) ELSE UnlinkBody(s)
  /\ pools' = pools \ {s}
  /\ structs' = structs \ {s}
  /\ num_slabs' = [num_slabs EXCEPT ![c] = @ - 1]
  /\ num_total_slabs' = num_total_slabs - 1
  /\ init' = (num_total_slabs - 1 # 0)

(* Variant: the test comes before the decrement. *)
WasIdleBefore(s) == used[s] = 0

(* if (!slab->used), after the decrement. *)
WasLastBlock(s) == used[s] - 1 = 0

FreeToSlab(s, n) ==
  /\ free_list' = [free_list EXCEPT ![s] = Push(@, n)]
  /\ used' = [used EXCEPT ![s] = @ - 1]
  /\ IF WasLastBlock(s) THEN RemoveSlab(s) ELSE UNCHANGED <<init, lists, heap>>
  /\ UNCHANGED <<alloc_size, exited>>

(* The size in the header of the block selects the list that is searched   *)
(* for the pool around the block; a block no pool of the list contains     *)
(* ends the program.  Clients free blocks they own, once.                  *)
Free(b) ==
  LET s == b.ptr[1] IN
  /\ live' = live \ {b}
  /\ refused' = NULL
  /\ IF s \in FirstIn(slabs[alloc_size[s]], {s})
     THEN FreeToSlab(s, b.ptr[2])
     ELSE /\ exited' = "foreign"
          /\ UNCHANGED <<init, lists, nodes, heap>>

Next ==
  /\ exited = "no"
  /\ \/ \E sz \in Supported : MallocTake(sz)
     \/ \E sz \in Supported : MallocNewSlab(sz)
     \/ \E sz \in Supported : MallocFail(sz)
     \/ \E sz \in Size \ Supported : MallocUnsupported(sz)
     \/ \E b \in live : Free(b)

Spec == Init /\ [][Next]_vars
----------------------------------------------------------------------------
(* Properties. *)

(* The nodes of slab s among the blocks of L. *)
NodesOf(L, s) == {b.ptr[2] : b \in {x \in L : x.ptr[1] = s}}

(* A free list fl without repetitions and the n nodes N in the clients'    *)
(* hands make up a slab of size c.                                         *)
Partition(fl, N, n, c) ==
  /\ IsInjective(fl)
  /\ Range(fl) \cap N = {}
  /\ Range(fl) \cup N = Nodes(c)
  /\ n = Cardinality(N)

(* The state of the allocator has the shape its C declarations give it,    *)
(* and num_total_slabs stays within MAX_SLABS (slab_allocator.c:140).      *)
TypeOK ==
  /\ init \in BOOLEAN
  /\ slabs \in [Supported -> Slab \cup {NULL}]
  /\ num_slabs \in [Supported -> Nat]
  /\ num_total_slabs \in 0..MaxSlabs
  /\ next \in [Slab -> Slab \cup {NULL}]
  /\ prev \in [Slab -> Slab \cup {NULL}]
  /\ free_list \in [Slab -> Seq(Nat)]
  /\ used \in [Slab -> Nat]
  /\ alloc_size \in [Slab -> Supported \cup {NULL}]
  /\ structs \subseteq Slab
  /\ pools \subseteq Slab
  /\ live \subseteq [ptr : Ptr, size : Supported]
  /\ refused \in Supported \cup {NULL}
  /\ exited \in {"no", "unsupported", "foreign"}

(* No two blocks in the clients' hands share an address, every one lies in *)
(* a pool that is still held and whose nodes are of its size.              *)
BlocksInPools ==
  /\ \A a, b \in live : a.ptr = b.ptr => a = b
  /\ \A b \in live : b.ptr[1] \in pools /\ alloc_size[b.ptr[1]] = b.size

(* The nodes of a held pool are exactly those of its free list, which      *)
(* names none twice, and those in the clients' hands, and used counts the  *)
(* latter: nothing is handed out twice and no node is lost                 *)
(* (slab_allocator.c:218-220, 261-263).                                    *)
NodesPartition ==
  \A s \in pools : Partition(free_list[s], NodesOf(live, s), used[s], alloc_size[s])

BlocksPartition == BlocksInPools /\ NodesPartition

(* The pointers nx and pv link the slabs of S, each once, in the order q,  *)
(* and h points to the first.                                              *)
IsList(q, h, nx, pv, S) ==
  /\ IsInjective(q)
  /\ Range(q) = S
  /\ h = IF Len(q) = 0 THEN NULL ELSE q[1]
  /\ \A i \in 1..Len(q) :
       /\ nx[q[i]] = IF i = Len(q) THEN NULL ELSE q[i + 1]
       /\ pv[q[i]] = IF i = 1 THEN NULL ELSE q[i - 1]

SlabSeq == Path \cup {<<>>}
Held(c) == {s \in pools : alloc_size[s] = c}

IsSlabList(c, q) ==
  IsList(q, slabs[c], next, prev, Held(c)) /\ num_slabs[c] = Len(q)

(* Every held slab is on the one list its size selects, the list is doubly *)
(* linked and free of cycles, and both counters agree with it, through     *)
(* every order of insertions at the head and removals anywhere             *)
(* (slab_allocator.c:152-159, 171-199).  Without init, nothing is held.    *)
ListsConsistent ==
  /\ \A c \in Supported : \E q \in SlabSeq : IsSlabList(c, q)
  /\ num_total_slabs = Cardinality(pools)
  /\ ~init => pools = {}

(* A slab is kept only while a client holds a block of it, and every       *)
(* struct slab has its pool: once all blocks are freed, or after a failed  *)
(* create_slab(), nothing is left behind (slab_allocator.c:101-106, 266).  *)
NothingIdle ==
  /\ structs = pools
  /\ \A s \in pools : used[s] > 0

(* Freeing a block the client owns always finds the pool around it, so it  *)
(* never ends the program as if the block were foreign (lines 253-277).    *)
OwnedBlocksFreeable ==
  /\ exited # "foreign"
  /\ \A b \in live : b.ptr[1] \in FirstIn(slabs[alloc_size[b.ptr[1]]], {b.ptr[1]})

(* A request of a supported size is refused only when no held slab of that *)
(* size has a free node, wherever on the list it is (lines 214-230).       *)
NoSpuriousFailure ==
  [][ refused' # NULL
      => \A s \in pools : alloc_size[s] = refused' => free_list[s] = <<>> ]_vars

(* The allocator keeps the promises of malloc() and free(). *)
Promise == INSTANCE MallocSpec
ImplementsMalloc == Promise!Spec
=============================================================================
