----------------------------- MODULE ListOnSlab -----------------------------
(***************************************************************************)
(* The list on the slab allocator, as linked_list_test_program.c builds it *)
(* with SLAB_ALLOCATOR_TEST: instrumented_malloc() and instrumented_free() *)
(* are registered through the queue, which hands them on to the list, and  *)
(* every struct of the list is a block of a slab.                          *)
(*                                                                         *)
(* A node is its address, and so is an iterator.  The list is LinkedList,  *)
(* twice: L is the list whose requests are served, N the one whose request *)
(* is refused.  The slabs are SlabAllocator.  A call of the list is one    *)
(* step with the one block it asks for or gives back, except for the       *)
(* deletion of a list, whose blocks are given back one by one.  Calls that *)
(* leave the memory alone are those of LinkedList and are not repeated.    *)
(***************************************************************************)
EXTENDS Integers, Sequences, FiniteSets, SequencesExt

CONSTANTS
  ListSize, NodeSize, IteratorSize, \* sizeof the structs of linked_list.h
  SlabSize, MaxSlabs, Slab,         \* see SlabAllocator
  Value, Index, UIntMax, SizeMax,   \* see LinkedList
  NULL, Garbage

Sizes == {ListSize, NodeSize, IteratorSize}

VARIABLES
  init, slabs, num_slabs, num_total_slabs, slab_next, slab_prev,
  free_list, used, alloc_size, structs, pools, live, refused, exited

slab_vars == <<init, slabs, num_slabs, num_total_slabs, slab_next, slab_prev,
               free_list, used, alloc_size, structs, pools, live, refused, exited>>

A == INSTANCE SlabAllocator
       WITH Size <- Sizes, Supported <- Sizes, next <- slab_next, prev <- slab_prev

VARIABLES
  ll, head, tail, len, next, prev, data, nodes, iters, lost, call, ret, crashed

list_vars == <<ll, head, tail, len, next, prev, data, nodes, iters, lost, call, ret, crashed>>

Node == Slab \X A!Nodes(NodeSize)
Iter == Slab \X A!Nodes(IteratorSize)

L == INSTANCE LinkedList WITH MallocFails <- {}
N == INSTANCE LinkedList WITH MallocFails <- {"list", "node", "iterator"}

(* What the two modules assume, and that a refused size is not NULL.       *)
ASSUME PartsAssumption ==
  /\ A!SizeAssumption /\ A!SlabSizeAssumption /\ A!SlabAssumption /\ A!NullAssumption
  /\ L!NodeAssumption /\ L!NumberAssumption
  /\ NULL \notin Sizes

VARIABLES
  queue_malloc, queue_free,     \* malloc_fptr and free_fptr of queue.c
  list_malloc, list_free,       \* and of linked_list.c
  instrumented_malloc_fail_next,
  instrumented_malloc_last_alloc_successful,
  list_block,                   \* the address of the list
  todo                          \* what linked_list_delete() has still to free

fptrs == <<queue_malloc, queue_free, list_malloc, list_free>>
flags == <<instrumented_malloc_fail_next, instrumented_malloc_last_alloc_successful>>
vars == <<slab_vars, list_vars, fptrs, flags, list_block, todo>>

Init ==
  /\ A!Init
  /\ L!Init
  /\ queue_malloc = NULL /\ queue_free = NULL
  /\ list_malloc = NULL /\ list_free = NULL
  /\ instrumented_malloc_fail_next = FALSE
  /\ instrumented_malloc_last_alloc_successful = FALSE
  /\ list_block = NULL
  /\ todo = <<>>

----------------------------------------------------------------------------
(* Registration. *)

linked_list_register_malloc(f) == list_malloc' = f
linked_list_register_free(f) == list_free' = f

SetMalloc(f) == queue_malloc' = f /\ linked_list_register_malloc(f)

(* Variant: the list is left to its own registration. *)
QueueOnly(f) == queue_free' = f /\ UNCHANGED list_free

SetFree(f) == queue_free' = f /\ linked_list_register_free(f)

queue_register_malloc(f) ==
  /\ IF f = NULL THEN UNCHANGED <<queue_malloc, list_malloc>> ELSE SetMalloc(f)
  /\ UNCHANGED <<queue_free, list_free, slab_vars, list_vars, flags, list_block, todo>>

queue_register_free(f) ==
  /\ IF f = NULL THEN UNCHANGED <<queue_free, list_free>> ELSE SetFree(f)
  /\ UNCHANGED <<queue_malloc, list_malloc, slab_vars, list_vars, flags, list_block, todo>>

(* main() registers both before its first call of a list. *)
Register ==
  \/ /\ queue_malloc = NULL
     /\ \E f \in {NULL, "instrumented_malloc"} : queue_register_malloc(f)
  \/ /\ queue_malloc # NULL /\ queue_free = NULL
     /\ \E f \in {NULL, "instrumented_free"} : queue_register_free(f)

Registered == queue_malloc # NULL /\ queue_free # NULL

----------------------------------------------------------------------------
(* instrumented_malloc() returns a block, whose address is Given, *)
Given == {b.ptr : b \in live' \ live}

Serve(sz) ==
  /\ ~instrumented_malloc_fail_next
  /\ A!MallocTake(sz) \/ A!MallocNewSlab(sz)
  /\ instrumented_malloc_last_alloc_successful' = TRUE
  /\ UNCHANGED instrumented_malloc_fail_next

(* or NULL: because the test asked for it, or there is no memory. *)
Refuse(sz) ==
  /\ instrumented_malloc_last_alloc_successful' = FALSE
  /\ \/ /\ instrumented_malloc_fail_next
        /\ instrumented_malloc_fail_next' = FALSE
        /\ UNCHANGED slab_vars
     \/ /\ ~instrumented_malloc_fail_next
        /\ A!MallocFail(sz)
        /\ UNCHANGED instrumented_malloc_fail_next

(* instrumented_free() of the block of size sz at p. *)
GiveBack(p, sz) == A!Free([ptr |-> p, size |-> sz])

(* A call that ends the program, where it follows a bad pointer (see       *)
(* Following in LinkedList), or calls one that was not registered.         *)
Ends(Call) ==
  Call /\ crashed' /\ UNCHANGED <<slab_vars, fptrs, flags, list_block, todo>>

(* A call that frees the block of size sz at p, through free_fptr. *)
Freeing(Call, p, sz) ==
  IF list_free = NULL THEN Ends(L!Crash)
  ELSE Call /\ GiveBack(p, sz) /\ UNCHANGED <<fptrs, flags>>

(* The test has the next allocation refused before it creates a list. *)
FailNext ==
  /\ ~ll /\ ~instrumented_malloc_fail_next
  /\ instrumented_malloc_fail_next' = TRUE
  /\ UNCHANGED <<slab_vars, list_vars, fptrs, list_block, todo,
                 instrumented_malloc_last_alloc_successful>>

CreateList ==
  /\ ~ll
  /\ \/ list_malloc = NULL /\ Ends(L!Crash)
     \/ /\ list_malloc # NULL
        /\ \/ Serve(ListSize) /\ L!Create /\ list_block' \in Given
           \/ Refuse(ListSize) /\ N!Create /\ ~ll' /\ UNCHANGED list_block
        /\ UNCHANGED <<fptrs, todo>>

(* The three insertions.  Only those with a place to insert allocate. *)
Inserts == \E d \in Value : \/ L!InsertEnd(d)
                            \/ L!InsertFront(d)
                            \/ \E i \in Index : L!Insert(i, d)
InsertsWithoutMemory == \E d \in Value : \/ N!InsertEnd(d)
                                         \/ N!InsertFront(d)
                                         \/ \E i \in Index : N!Insert(i, d)

InsertNode ==
  /\ ll
  /\ \/ Serve(NodeSize) /\ Inserts /\ nodes' \ nodes = Given
     \/ Refuse(NodeSize) /\ InsertsWithoutMemory /\ crashed'
     \/ Ends(Inserts)
  /\ UNCHANGED <<fptrs, list_block, todo>>

RemoveNode ==
  /\ ll
  /\ \E i \in Index :
       \/ \E n \in nodes : Freeing(L!Remove(i) /\ nodes' = nodes \ {n}, n, NodeSize)
       \/ Ends(L!Remove(i))
  /\ UNCHANGED <<list_block, todo>>

CreateIterator ==
  /\ ll
  /\ \/ /\ Serve(IteratorSize)
        /\ \E i \in Index : L!CreateIterator(i)
        /\ {it \in Iter : iters[it] = NULL /\ iters'[it] # NULL} = Given
     \/ /\ Refuse(IteratorSize)
        /\ \E i \in Index : N!CreateIterator(i)
        /\ crashed'
     \/ \E i \in Index : Ends(L!CreateIterator(i))
  /\ UNCHANGED <<fptrs, list_block, todo>>

DeleteIterator(it) ==
  /\ iters[it] # NULL
  /\ Freeing(L!DeleteIterator(it), it, IteratorSize)
  /\ UNCHANGED <<list_block, todo>>

Iterate(it) ==
  /\ L!Iterate(it)
  /\ UNCHANGED <<slab_vars, fptrs, flags, list_block, todo>>

(* Variant: the nodes are freed, the list is not. *)
NodesOnly == L!Chain

(* What linked_list_delete() frees: the nodes from the head on, the list. *)
Frees == Append(L!Chain, list_block)

DeleteList ==
  \/ /\ L!Delete /\ ~crashed'
     /\ todo' = Frees
     /\ list_block' = NULL
     /\ UNCHANGED <<slab_vars, fptrs, flags>>
  \/ Ends(L!Delete)

FreeNext ==
  /\ todo # <<>>
  /\ Freeing(todo' = Tail(todo) /\ UNCHANGED <<list_vars, list_block>>,
             Head(todo), IF Len(todo) = 1 THEN ListSize ELSE NodeSize)

Next ==
  /\ ~crashed /\ exited = "no"
  /\ \/ Register
     \/ /\ Registered
        /\ \/ FreeNext
           \/ /\ todo = <<>>
              /\ \/ FailNext
                 \/ CreateList
                 \/ InsertNode
                 \/ RemoveNode
                 \/ CreateIterator
                 \/ \E it \in Iter : DeleteIterator(it)
                 \/ \E it \in Iter : Iterate(it)
                 \/ DeleteList

Spec == Init /\ [][Next]_vars
----------------------------------------------------------------------------
(* Properties. *)

Block(p, sz) == [ptr |-> p, size |-> sz]

(* The blocks taken from the slabs are the list, its nodes, the iterators, *)
(* and what a deletion has still to free, each with the size of its        *)
(* struct: across all calls of the list none is leaked, freed twice or     *)
(* freed while it is used (linked_list.c:38-45, 85-113, 220-286).          *)
BlocksAccounted ==
  live = {Block(list_block, ListSize) : x \in {y \in {1} : list_block # NULL}}
           \cup {Block(n, NodeSize) : n \in nodes}
           \cup {Block(it, IteratorSize) : it \in {x \in Iter : iters[x] # NULL}}
           \cup {Block(todo[k], IF k = Len(todo) THEN ListSize ELSE NodeSize) :
                   k \in DOMAIN todo}

(* When the client has deleted what it created, the allocator has given    *)
(* every slab back to libc and is as before its first use, or, after a     *)
(* refusal, as allocator_init() leaves it (slab_allocator.c:54-66,         *)
(* 196-199).                                                               *)
AllReturned ==
  ~ll /\ todo = <<>> /\ (\A it \in Iter : iters[it] = NULL) =>
    /\ structs = {} /\ pools = {}
    /\ init => num_total_slabs = 0 /\ \A c \in Sizes : slabs[c] = NULL

(* With both functions registered through the queue, the list neither      *)
(* allocates nor frees through NULL, no block it gives back is foreign to  *)
(* the slabs and no call follows a bad pointer: the program can only end   *)
(* in a call for which there was no memory (queue.c:39-53,                 *)
(* slab_allocator.c:273-277).                                              *)
EndsOnlyRefused ==
  /\ exited = "no"
  /\ crashed => refused # NULL /\ ~instrumented_malloc_last_alloc_successful

(* The data an iterator in use shows is that of a node of the list, though *)
(* the slabs hand a freed address out again first (linked_list.c:288-298,  *)
(* slab_allocator.c:260-262).                                              *)
IteratorsOnNodes == L!IteratorsOnNodes

(* A new iterator is at its index, and while the list is left alone its    *)
(* index moves with its node (linked_list.c:263-298).                      *)
IteratorsKeepStep == L!IteratorsKeepStep
=============================================================================
