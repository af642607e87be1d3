# A verification of the slab allocator, the list, the queue and the search

The repository is a queue on top of a doubly linked list, an allocator for the
small blocks both ask for, and a program that measures the queue with
breadth-first searches over a large graph. Everything is C and, in the default
build, runs in one thread. What makes it hard is not concurrency but state that
must agree after any sequence of calls: pointers in both directions, counters
kept twice, a list head that is only valid while a flag says so, marks of one
search that the next must not see, and calls that fail half way.

## Inventory

| component | state | operations | who it talks to |
|---|---|---|---|
| slab allocator (`slab_allocator.c/.h`) | `g_allocator`: one slab list and one counter per block size, the total, `init`; per slab a pool, a free list and `used` | `slab_allocator_malloc`, `slab_allocator_free` | takes slabs and pools from libc; called by the list through registered pointers |
| linked list (`linked_list.c/.h`) | `head`, `tail`, `len`; `next`, `prev`, `data` per node; iterators | create, delete, size, insert (end, front, index), find, remove, create/delete iterator, iterate | calls `malloc_fptr`, `free_fptr` |
| queue (`queue.c/.h`) | a list and a length of its own | create, delete, push, pop, size, has_next, next | calls the list |
| registration (both) | two function pointers in each library | `*_register_malloc`, `*_register_free` | the queue's calls the list's |
| loading (`queue_performance.c`, `main`, `add_edge`) | `rows[]`, their cells, the file position | opening, head of the file, parse loop, `add_edge`, clean-up | calls the Matrix Market reader; fills the rows the search reads |
| search (`queue_performance.c`, `breadth_first_search`, `main`) | `visited` marks, a queue, locals | one search, clearing the marks, 100 times | calls the queue |
| times and statistics (`queue_performance.c`) | times, sums of them, call counters | microbenchmark, `compute_timespec_diff`, `sum_timespec`, `instrumented_malloc`, `instrumented_free` | around each search |
| Matrix Market reader (`mmio.c/.h`) | the position in the file | vendored; `mm_read_banner` and `mm_read_mtx_crd_size` are used | called once by `main` |
| tests (`linked_list_test_program.c`) | two flags of `instrumented_malloc` | the list and the queue with the slab allocator behind them | registers its functions with the queue |
| Makefile, `linked_list_allocator.h` | | build, a design note | |

What makes each correct:

* allocator: a node is never in two hands nor lost, a block that is owned can be
  freed, every slab is on exactly one well-formed list and both counters count
  it, a slab goes back to libc exactly when its last block does, and a request
  is refused only when there is no node and no slab to be had;
* list: both directions of pointers, `head`, `tail` and `len` describe one
  sequence, which changes as the header says, call by call; no node leaks; no
  call touches freed memory; an iterator follows its node;
* queue: first in, first out; its length is that of its list; nothing outlives
  it; it works, or fails cleanly, without memory;
* list on the allocator: every block a slab has handed out is one struct of the
  list, of the right size, through any life of lists and iterators; when they
  are gone so are the slabs;
* loading and search: the graph searched is the one of the file, every search
  ends with the right answer, independent of those before it;
* times: what is reported is near the time that passed, never negative.

Hard behaviours: failing allocations at every call of `malloc`; limits
(`MAX_SLABS`, the growth of a row, unsigned wrap-around); long sequences of
legal calls (drain and refill of the allocator, emptying a list); state that
outlives its use (dangling `tail`, iterators, marks); termination on cyclic
graphs. `PROJECT.json` lists each hazard at its line with the properties that
watch it.

## Modules

| module | what it is |
|---|---|
| `MallocSpec` | what a client may expect of malloc and free for a set of sizes |
| `SlabAllocator` | `slab_allocator.c`, refines `MallocSpec` |
| `SlabListLemmas`, `SlabAllocatorProofs` | the theorems about `SlabAllocator` |
| `ListSpec` | a sequence with the calls of `linked_list.h` and their answers |
| `LinkedList` | `linked_list.c` at the level of pointers, refines `ListSpec` |
| `LinkedListProofs` | the theorems about `LinkedList` |
| `FifoSpec` | a FIFO with the calls of `queue.h` and their answers |
| `Queue` | `queue.c`, composed with an instance of `LinkedList`; refines `FifoSpec` |
| `QueueProofs` | the theorems about `Queue`, on those about `LinkedList` |
| `ListOnSlab` | `linked_list.c` on `slab_allocator.c`, registered through `queue.c`, as the functional tests run it: instances of `LinkedList` and `SlabAllocator` |
| `ListOnSlabProofs` | the theorems about `ListOnSlab`, on those about its two parts |
| `Search` | `breadth_first_search()` and the loop around it, composed with an instance of `FifoSpec` |
| `SearchProofs` | the theorems about `Search` |
| `MatrixMarket` | operators: the banner, and what `scanf()` finds in text (`mmio.c`) |
| `Loading` | `main()` from `fopen()` to the last `free()`, `mm_read_mtx_crd_size()` and `add_edge()` |
| `LoadingProofs` | the theorems about `Loading` |
| `Times`, `TimesProofs` | the microbenchmark, the times of the searches and their sum, and the theorems about them |
| `MC*` | small instances for TLC |

The modules stack the way the code does: `Search` uses the queue only as
`FifoSpec` describes it, `Queue` implements `FifoSpec` with the actions of
`LinkedList`, and the nodes of `LinkedList` come from an allocator that
behaves like `MallocSpec`, which `SlabAllocator` implements. `ListOnSlab` puts
the two detailed modules together without that abstraction. Because the
program has one thread, a call of a function is one action, with all the calls
it makes; only the search is cut into steps, one per call of the queue.

**SlabAllocator.** A member of `Slab` is a `struct slab` with its pool, a node
is its index in the pool, an address is `<<slab, node>>`. `slabs`, `num_slabs`,
`num_total_slabs`, `init`, `next`, `prev`, `free_list`, `used` and the
`alloc_size` of the headers are the fields of the code; `structs` and `pools`
are what libc has handed out, `live` the blocks the clients hold. The walks of
the code along a slab list are paths (`Walk`, `FirstIn`, `NoneIn`). malloc is
split by what it finds: `MallocTake`, `MallocNewSlab` (with the recursive
call), `MallocFail`, `MallocUnsupported`; `Free` includes the removal of an
empty slab. Clients free what they own, once.

**LinkedList.** One list, its nodes as memory cells. `nodes` are those held from
the allocator, and freed memory reads as `Garbage`. `len` and the index of
`linked_list_traverse_to_index()` are unsigned ints modulo `UIntMax + 1`,
indices given by clients and `current_index` are `size_t` modulo `SizeMax + 1`.
`Traverse` counts the steps of the two loops (`Along`), and `Walked` are the
pointers it follows on the way. Every call names the pointers it dereferences or
frees (`Following`): those of the walk, `head`, `tail`, the `prev` and `next` it
writes through. If one of them is NULL or not that of a node held, the call sets
`crashed`; so does a call that writes through the NULL of a refused `malloc()`.
One thing is left to chance: whether reading the data of a freed node for a new
iterator is noticed. `call` and `ret` hold the
last call and its answer (TRUE and any pointer are 1, FALSE and NULL are 0) so
that `ListSpec` speaks about answers too. A client does not use an iterator
after its node was freed (`lost`); the code has no way to tell.

**Queue.** `L == INSTANCE LinkedList` supplies the list; `qlen` is
`queue->len`; `out` is the client's variable that `popped_data` points to. `Pop`
and `Peek` read the data of the head before they ask the list for anything, so
they crash without one (`Crash`).

**Search.** `rows` is any graph, `pc` the next statement, `Begin` a call from
`main()`, `Clear` the loop that resets the marks. The queue is `FifoSpec` with
`out` instantiated by `next_node`. A row that is NULL in the code is empty.

Its `malloc_invocations` and `free_invocations` count the calls the queue makes
for the search; `Clear` resets them with the marks.

**ListOnSlab.** The address of a node or an iterator is the `<<slab, node>>` it
has in `SlabAllocator`. `LinkedList` is instantiated twice on the same
variables, once with a `malloc()` that is served (`L`) and once with one that is
refused (`N`); a step is a call of the list together with the step of the
allocator that serves or refuses it (`Serve`, `Refuse`, `GiveBack`, which are
`instrumented_malloc()` and `instrumented_free()` with the flags of the tests).
`linked_list_delete()` gives back many blocks: `todo` are those it still has to
free, and while there are any nothing else happens. `queue_malloc`, `list_malloc`
and the two for free are the function pointers; the client registers through the
queue before its first call, as every `main()` here does. A call that asks for a
block looks at `list_malloc`, one that gives a block back at `list_free`
(`Freeing`), and either ends the program if the pointer is NULL; so does a call
of the list that crashes (`Ends`).

**Loading.** A file is the words of its banner, its other lines as sequences of
tokens (a number, a `%`, another word), and whether the last line ends in a
newline. `fgets()` takes a line of `input`, `fscanf()` takes tokens of the text
that is left, whatever the lines. `eof` is what `feof()` answers: the last pair
meets the end only if no newline follows. When one does, the code calls
`add_edge(i, j)` once more with variables that the loop body declares and that
round does not assign. Their value is indeterminate in C, whatever the round
before left in them, and the model lets them be anything (`Junk`), inside the
array of rows or not.
`failing` is the call that fails in this run of the program. An index outside
the array of rows ends in `outside`, since nothing defined follows.

A word of a banner is the constant of `mmio.h` it spells, with two flags:
`exact`, that its letters are those of the constant and not capitals where that
has small ones, and `longer`, that more letters follow. `tolower()` sets the
first for the four words it is applied to, `strcmp()` asks for both, and the
`strncmp()` of the first word, which keeps its capitals, does not mind the second.

**Times.** A reading of the clock is any time not before the last; what is
measured between two readings is left out. `measured` and `elapsed` are not in
the code: they are what the sum should be, of the times as they were computed and
of those that really passed. The nanoseconds of `total_time` are not reduced, and the
model keeps them so.

A definition whose comment begins with "Variant:" is a plausible mistake in the
definition after it. Nothing refers to it; `PROJECT.json` names, for every
property of every passing run, a definition and the variant that, put in its
place, makes TLC find the property violated.

## Runs

| run | instance | what it shows |
|---|---|---|
| `slab` | sizes 16, 24 (and 32, not built in), pools of 48 bytes: two nodes of 16 or one of 24; 4 slabs, `MAX_SLABS` 3 | types and limit, list consistency, partition of the nodes, no idle slab, owned blocks can be freed, no spurious refusal, refinement of `MallocSpec` |
| `list` | 6 nodes, 2 values, indices 0 to 6, `UINT_MAX` 7 | links and length exact, no leak, no call through a bad pointer, refinement of `ListSpec` |
| `list_on_slab` | slabs of 60 bytes: two structs of 24 or one iterator of 32; 3 slabs, 2 values, indices 0 to 3 | all blocks accounted for, all slabs returned, malloc and free never called through NULL, the program ends only where memory was refused, iterators stay on nodes and in step |
| `list_emptied` | 2 nodes, 1 iterator, indices 0 and `UINT_MAX` | a finding |
| `queue` | 5 nodes, 2 values, queue or list may not be allocated | lengths agree, nothing left, refinement of `FifoSpec` |
| `search` | all graphs of 3 nodes with at most 2 links each, any series of searches | answers, the frontier, the bound on the queue, the counts of calls, termination |
| `search_no_queue` | 1 link each, a queue may lack its list | two findings |
| `loading` | every list of at most 5 links over 2 nodes under a usual head; 17 unusual heads and 7 banners with at most one link; with and without a final newline; chunks of 3 cells; every call that may fail; four values for an unassigned number, one beyond the rows | rows fit their cells, the numbers of the file stay inside the array, the rows hold the file but for one link that the end of the file may add; all is freed; the program ends |
| `loading_lines` | the same files with at most 1 link | a finding |
| `loading_realloc` | the same files with at most 3 links, and no memory for `realloc()` | a finding |
| `times` | seconds of 4 nanoseconds, clock up to 5 seconds, 5 searches | no negative time, differences and sum within their bounds |
| `times_total` | the same | two findings |

Why the bounds are enough to be interesting. Three slabs of one size give a
head, a body and a tail to remove and the limit to run into; the fourth slab
makes libc hand out fresh memory while freed memory is around; two sizes share
the limit. The order of a longer free list is left to the proofs, which are for
any number of nodes. Three slabs under the list hold it with three nodes and an
iterator, or with five nodes. The index search of the list runs its first loop from four nodes on and both loops with a step
from six on. Five links and the one that the last round adds make a row grow
twice with chunks of three. With seconds of four nanoseconds every pair of
readings of `tv_nsec` occurs, and five searches are enough for the sum to carry
again and again.
Three nodes make cycles, self loops, unreachable parts and links given twice.
All bounds are constants: `Slab`, `Node`, `Iter`, `Index`, `MaxDegree`,
`Files` (with `MaxLinks` and `Nodes`), `Junk`, `MaxSec`, `Searches`. When `Node` is used up no further insertion happens: this is a bound
of the model, not a refusal of the allocator (that is `MallocFails`).
`CHECK_DEADLOCK FALSE` is set where the program may end: `exit(1)` in the
allocator, the end of the program in `Loading` and `Times`, a crash in `ListOnSlab` and in
the findings about it. Symmetry is used for the sets of slabs and nodes, and not
in the runs that check liveness.

Fairness is assumed in two places: `WF_vars(Step)` in `Search` and
`WF_vars(Next)` in `Loading`, since a single thread keeps executing what it has
begun. `ReadingEnds` is stated for files in which only numbers follow the
comments: at other text before the size `mm_read_mtx_crd_size()` repeats a
`fscanf()` that never moves on (`mmio.c:209-214`), a step that changes nothing
and so satisfies weak fairness for ever. No fairness is assumed of
clients: whether there is a next search is left open.

### Findings

1. `linked_list_remove()` leaves `tail` dangling when it removes the last node;
   with an index that is `UINT_MAX` as an unsigned int,
   `linked_list_create_iterator()` returns an iterator on it, which
   `linked_list_test_program.c:220-221` calls a failure (`list_emptied`).
2. `queue_create()` returns a queue whose list could not be created, where
   `queue.h:53` promises NULL (`search_no_queue`).
3. A search that cannot push returns 1, which `main()` reports as "Path found."
   (`search_no_queue`).
4. For a file that ends with a newline, one line too many is counted and reported,
   and a link between two numbers that nobody assigned is added, or the memory
   outside the array of rows is written (`queue_performance.c:312-326`;
   `loading_lines`). `RowsHoldTheFile` says that this link, the last of its row, is
   all that can be wrong with the rows; the searches do follow it.
5. When `realloc()` finds no memory, `add_edge()` looks at the wrong variable and
   writes through NULL, instead of printing "Failed to realloc adjacent nodes."
   and exiting (`queue_performance.c:183-191`; `loading_realloc`).
6. `compute_timespec_diff()` subtracts the nanoseconds the wrong way round when
   those of the first time are larger, so "Time elapsed" is wrong (by less than a
   second) whenever a second begins in between; and `sum_timespec()` counts a
   second that it carries twice, and again in every later sum. "Performed searches
   in [s]" has both errors; together they exceed a second per search
   (`times_total`).

One more disagreement needs no run of its own. `create_node()` writes to what
`malloc_fptr()` returned without a check, so an insertion without memory crashes
where `linked_list.h:104` promises FALSE, and so does the creation of an iterator.
The run `list_on_slab` is full of such ends of the program: `EndsOnlyRefused`
says that there are no others, and `NoCrash` that without refusals there are none
(`Provided`).

## Proofs

`SlabAllocatorProofs` proves for every set of sizes, every slab size with room
for a node, every finite set of slabs and every `MAX_SLABS`:

* `TypeCorrect`, `BlocksSafe`, `ListsSafe`, `NoLeak`, `FreeSucceeds`: the
  invariants of the run `slab`;
* `RefusalJustified`: the action property `NoSpuriousFailure`;
* `Refinement`: `SlabAllocator` implements `MallocSpec`.

The assumptions are those of the module: sizes are positive, a pool has room
for a node of each size, the slabs libc can provide are finitely many, NULL is
none of the addresses.

The inductive invariant `Inv` is the conjunction of all five. None is inductive
alone: that a free finds its slab needs the lists; that a slab that leaves a
list was the one with `num_slabs` 1, the head or a body needs the counters; that
a slab with `used` 0 holds no live block needs the partition; and that a slab in
the lists has a size, so that its list can be named, needs that no slab is idle.
A list is stated as the existence of a sequence of distinct slabs that `next`
and `prev` link (`IsList`), so that each kind of surgery (`ListPush`,
`ListRemove`) is a lemma about sequences. The walks of the search loops are
related to the sequence by `WalkOfList`, from which follow `MemberIsFound` (the
loop of free finds a slab of the list) and `NoneMeansNone` (the loop of malloc
that finds nothing has seen every slab). Induction over positions is done with
the least counterexample (`LeastNat`). There is a lemma per action; `Inductive`
puts them together, and with `Initially` gives `Invariance`.

`TimesProofs` proves the three invariants of the run `times`, for every length
of a second, every clock and every number of searches. Their conjunction is
inductive; the arithmetic is in `DiffClose`, `Divided` and `SumClose`. Assumed
are a positive second and a positive number of iterations. The theorems bound
what the two functions get wrong; they do not say they are right (finding 6).

`LinkedListProofs` proves for every finite set of nodes, every set of iterators,
of values and of indices and whatever the allocator refuses:

* `TypeCorrect`, `ListSafe` and `IteratorsSafe`: the links, `head`, `tail` and
  `len` describe one sequence of exactly the nodes held, and iterators in use
  are on nodes of it;
* `NoCrash`, that no pointer a call follows or frees is NULL or dangling, if the
  allocator provides nodes and iterators (`Provided`; without it `create_node()`
  crashes) and no index reaches `UINT_MAX` (`Fits`; without it, finding 1);
* `IteratorsExact` (the action property `IteratorsKeepStep`), with `Fits`;
* `Refinement`: with `Fits`, and a value to store, `LinkedList` implements
  `ListSpec`: after every call the sequence of the values and the answer are
  those `linked_list.h` promises.

Assumed of the constants: there are no more than `UINT_MAX` nodes, an unsigned
int is at least one bit wide and no wider than a `size_t`, NULL and Garbage are
neither nodes nor iterators. The inductive invariant is
`TypeOK /\ Listed /\ IteratorsOnNodes`. `Listed` says that, while there is a
list, the chain from its head is its order (`IsOrder`): each node held once, with
`head`, `tail` and both directions of pointers as the order has them. The lemmas
are about any sequence that is the order of a list: an insertion puts a node at
a position (`Put`, `PutOrder`), a removal takes one away (`Taken`,
`TakenOrder`), and of each way to link or unlink one lemma says at which
position it does so. Walking is related to the order by `Forward` and
`Backward`, from which follow that a traversal ends at its index
(`TraverseInside`) and that whatever is the order is the chain (`ChainIs`), so
that the order after a step is again the chain from the head (`ListNext`).

`QueueProofs` proves, for every finite set of nodes and whatever is refused,
`TypeCorrect`, `LengthsSafe` (`LengthsAgree`), `NoLeak` (`NothingLeft`) and
`Refinement`: `Queue` implements `FifoSpec`, without conditions, as the queue
pops at index 0 only and creates no iterators. The list is an instance of
`LinkedListProofs`: its invariant is part of the one of the queue, its lemmas
say what a call does to the sequence of its values, and `FifoSpec` is read off
that sequence.

`SearchProofs` proves, for every finite graph and any series of searches,
`TypeCorrect`, `NothingIsForgotten`, `QueueStaysBounded`, and with the
condition that findings 2 and 3 call for (`Created`: what a creation of the
queue may give) `SearchCorrect`, that the answer is right in both directions. `NoPathMissed` needs no condition: whatever fails, FALSE is
never answered when there is a path. The inductive invariant: everything the
search sees is reached from `i` (`Sound`); every link of a marked row leads to a
node that is marked, has no links, is in the queue or is about to be pushed
(`Complete`); no node is in the queue more often than marked rows have links to
it that were pushed (`Bounded`, a count of pairs of row and position); and where
the program is says what the queue is (`Phases`). That a search that runs dry has
seen all there is is `NothingLeftToReach`: the nodes that marked rows link to are
then closed under links, so that `Reachable` adds nothing to them.
`CallsAreCounted` (`CallsCounted`) compares the counters of `malloc()` and `free()`
with the number of links of the marked rows. Its invariant, `Counted`, holds at
every statement: with memory, there were two calls of `malloc()` for the queue and
one per link pushed (`LinksPushed`, the links of the marked rows but those still to
be pushed), and the calls of `free()` lag behind by two and the length of the
queue.

`LoadingProofs` proves, for any file, any sizes of the chunks and whatever call
fails, and whatever the round at the end of the file finds in `i` and `j`,
`TypeCorrect`, `RowsHaveRoom` (`RowsFit`), `EveryRowFreed` (`AllFreed`),
`LinksStayInside` (`RowsInside`) and `RowsAreTheFile` (`RowsHoldTheFile`). Assumed is a chunk of
more than one cell (the code has 16): with one, a new row would be full before its
first link. The invariant has the types, when `rows` and `cells` are there (`Memory`), that a row grows when
its count meets a multiple of the chunk (`Grown`, for which `Multiples` does the
arithmetic of the remainders), and that there are no more rounds than tokens and one
(`Counted`). For `RowsInside` it also has,
for well-formed files, what text is left in each state (`Place`): that what
`fscanf()` finds are pairs of numbers of the file needs lemmas on what is left of
the concatenated lines when lines and tokens are taken away (`FlattenHead`,
`FromLine`, `MatchedNow`). `RowsAreTheFile` adds, in `Order`, that the end of the
file is met only when no text is left (`Ends`), and that the rows hold as many
links of the file as the text has lost (`InOrder`), to which the round at the end
of the file adds one (`OneMore`) or after which it goes `Beyond` the array. A row
holds its first links if each is at the place that the number of links before it
gives (`HoldsLinks`), so that a link more changes none of the others (`HoldsNext`);
`LinksLeft` says which link the text begins with.

`ListOnSlabProofs` proves, for any sizes of the three structs, any slab size
with room for each, any number of slabs and any values: `AllAccounted`
(`BlocksAccounted`), `SlabsReturned` (`AllReturned`), `EndsSafe`
(`EndsOnlyRefused`), `IteratorsSafe` (`IteratorsOnNodes`), `IteratorsExact`
(`IteratorsKeepStep`), and that the parts are what they are alone:
`Composition`, every behaviour is one of `SlabAllocator` and one of
`LinkedList`, and hence `Refinement`, it implements `MallocSpec` and `ListSpec`.
Assumed of the constants is what the two parts assume (`PartsAssumption`), and
of the clients that no index reaches `UINT_MAX` (`Fits`): with finding 1 there
would be an iterator without a node. The inductive invariant is that of the
slabs, that of the list, and `Owners`: the live blocks are those the list, its
nodes, its iterators and a deletion under way have (`Blocks`), and no two of
these are the same block (`Apart`). `Apart` is needed because the structs of a
list and of a node have the same size: a set of blocks would not show that one of
them is in use twice. A block that is served is fresh (`FreshIsApart`, from the
partition of the nodes of a slab), so it can be added; one that is given back was
live, so the allocator finds it (`GiveBackEffect`) and it goes from both sides
(`DropNode`, `DropIterator`, `DropFirst`); a deletion hands the blocks of the
list to `todo` (`Scrap`, for which the chain must meet every node). What a call
does to the pointers is not proved again: each lemma about a step cites that of
`LinkedListProofs` and that of `SlabAllocatorProofs`.

Model-checked only: `SearchesEnd` and `ReadingEnds`, which are liveness and out of
the provers' reach. Every invariant and every action property of a passing run is
a theorem. The findings are counterexamples and need no proof.

## Not modelled

* Byte addresses, alignment and the layout of headers: a pool is a set of nodes.
* The build with `FEATURE_MULTITHREADED`: no rule of the Makefile defines it, no
  program has a second thread, and nothing calls the function that initialises
  the mutex.
* The rest of `mmio.c`: writers and readers that no program here calls; lines
  longer than its buffers; numbers that do not fit an int.
* The test cases: each is one order of calls among all those that are checked.
* Percentages and other floating point output; the PMU code for ARM.
* The searches read their nodes from the file `nodes`: `Begin` takes any two.
* Registering other functions while blocks of the first are held.
* Use of a list, block or iterator after it was freed, and freeing twice.
* 2^32 insertions into one queue, where the lengths of list and queue differ.

## Plan

1. Done: all modules above, and proofs of all but `MatrixMarket`, which has
   operators only.
2. Next: what the operators of `MatrixMarket` return, as lemmas of their own; and
   the safety part of the two liveness properties, a measure that every step of a
   search and of the reading makes smaller.
