----------------------------- MODULE LinkedList -----------------------------
(***************************************************************************)
(* The doubly linked list of linked_list.c, its nodes as memory cells      *)
(* taken from and given back to the registered allocator, and the          *)
(* iterators on it.                                                        *)
(*                                                                         *)
(* One list is modelled: the functions keep no state of their own but the  *)
(* two allocator pointers.  A client holds the list or NULL and passes     *)
(* what it holds.  It uses an iterator only while the node it points to is *)
(* in the list (the code cannot tell), and that is what lost records.  The *)
(* contents of freed memory are Garbage.  A call that follows or frees a   *)
(* pointer which is not that of a node held ends the program (Following).  *)
(***************************************************************************)
EXTENDS Integers, Sequences, FiniteSets, Functions

CONSTANTS
  Node,        \* what the allocator may return for a node; the bound on len
  Iter,        \* and for an iterator
  Value,       \* the data a node can carry
  Index,       \* the size_t indices clients pass
  UIntMax,     \* UINT_MAX: the width of len and of traverse's index
  SizeMax,     \* SIZE_MAX
  MallocFails, \* what the allocator may refuse: "list", "node", "iterator"
  NULL, Garbage

ASSUME NodeAssumption ==
  /\ IsFiniteSet(Node) /\ NULL \notin Node /\ Garbage \notin Node /\ NULL # Garbage
  /\ NULL \notin [node : Node, index : Nat, data : Value \cup {Garbage}]

ASSUME NumberAssumption ==
  /\ UIntMax \in Nat \ {0} /\ Cardinality(Node) <= UIntMax
  /\ SizeMax \in Nat /\ UIntMax <= SizeMax /\ Index \subseteq 0..SizeMax

VARIABLES
  ll,               \* the client holds a list
  head, tail, len,  \* the fields of struct linked_list
  next, prev, data, \* the fields of struct node
  nodes,            \* the nodes held from the allocator
  iters,            \* the iterators: node, index and data of each
  lost,             \* those whose node was freed
  call, ret,        \* the last call, and what it returned
  crashed

list == <<ll, head, tail, len, next, prev, data, nodes>>
vars == <<list, iters, lost, call, ret, crashed>>

UInt(i) == i % (UIntMax + 1)
SizeT(i) == i % (SizeMax + 1)

Init ==
  /\ ll = FALSE
  /\ head = NULL /\ tail = NULL /\ len = 0
  /\ next = [n \in Node |-> Garbage]
  /\ prev = [n \in Node |-> Garbage]
  /\ data = [n \in Node |-> Garbage]
  /\ nodes = {}
  /\ iters = [it \in Iter |-> NULL]
  /\ lost = {}
  /\ call = [name |-> "none", at |-> 0] /\ ret = 0
  /\ crashed = FALSE

----------------------------------------------------------------------------
(* k steps from n along the pointers f, or as many as there are. *)
Along(f, n, k) ==
  LET at[i \in 0..k] == IF i = 0 THEN n
                        ELSE IF at[i - 1] \in Node THEN f[at[i - 1]] ELSE at[i - 1]
  IN at[k]

(* Variant: the way back starts one node too early. *)
TraverseFromTail(i) ==
  IF i = 0 THEN head
  ELSE IF i = UInt(len - 1) THEN tail
  ELSE IF i >= len THEN NULL
  ELSE IF i >= len \div 2 THEN Along(prev, tail, len - 2 - i)
  ELSE Along(next, next[head], i - 1)

(* linked_list_traverse_to_index(), from the nearer end, *)
Traverse(i) ==
  IF i = 0 THEN head
  ELSE IF i = UInt(len - 1) THEN tail
  ELSE IF i >= len THEN NULL
  ELSE IF i >= len \div 2 THEN Along(prev, prev[tail], len - 2 - i)
  ELSE Along(next, next[head], i - 1)

(* and the pointers it follows on the way, until one is NULL. *)
Walked(i) ==
  IF i = 0 \/ i = UInt(len - 1) \/ i >= len THEN {}
  ELSE IF i >= len \div 2
  THEN {tail} \cup ({Along(prev, tail, k) : k \in 1..len - 2 - i} \ {NULL})
  ELSE {head} \cup ({Along(next, head, k) : k \in 1..i - 1} \ {NULL})

Called(name, i, r) == call' = [name |-> name, at |-> i] /\ ret' = r

(* The call returns r and changes nothing. *)
Answer(name, i, r) == Called(name, i, r) /\ UNCHANGED <<list, iters, lost, crashed>>

Crash == crashed' = TRUE /\ UNCHANGED <<list, iters, lost, call, ret>>

(* The call follows the pointers of P, or frees what they point to. *)
Following(P, Effect) == IF P \subseteq nodes THEN Effect ELSE Crash

Create ==
  /\ ~ll
  /\ \/ /\ ll' = TRUE /\ head' = NULL /\ tail' = NULL /\ len' = 0
        /\ Called("create", 0, 1)
        /\ UNCHANGED <<next, prev, data, nodes, iters, lost, crashed>>
     \/ "list" \in MallocFails /\ Answer("create", 0, 0)

(* free() of the nodes of F: iterators on them must not be used again. *)
Freed(f, F) == [n \in Node |-> IF n \in F THEN Garbage ELSE f[n]]

FreeNodes(F) ==
  /\ nodes' = nodes \ F
  /\ data' = Freed(data, F)
  /\ lost' = lost \cup {it \in Iter : iters[it] # NULL /\ iters[it].node \in F}

(* What the next pointers reach from the head in k steps. *)
Reached(k) == {Along(next, head, j) : j \in 0..k} \ {NULL}

(* A walk that does not end comes to a node that it has freed. *)
Delete ==
  LET F == Reached(Cardinality(Node)) IN
  /\ ll
  /\ IF Along(next, head, Cardinality(Node)) # NULL THEN Crash
     ELSE Following(F, /\ FreeNodes(F)
                       /\ next' = Freed(next, F) /\ prev' = Freed(prev, F)
                       /\ ll' = FALSE /\ head' = NULL
                       /\ Called("delete", 0, 1)
                       /\ UNCHANGED <<tail, len, iters, crashed>>)

----------------------------------------------------------------------------
(* Variant: the data is not stored. *)
CreateNodeBlank(n, d, i) ==
  /\ nodes' = nodes \cup {n}
  /\ len' = UInt(len + 1)
  /\ Called("insert", i, 1)
  /\ UNCHANGED <<ll, data, iters, lost, crashed>>

(* What create_node() and an insertion of its node at position i do,       *)
(* whatever the links.                                                     *)
CreateNode(n, d, i) ==
  /\ nodes' = nodes \cup {n}
  /\ data' = [data EXCEPT ![n] = d]
  /\ len' = UInt(len + 1)
  /\ Called("insert", i, 1)
  /\ UNCHANGED <<ll, iters, lost, crashed>>

(* create_node() writes to what malloc() returned before any check. *)
CreateNodeFails == "node" \in MallocFails /\ Crash

LinkOnly(n) ==
  /\ head' = n /\ tail' = n
  /\ next' = [next EXCEPT ![n] = NULL]
  /\ prev' = [prev EXCEPT ![n] = NULL]

(* Variant: the new node does not point back. *)
LinkLastForward(n) ==
  /\ tail' = n
  /\ next' = [next EXCEPT ![n] = NULL, ![tail] = n]
  /\ prev' = [prev EXCEPT ![n] = NULL]
  /\ UNCHANGED head

LinkLast(n) ==
  /\ tail' = n
  /\ next' = [next EXCEPT ![n] = NULL, ![tail] = n]
  /\ prev' = [prev EXCEPT ![n] = tail]
  /\ UNCHANGED head

LinkFirst(n) ==
  /\ head' = n
  /\ next' = [next EXCEPT ![n] = head]
  /\ prev' = [prev EXCEPT ![n] = NULL, ![head] = n]
  /\ UNCHANGED tail

LinkBefore(n, c) ==
  /\ next' = [next EXCEPT ![n] = c, ![prev[c]] = n]
  /\ prev' = [prev EXCEPT ![n] = prev[c], ![c] = n]
  /\ UNCHANGED <<head, tail>>

InsertEnd(d) ==
  \/ CreateNodeFails
  \/ \E n \in Node \ nodes :
       IF head = NULL THEN CreateNode(n, d, len) /\ LinkOnly(n)
       ELSE Following({tail}, CreateNode(n, d, len) /\ LinkLast(n))

InsertFront(d) ==
  \/ CreateNodeFails
  \/ \E n \in Node \ nodes :
       IF head = NULL THEN CreateNode(n, d, 0) /\ LinkOnly(n)
       ELSE Following({head}, CreateNode(n, d, 0) /\ LinkFirst(n))

(* Neither end: in front of the node at the index. *)
InsertMiddle(i, d) ==
  LET current == Traverse(UInt(i)) IN
  Following(Walked(UInt(i)),
    IF current = NULL THEN Answer("insert", i, 0)
    ELSE \/ CreateNodeFails
         \/ \E n \in Node \ nodes :
              Following({current, prev[current]},
                        CreateNode(n, d, i) /\ LinkBefore(n, current)))

Insert(i, d) ==
  IF i = 0 THEN InsertFront(d)
  ELSE IF i = len THEN InsertEnd(d) ELSE InsertMiddle(i, d)

----------------------------------------------------------------------------
(* Variant: the head is read from the node just freed. *)
UnlinkOnlyLate ==
  /\ head' = Garbage
  /\ next' = Freed(next, {head}) /\ prev' = Freed(prev, {head})
  /\ UNCHANGED tail

UnlinkOnly ==
  /\ head' = NULL
  /\ next' = Freed(next, {head}) /\ prev' = Freed(prev, {head})
  /\ UNCHANGED tail

UnlinkHead ==
  /\ head' = next[head]
  /\ next' = Freed(next, {head})
  /\ prev' = Freed([prev EXCEPT ![next[head]] = NULL], {head})
  /\ UNCHANGED tail

(* Variant: the tail stays. *)
UnlinkTailStays ==
  /\ next' = Freed([next EXCEPT ![prev[tail]] = NULL], {tail})
  /\ prev' = Freed(prev, {tail})
  /\ UNCHANGED <<head, tail>>

UnlinkTail ==
  /\ tail' = prev[tail]
  /\ next' = Freed([next EXCEPT ![prev[tail]] = NULL], {tail})
  /\ prev' = Freed(prev, {tail})
  /\ UNCHANGED head

UnlinkBody(c) ==
  /\ next' = Freed([next EXCEPT ![prev[c]] = next[c]], {c})
  /\ prev' = Freed([prev EXCEPT ![next[c]] = prev[c]], {c})
  /\ UNCHANGED <<head, tail>>

RemoveNode(i, c) ==
  /\ FreeNodes({c})
  /\ len' = UInt(len - 1)
  /\ Called("remove", i, 1)
  /\ UNCHANGED <<ll, iters, crashed>>

RemoveMiddle(i) ==
  LET c == Traverse(UInt(i)) IN
  Following(Walked(UInt(i)),
    IF c = NULL THEN Answer("remove", i, 0)
    ELSE Following({c}, Following({prev[c], next[c]}, UnlinkBody(c) /\ RemoveNode(i, c))))

Remove(i) ==
  IF i >= len THEN Answer("remove", i, 0)
  ELSE IF len = 1 THEN Following({head}, UnlinkOnly /\ RemoveNode(i, head))
  ELSE IF i = 0
  THEN Following({head}, Following({next[head]}, UnlinkHead /\ RemoveNode(i, head)))
  ELSE IF i = len - 1
  THEN Following({tail}, Following({prev[tail]}, UnlinkTail /\ RemoveNode(i, tail)))
  ELSE RemoveMiddle(i)

Size == Answer("size", 0, len)

(* The walk stops at the first node that holds d. *)
Find(d) ==
  LET At == {k \in 0..Cardinality(Node) :
               Along(next, head, k) \in Node /\ data[Along(next, head, k)] = d}
      First == CHOOSE k \in At : \A j \in At : k <= j
  IN IF At = {}
     THEN Following(Reached(Cardinality(Node)), Answer("find", 0, SizeMax))
     ELSE Following(Reached(First), Answer("find", 0, First))

----------------------------------------------------------------------------
(* Iterators.  Like create_node(), the creation does not check what        *)
(* malloc() returned.  Where the node it found was freed, it may be        *)
(* noticed or not that data is read from there.                            *)
CreateIterator(i) ==
  LET current == Traverse(UInt(i)) IN
  Following(Walked(UInt(i)),
    IF current = NULL THEN Answer("iterator", i, 0)
    ELSE \/ "iterator" \in MallocFails /\ Crash
         \/ current \notin nodes /\ Crash
         \/ \E it \in {x \in Iter : iters[x] = NULL} :
              /\ iters' = [iters EXCEPT ![it] =
                             [node |-> current, index |-> i, data |-> data[current]]]
              /\ lost' = IF current \in nodes THEN lost ELSE lost \cup {it}
              /\ Called("iterator", i, 1)
              /\ UNCHANGED <<list, crashed>>)

DeleteIterator(it) ==
  /\ iters[it] # NULL
  /\ iters' = [iters EXCEPT ![it] = NULL]
  /\ lost' = lost \ {it}
  /\ Called("delete_iterator", 0, 1)
  /\ UNCHANGED <<list, crashed>>

(* Variant: the data of the previous node stays. *)
AdvancedStale(p) ==
  [node |-> next[p.node], index |-> SizeT(p.index + 1), data |-> p.data]

(* Variant: the index stays. *)
AdvancedInPlace(p) ==
  [node |-> next[p.node], index |-> p.index, data |-> data[next[p.node]]]

Advanced(p) ==
  [node |-> next[p.node], index |-> SizeT(p.index + 1), data |-> data[next[p.node]]]

Iterate(it) ==
  /\ iters[it] # NULL /\ it \notin lost
  /\ Following({iters[it].node},
       IF next[iters[it].node] = NULL THEN Answer("iterate", 0, 0)
       ELSE Following({next[iters[it].node]},
              /\ iters' = [iters EXCEPT ![it] = Advanced(@)]
              /\ Called("iterate", 0, 1)
              /\ UNCHANGED <<list, lost, crashed>>))

(* INVALID_PTR_CHECK: every call on NULL, for want of a list. *)
CallOnNull ==
  \/ Answer("delete", 0, 0)
  \/ Answer("size", 0, SizeMax)
  \/ Answer("find", 0, SizeMax)
  \/ \E i \in Index : Answer("insert", i, 0)
  \/ \E i \in Index : Answer("remove", i, 0)
  \/ \E i \in Index : Answer("iterator", i, 0)

(* The same for want of an iterator. *)
CallOnNullIterator ==
  \/ Answer("delete_iterator", 0, 0)
  \/ Answer("iterate", 0, 0)

CallOnList ==
  \/ Delete
  \/ Size
  \/ \E d \in Value : InsertEnd(d)
  \/ \E d \in Value : InsertFront(d)
  \/ \E i \in Index, d \in Value : Insert(i, d)
  \/ \E i \in Index : Remove(i)
  \/ \E d \in Value : Find(d)
  \/ \E i \in Index : CreateIterator(i)

Next ==
  /\ ~crashed
  /\ \/ Create
     \/ ~ll /\ CallOnNull
     \/ ll /\ CallOnList
     \/ CallOnNullIterator
     \/ \E it \in Iter : Iterate(it)
     \/ \E it \in Iter : DeleteIterator(it)

Spec == Init /\ [][Next]_vars
----------------------------------------------------------------------------
(* Properties. *)

CallName ==
  {"none", "create", "delete", "size", "insert", "remove", "find", "iterator",
   "delete_iterator", "iterate"}

(* The fields keep the types of linked_list.h:57-81, and what a call       *)
(* returns is a bool or a size_t.                                          *)
TypeOK ==
  /\ {ll, crashed} \subseteq BOOLEAN
  /\ {head, tail} \subseteq Node \cup {NULL}
  /\ len \in 0..UIntMax
  /\ next \in [Node -> Node \cup {NULL, Garbage}]
  /\ prev \in [Node -> Node \cup {NULL, Garbage}]
  /\ data \in [Node -> Value \cup {Garbage}]
  /\ nodes \subseteq Node
  /\ iters \in [Iter -> [node : Node, index : 0..SizeMax, data : Value \cup {Garbage}]
                          \cup {NULL}]
  /\ lost \subseteq Iter
  /\ call \in [name : CallName, at : Nat]
  /\ ret \in 0..SizeMax

Chain == [i \in 1..len |-> Along(next, head, i - 1)]

(* The nodes held are those of the list, each once; head, tail, len and    *)
(* both directions of pointers agree; an emptied list may keep a dangling  *)
(* tail (linked_list.c:221-227).  Without a list no node is held.          *)
WellLinked ==
  IF ~ll THEN nodes = {}
  ELSE /\ IsInjective(Chain)
       /\ Range(Chain) = nodes
       /\ head = IF len = 0 THEN NULL ELSE Chain[1]
       /\ len > 0 => tail = Chain[len]
       /\ \A i \in 1..len :
            /\ next[Chain[i]] = IF i = len THEN NULL ELSE Chain[i + 1]
            /\ prev[Chain[i]] = IF i = 1 THEN NULL ELSE Chain[i - 1]

InUse == {it \in Iter : iters[it] # NULL /\ it \notin lost}

(* The data an iterator in use shows is that of a node of the list, over   *)
(* every insertion and removal elsewhere (linked_list.c:288-298).          *)
IteratorsOnNodes ==
  \A it \in InUse : iters[it].node \in nodes /\ iters[it].data = data[iters[it].node]

(* How far the index of an iterator is from the position of its node. *)
Drift(it) ==
  LET p == iters[it] IN
  SizeT(p.index - (CHOOSE i \in 1..len : Chain[i] = p.node) + 1)

(* A new iterator is at its index, and while the list is left alone its    *)
(* index moves with its node (linked_list.c:263-298).                      *)
IteratorsKeepStep ==
  [][ \A it \in Iter :
        /\ iters[it] = NULL /\ iters'[it] # NULL => Drift(it)' = 0
        /\ (it \in InUse /\ iters'[it] # iters[it] /\ iters'[it] # NULL)
             => Drift(it)' = Drift(it) ]_vars

(* No call follows NULL or a dangling pointer, be it head, tail or a link  *)
(* met on the way: what a removal or an insertion leaves behind is good    *)
(* for every later call (linked_list.c:47-84, 98-117, 138-298).            *)
NeverCrashes == ~crashed

(* The list behaves as a sequence, call by call. *)
Elem(n) == IF n \in Node THEN data[n] ELSE Garbage
Contents == IF ll THEN [i \in 1..len |-> Elem(Along(next, head, i - 1))] ELSE <<>>

Promise == INSTANCE ListSpec WITH exists <- ll, seq <- Contents
ImplementsList == Promise!Spec

(* linked_list_test_program.c:221 fails when an iterator is created for an *)
(* empty list.  The code creates one when the list was emptied and the     *)
(* index, cut to an unsigned int, is len - 1 = UINT_MAX (lines 54-55).     *)
NoIteratorOnEmptyList ==
  [][ \A it \in Iter : iters[it] = NULL /\ iters'[it] # NULL => len > 0 ]_vars
=============================================================================
