------------------------------- MODULE Search -------------------------------
(***************************************************************************)
(* The searches of queue_performance.c: main() asks again and again        *)
(* whether a path leads from node i to node j, breadth_first_search()      *)
(* answers with a queue that it creates, fills and deletes, and the marks  *)
(* it leaves in the rows are cleared before the next search.               *)
(*                                                                         *)
(* The queue is the one queue.h promises (FifoSpec, which module Queue     *)
(* implements); what queue_pop() writes to is next_node.  The row of a     *)
(* node without links is NULL in the code and empty here.                  *)
(***************************************************************************)
EXTENDS Integers, Sequences, FiniteSets, SequencesExt

CONSTANTS
  Id,        \* the nodes of the graph: the indices of rows[]
  MaxDegree, \* the bound on the size of a row
  SizeMax,   \* SIZE_MAX
  Created    \* what queue_create() may leave: see state in FifoSpec

ASSUME GraphAssumption == IsFiniteSet(Id) /\ MaxDegree \in Nat

ASSUME CreatedAssumption == Created \subseteq {"none", "ready", "unusable"}

ASSUME SizeAssumption == SizeMax \in Nat \ {0}

VARIABLES
  rows,                    \* rows[n]->adjacent_nodes, as loaded
  visited,                 \* rows[n]->visited
  i, j,                    \* the nodes a search is about
  next_node, found_path,   \* the locals of breadth_first_search()
  node,                    \* the neighbours of the row pushed so far
  state, queue, call, ret, \* the queue
  pc,                      \* the next statement
  answer,                  \* what the last search returned
  malloc_invocations,      \* the calls of instrumented_malloc()
  free_invocations         \* and instrumented_free(), through the queue

graph == <<rows, i, j>>
counts == <<malloc_invocations, free_invocations>>
fifo == <<state, queue, next_node, call, ret>>
vars == <<graph, visited, found_path, node, fifo, pc, answer, counts>>

Fifo == INSTANCE FifoSpec WITH Value <- Id, out <- next_node

Init ==
  /\ rows \in [Id -> BoundedSeq(Id, MaxDegree)]
  /\ visited = [n \in Id |-> FALSE]
  /\ i \in Id /\ j = i /\ next_node = i
  /\ found_path = FALSE /\ node = 0
  /\ state = "none" /\ queue = <<>> /\ call = "none" /\ ret = 0
  /\ pc = "idle" /\ answer = FALSE
  /\ malloc_invocations = 0 /\ free_invocations = 0

Allocates(n) == malloc_invocations' = malloc_invocations + n /\ UNCHANGED free_invocations
Frees(n) == free_invocations' = free_invocations + n /\ UNCHANGED malloc_invocations

----------------------------------------------------------------------------
(* main() reads two nodes and calls breadth_first_search(), whose locals   *)
(* are new: a queue that an earlier call did not delete is out of reach.   *)
Begin(from, to) ==
  /\ pc = "idle" /\ pc' = "create"
  /\ i' = from /\ j' = to
  /\ next_node' = from /\ found_path' = FALSE /\ node' = 0
  /\ state' = "none" /\ queue' = <<>>
  /\ UNCHANGED <<rows, visited, call, ret, answer, counts>>

(* The queue and its list; the list is not asked for without a queue. *)
Create ==
  /\ pc = "create" /\ pc' = "visit"
  /\ Fifo!Create /\ state' \in Created
  /\ Allocates(IF state' = "none" THEN 1 ELSE 2)
  /\ UNCHANGED <<graph, visited, found_path, node, answer>>

(* Variant: the row is not marked. *)
MarkNone(n) == UNCHANGED visited

Mark(n) == visited' = [visited EXCEPT ![n] = TRUE]

(* The head of the loop: found, a row to scan, or none. *)
Visit ==
  /\ pc = "visit"
  /\ \/ found_path /\ pc' = "delete" /\ UNCHANGED <<visited, node>>
     \/ /\ ~found_path /\ (rows[next_node] = <<>> \/ visited[next_node])
        /\ pc' = "pop" /\ UNCHANGED <<visited, node>>
     \/ /\ ~found_path /\ rows[next_node] # <<>> /\ ~visited[next_node]
        /\ Mark(next_node)
        /\ node' = 0
        /\ pc' = "push"
  /\ UNCHANGED <<graph, found_path, fifo, answer, counts>>

(* Variant: the last neighbour is left out. *)
LastNeighbour == node + 1 >= Len(rows[next_node])

RowDone == node >= Len(rows[next_node])

(* Variant: every other neighbour is left out. *)
SkipOne == node + 2

NextNeighbour == node + 1

(* One neighbour of the row.  When it cannot be pushed, the search returns *)
(* 1 at once.                                                              *)
PushNeighbour ==
  LET neighbour == rows[next_node][node + 1] IN
  /\ pc = "push" /\ ~RowDone
  /\ found_path' = (found_path \/ neighbour = j)
  /\ Fifo!Push(neighbour)
  /\ Allocates(ret')
  /\ \/ ret' = 1 /\ node' = NextNeighbour /\ UNCHANGED <<pc, answer>>
     \/ ret' = 0 /\ pc' = "return" /\ answer' = TRUE /\ UNCHANGED node
  /\ UNCHANGED <<graph, visited>>

PushDone ==
  /\ pc = "push" /\ RowDone /\ pc' = "pop"
  /\ UNCHANGED <<graph, visited, found_path, node, fifo, answer, counts>>

(* Variant: an empty queue does not end the loop. *)
LoopOn(popped) == "visit"

AfterPop(popped) == IF popped = 1 THEN "visit" ELSE "delete"

Pop ==
  /\ pc = "pop"
  /\ Fifo!Pop
  /\ Frees(ret')
  /\ pc' = AfterPop(ret')
  /\ UNCHANGED <<graph, visited, found_path, node, answer>>

Return ==
  /\ pc = "delete" /\ pc' = "return"
  /\ Fifo!Delete
  /\ Frees(CASE state = "none" -> 0
             [] state = "unusable" -> 1
             [] state = "ready" -> Len(queue) + 2)
  /\ answer' = found_path
  /\ UNCHANGED <<graph, visited, found_path, node>>

(* Variant: the marks stay. *)
KeepMarks == UNCHANGED visited

ClearMarks == visited' = [n \in Id |-> FALSE]

(* Variant: the calls of all searches are counted. *)
KeepCounts == UNCHANGED counts

ClearCounts == malloc_invocations' = 0 /\ free_invocations' = 0

Clear ==
  /\ pc = "return" /\ pc' = "idle"
  /\ ClearMarks
  /\ ClearCounts
  /\ UNCHANGED <<graph, found_path, node, fifo, answer>>

Step ==
  \/ Create \/ Visit \/ PushNeighbour \/ PushDone \/ Pop \/ Return \/ Clear

Next == Step \/ \E from, to \in Id : Begin(from, to)

(* A single thread: a search that has begun goes on. *)
Spec == Init /\ [][Next]_vars /\ WF_vars(Step)
----------------------------------------------------------------------------
(* Properties. *)

(* The state keeps the types of breadth_first_search(), and the loop over *)
(* a row ends at its size (queue_performance.c:120).                       *)
TypeOK ==
  /\ rows \in [Id -> Seq(Id)]
  /\ visited \in [Id -> BOOLEAN]
  /\ {i, j, next_node} \subseteq Id
  /\ {found_path, answer} \subseteq BOOLEAN
  /\ node \in Nat /\ (pc = "push" => node <= Len(rows[next_node]))
  /\ state \in {"none", "ready", "unusable"} /\ queue \in Seq(Id)
  /\ call \in {"none", "create", "delete", "push", "pop"} /\ ret \in 0..SizeMax
  /\ {malloc_invocations, free_invocations} \subseteq Nat
  /\ pc \in {"idle", "create", "visit", "push", "pop", "delete", "return"}

(* The nodes that links lead to from the nodes of S, *)
Linked(S) == UNION {ToSet(rows[n]) : n \in S}

(* and those that any number of links, at least one, lead to from n: the   *)
(* least set with the links of n that keeps to itself.                     *)
Reachable(n) ==
  {m \in Id : \A S \in SUBSET Id :
                (Linked({n}) \subseteq S /\ Linked(S) \subseteq S) => m \in S}

(* A search answers TRUE exactly if a path of one link or more leads from  *)
(* i to j, whatever searches came before (queue_performance.c:97-156).     *)
AnswersAreRight == pc = "return" => (answer <=> j \in Reachable(i))

Marked == {n \in Id : visited[n]}

(* What is left to look at when the loop goes on. *)
Frontier ==
  ToSet(queue) \cup (IF pc \in {"create", "visit"} THEN {next_node} ELSE {})
    \cup (IF pc = "push"
          THEN ToSet(SubSeq(rows[next_node], node + 1, Len(rows[next_node]))) ELSE {})

(* No link is forgotten: as long as j was not found, every node that a     *)
(* marked row links to is marked, has no links or is still to be looked at,*)
(* and j is not among those seen.                                          *)
NothingForgotten ==
  pc \in {"visit", "push", "pop"} /\ ~found_path
    => /\ Linked(Marked) \subseteq Marked \cup {n \in Id : rows[n] = <<>>} \cup Frontier
       /\ j \notin ToSet(queue)

(* The links of the rows of S, each a row and a position in it. *)
Links(S) == {p \in S \X (1..MaxDegree) : p[2] <= Len(rows[p[1]])}

(* A row is pushed once per search: the queue never holds more values than *)
(* the marked rows have links (lines 110-117).                             *)
QueueBounded ==
  pc # "idle" => \A n \in Id :
    Cardinality({k \in 1..Len(queue) : queue[k] = n})
      <= Cardinality({p \in Links(Marked) : rows[p[1]][p[2]] = n})

(* The numbers of calls that are printed are those of this search alone:   *)
(* with memory, one malloc() for each link of the rows it scanned and two  *)
(* for the queue, and a free() for each of them (lines 143, 152, 381-382). *)
CallsCounted ==
  Created = {"ready"} /\ pc = "return" =>
    /\ malloc_invocations = 2 + Cardinality(Links(Marked))
    /\ free_invocations = malloc_invocations

(* Every search ends, on every graph. *)
SearchesEnd == pc = "create" ~> pc = "idle"

(* main() says "Path found." (line 348) when a search returns TRUE; the    *)
(* search also returns 1 when it cannot push (lines 128-131).              *)
PathFoundMeansAPath == pc = "return" /\ answer => j \in Reachable(i)
=============================================================================
