---------------------------- MODULE SearchProofs ----------------------------
(***************************************************************************)
(* The searches answer correctly, for every finite graph and any series of *)
(* searches.                                                               *)
(*                                                                         *)
(* Soundness: what a search sees is reached from i by links.  Completeness:*)
(* a link of a marked row leads to a node that is marked, has no links or  *)
(* is still to be looked at; when nothing is left to look at, the nodes    *)
(* the marked rows link to keep to themselves, and j is not one of them.   *)
(***************************************************************************)
EXTENDS Search, FiniteSetTheorems, SequenceTheorems, TLAPS

Looping == {"visit", "push", "pop", "delete"}

Rowless == {n \in Id : rows[n] = <<>>}

(* The part of the row that is not pushed yet. *)
ToPush ==
  IF pc = "push" THEN {rows[next_node][x] : x \in node + 1..Len(rows[next_node])} ELSE {}

(* TypeOK, with the size of the rows. *)
Types == TypeOK /\ rows \in [Id -> BoundedSeq(Id, MaxDegree)]

(* Where the program is says what the queue and the marks are. *)
Phases ==
  /\ queue # <<>> => state = "ready"
  /\ pc \in {"idle", "create", "return"} => queue = <<>>
  /\ pc = "create" => state = "none" /\ next_node = i /\ ~found_path
  /\ pc \in Looping => state \in Created
  /\ pc \in {"idle", "return"} => state = "none" \/ (state = "unusable" /\ state \in Created)
  /\ pc \in {"idle", "create"} => \A n \in Id : ~visited[n]
  /\ pc = "push" => visited[next_node]

(* Everything a search sees is reached from i. *)
Sound ==
  pc # "idle" =>
    /\ next_node \in {i} \cup Reachable(i)
    /\ \A k \in 1..Len(queue) : queue[k] \in Reachable(i)
    /\ found_path => j \in Reachable(i)

(* What is still to be looked at, by position. *)
Pending ==
  ToPush \cup {queue[k] : k \in 1..Len(queue)}
    \cup (IF pc \in {"create", "visit"} THEN {next_node} ELSE {})

Accounted == Marked \cup Rowless \cup Pending

(* NothingForgotten, link by link, from the first statement of a search to *)
(* the last.                                                               *)
Complete ==
  pc \in {"create"} \cup Looping /\ ~found_path =>
    /\ i \in Accounted
    /\ \A n \in Marked : \A x \in 1..Len(rows[n]) : rows[n][x] \in Accounted
    /\ \A n \in Marked : \A x \in 1..Len(rows[n]) : rows[n][x] = j => j \in ToPush
    /\ \A k \in 1..Len(queue) : queue[k] # j
    /\ pc = "delete" => queue = <<>>

(* A search that answers FALSE is right; one that answers TRUE is, unless  *)
(* it could not push.                                                      *)
Answered ==
  pc = "return" =>
    /\ j \in Reachable(i) => answer
    /\ answer => j \in Reachable(i) \/ Created # {"ready"}

Copies(n) == {k \in 1..Len(queue) : queue[k] = n}

(* The links to n that were pushed. *)
Pushed(n) ==
  {p \in Marked \X (1..MaxDegree) :
     /\ p[2] <= Len(rows[p[1]]) /\ rows[p[1]][p[2]] = n
     /\ pc = "push" /\ p[1] = next_node => p[2] <= node}

Bounded == \A n \in Id : Cardinality(Copies(n)) <= Cardinality(Pushed(n))

Inv == Types /\ Phases /\ Sound /\ Complete /\ Answered /\ Bounded

----------------------------------------------------------------------------
(* Rows, and the links they hold. *)
LEMMA RowType ==
  ASSUME Types, NEW n \in Id
  PROVE  /\ Len(rows[n]) \in 0..MaxDegree /\ Len(rows[n]) \in Nat
         /\ rows[n] \in Seq(Id) /\ DOMAIN rows[n] = 1..Len(rows[n])
         /\ \A x \in 1..Len(rows[n]) : rows[n][x] \in Id
         /\ rows[n] = <<>> <=> Len(rows[n]) = 0
<1>1. rows[n] \in BoundedSeq(Id, MaxDegree)
  BY DEF Types
<1>2. PICK m \in 0..MaxDegree : rows[n] \in [1..m -> Id]
  BY <1>1 DEF BoundedSeq, SeqOf
<1>3. m \in Nat /\ m <= MaxDegree
  BY <1>2, GraphAssumption
<1>4. rows[n] \in Seq(Id) /\ Len(rows[n]) = m
  BY <1>2, <1>3
<1>5. rows[n] = <<>> <=> Len(rows[n]) = 0
  BY <1>4, EmptySeq
<1> QED
  BY <1>2, <1>3, <1>4, <1>5, GraphAssumption

LEMMA LinkedMember ==
  ASSUME Types, NEW S \in SUBSET Id, NEW m
  PROVE  m \in Linked(S) <=> \E n \in S : \E x \in 1..Len(rows[n]) : m = rows[n][x]
<1>1. \A n \in S : DOMAIN rows[n] = 1..Len(rows[n])
  BY RowType
<1> QED
  BY <1>1 DEF Linked, ToSet

(* Links lead from i, and from what is reached from i, to what is reached. *)
LEMMA ReachableStep ==
  ASSUME Types, NEW n \in {i} \cup Reachable(i), NEW x \in 1..Len(rows[n])
  PROVE  rows[n][x] \in Reachable(i)
<1>1. n \in Id /\ i \in Id
  BY DEF Types, TypeOK, Reachable
<1>2. rows[n][x] \in Id
  BY <1>1, RowType
<1>3. ASSUME NEW S \in SUBSET Id, Linked({i}) \subseteq S, Linked(S) \subseteq S
      PROVE  rows[n][x] \in S
  <2>1. CASE n = i
    <3>1. rows[n][x] \in Linked({i})
      BY <2>1, <1>1, LinkedMember
    <3> QED
      BY <3>1, <1>3
  <2>2. CASE n \in Reachable(i)
    <3>1. n \in S
      BY <2>2, <1>3 DEF Reachable
    <3>2. rows[n][x] \in Linked(S)
      BY <3>1, LinkedMember
    <3> QED
      BY <3>2, <1>3
  <2> QED
    BY <2>1, <2>2
<1> QED
  BY <1>2, <1>3 DEF Reachable

(* What a step leaves alone. *)
LEMMA SameReach ==
  ASSUME rows' = rows, i' = i
  PROVE  Reachable(i)' = Reachable(i)
  BY DEF Reachable, Linked, ToSet

(* The counting sets are finite, and an empty queue holds no copies. *)
LEMMA CountType ==
  ASSUME Types, NEW n \in Id
  PROVE  /\ IsFiniteSet(Copies(n)) /\ Cardinality(Copies(n)) \in Nat
         /\ IsFiniteSet(Pushed(n)) /\ Cardinality(Pushed(n)) \in Nat
         /\ queue = <<>> => Cardinality(Copies(n)) = 0
<1>1. Len(queue) \in Nat /\ (queue = <<>> => Len(queue) = 0)
  BY EmptySeq DEF Types, TypeOK
<1>2. IsFiniteSet(1..Len(queue)) /\ Copies(n) \in SUBSET (1..Len(queue))
  BY <1>1, FS_Interval DEF Copies
<1>3. IsFiniteSet(Marked)
  <2>1. Marked \in SUBSET Id
    BY DEF Marked
  <2> QED
    BY <2>1, GraphAssumption, FS_Subset
<1>4. IsFiniteSet(1..MaxDegree)
  BY GraphAssumption, FS_Interval
<1>5. IsFiniteSet(Marked \X (1..MaxDegree))
  BY <1>3, <1>4, FS_Product
<1>6. Pushed(n) \in SUBSET (Marked \X (1..MaxDegree))
  BY DEF Pushed
<1>7. IsFiniteSet(Copies(n)) /\ IsFiniteSet(Pushed(n))
  BY <1>2, <1>5, <1>6, FS_Subset
<1>8. queue = <<>> => Copies(n) = {}
  BY <1>1 DEF Copies
<1> QED
  BY <1>7, <1>8, FS_CardinalityType, FS_EmptySet

(* An empty queue is within every bound. *)
LEMMA EmptyBounded == Types /\ queue = <<>> => Bounded
<1> SUFFICES ASSUME Types, queue = <<>>, NEW n \in Id
             PROVE  Cardinality(Copies(n)) <= Cardinality(Pushed(n))
  BY DEF Bounded
<1> QED
  BY CountType

----------------------------------------------------------------------------
(* One lemma per action. *)
LEMMA Initially == Init => Inv
<1> SUFFICES ASSUME Init PROVE Inv
  OBVIOUS
<1>1. Types
  <2>1. rows \in [Id -> Seq(Id)]
    <3>1. \A m \in 0..MaxDegree : m \in Nat
      BY GraphAssumption
    <3>2. BoundedSeq(Id, MaxDegree) \subseteq Seq(Id)
      BY <3>1, SeqDef DEF BoundedSeq, SeqOf
    <3> QED
      BY <3>2 DEF Init
  <2>2. queue \in Seq(Id) /\ ret \in 0..SizeMax
    BY SizeAssumption, EmptySeq DEF Init
  <2>3. visited \in [Id -> BOOLEAN] /\ {i, j, next_node} \subseteq Id
    BY DEF Init
  <2>4. {found_path, answer} \subseteq BOOLEAN
    BY DEF Init
  <2>5. rows \in [Id -> BoundedSeq(Id, MaxDegree)]
    BY DEF Init
  <2>6. TypeOK
    BY <2>1, <2>2, <2>3, <2>4 DEF Init, TypeOK
  <2> QED
    BY <2>5, <2>6 DEF Types
<1>2. Bounded
  BY <1>1, EmptyBounded DEF Init
<1> QED
  BY <1>1, <1>2 DEF Init, Inv, Phases, Sound, Complete, Answered, Looping

LEMMA BeginStep ==
  ASSUME Inv, NEW from \in Id, NEW to \in Id, Begin(from, to)
  PROVE  Inv'
<1>1. Types'
  BY EmptySeq DEF Inv, Types, TypeOK, Begin, graph, counts
<1>2. Phases'
  BY DEF Inv, Phases, Begin, Looping, graph
<1>3. Sound'
  BY EmptySeq DEF Inv, Sound, Begin
<1>4. Complete'
  BY EmptySeq DEF Inv, Phases, Complete, Accounted, Pending, Marked, Begin, Looping
<1>5. Answered'
  BY DEF Answered, Begin
<1>6. Bounded'
  <2>1. (queue = <<>>)'
    BY DEF Begin
  <2> QED
    BY <1>1, <2>1, EmptyBounded, PTL
<1> QED
  BY <1>1, <1>2, <1>3, <1>4, <1>5, <1>6 DEF Inv

LEMMA CreateStep ==
  ASSUME Inv, Create
  PROVE  Inv'
<1>0. /\ pc = "create" /\ pc' = "visit" /\ state' \in Created /\ queue' = queue
      /\ UNCHANGED <<rows, visited, i, j, next_node, found_path, node, answer>>
  BY DEF Create, Fifo!Create, graph
<1>1. Types'
  <2>1. malloc_invocations' \in Nat /\ free_invocations' \in Nat
    BY DEF Inv, Types, TypeOK, Create, Allocates
  <2>2. call' \in {"none", "create"} /\ ret' \in 0..SizeMax
    BY SizeAssumption DEF Create, Fifo!Create, Fifo!Called
  <2> QED
    BY <1>0, <2>1, <2>2, CreatedAssumption DEF Inv, Types, TypeOK
<1>2. Phases'
  BY <1>0 DEF Inv, Phases, Looping
<1>3. Sound'
  BY <1>0, SameReach DEF Inv, Sound
<1>4. Complete'
  BY <1>0 DEF Inv, Complete, Accounted, Pending, ToPush, Rowless, Marked, Looping
<1>5. Answered'
  BY <1>0 DEF Answered
<1>6. (queue = <<>>)'
  BY <1>0 DEF Inv, Phases
<1>7. Bounded'
  BY <1>1, <1>6, EmptyBounded, PTL
<1> QED
  BY <1>1, <1>2, <1>3, <1>4, <1>5, <1>7 DEF Inv

LEMMA VisitStep ==
  ASSUME Inv, Visit
  PROVE  Inv'
<1>0. /\ pc = "visit"
      /\ UNCHANGED <<rows, i, j, next_node, found_path, queue, state, call, ret, answer,
                     malloc_invocations, free_invocations>>
  BY DEF Visit, graph, fifo, counts
<1>1. \/ found_path /\ pc' = "delete" /\ UNCHANGED <<visited, node>>
      \/ /\ ~found_path /\ (rows[next_node] = <<>> \/ visited[next_node])
         /\ pc' = "pop" /\ UNCHANGED <<visited, node>>
      \/ /\ ~found_path /\ rows[next_node] # <<>> /\ ~visited[next_node]
         /\ visited' = [visited EXCEPT ![next_node] = TRUE] /\ node' = 0 /\ pc' = "push"
  BY DEF Visit, Mark
<1>2. next_node \in Id /\ visited \in [Id -> BOOLEAN]
  BY DEF Inv, Types, TypeOK
<1>3. Len(rows[next_node]) \in Nat
  BY <1>2, RowType DEF Inv
<1>4. Types'
  <2>0. node \in Nat
    BY DEF Inv, Types, TypeOK
  <2>1. visited' \in [Id -> BOOLEAN] /\ node' \in Nat
    <3>1. [visited EXCEPT ![next_node] = TRUE] \in [Id -> BOOLEAN]
      BY <1>2
    <3>2. visited' = visited \/ visited' = [visited EXCEPT ![next_node] = TRUE]
      BY <1>1
    <3>3. node' = node \/ node' = 0
      BY <1>1
    <3>4. node' \in Nat
      BY <3>3, <2>0
    <3>5. CASE visited' = visited
      BY <3>4, <3>5, <1>2
    <3>6. CASE visited' = [visited EXCEPT ![next_node] = TRUE]
      BY <3>1, <3>4, <3>6
    <3> QED
      BY <3>2, <3>5, <3>6
  <2>2. pc' \in {"delete", "pop", "push"} /\ (pc' = "push" => node' <= Len(rows[next_node]))
    BY <1>1, <1>3
  <2> QED
    BY <2>1, <2>2, <1>0 DEF Inv, Types, TypeOK
<1>5. Phases'
  BY <1>0, <1>1, <1>2 DEF Inv, Phases, Looping
<1>6. Sound'
  BY <1>0, <1>1, SameReach DEF Inv, Sound
<1>7. Complete'
  <2>1. CASE pc' = "delete"
    BY <2>1, <1>0, <1>1 DEF Complete
  <2>2. CASE pc' = "pop"
    <3>1. Marked' = Marked /\ Rowless' = Rowless /\ ToPush = {} /\ ToPush' = {}
      BY <2>2, <1>0, <1>1 DEF Marked, Rowless, ToPush
    <3>2. next_node \in Marked \cup Rowless
      BY <2>2, <1>0, <1>1, <1>2 DEF Marked, Rowless
    <3>3. Accounted \subseteq Accounted'
      BY <2>2, <3>1, <3>2, <1>0 DEF Accounted, Pending
    <3> QED
      BY <2>2, <3>1, <3>3, <1>0, <1>1 DEF Inv, Complete, Looping
  <2>3. CASE pc' = "push"
    <3>1. Marked' = Marked \cup {next_node} /\ Rowless' = Rowless
      BY <2>3, <1>0, <1>1, <1>2 DEF Marked, Rowless
    <3>2. ToPush = {} /\ ToPush' = {rows[next_node][x] : x \in 1..Len(rows[next_node])}
      BY <2>3, <1>0, <1>1 DEF ToPush
    <3>3. Accounted \subseteq Accounted' /\ ToPush' \subseteq Accounted'
      BY <2>3, <3>1, <3>2, <1>0 DEF Accounted, Pending
    <3>4. /\ i \in Accounted
          /\ \A n \in Marked : \A x \in 1..Len(rows[n]) : rows[n][x] \in Accounted
          /\ \A n \in Marked : \A x \in 1..Len(rows[n]) : rows[n][x] = j => j \in ToPush
          /\ \A k \in 1..Len(queue) : queue[k] # j
      BY <2>3, <1>0, <1>1 DEF Inv, Complete, Looping
    <3>5. \A n \in Marked' : \A x \in 1..Len(rows[n]) :
            n \in Marked \/ rows[n][x] \in ToPush'
      BY <3>1, <3>2
    <3> QED
      BY <2>3, <3>2, <3>3, <3>4, <3>5, <1>0, <1>1 DEF Complete, Looping
  <2> QED
    BY <2>1, <2>2, <2>3, <1>1
<1>8. Answered'
  BY <1>0, <1>1 DEF Answered
<1>9. Bounded'
  <2>1. ASSUME NEW n \in Id PROVE Copies(n)' = Copies(n) /\ Pushed(n)' = Pushed(n)
    <3>1. Copies(n)' = Copies(n)
      BY <1>0 DEF Copies
    <3>2. Pushed(n)' = Pushed(n)
      <4>1. CASE pc' # "push"
        <5>1. Marked' = Marked
          BY <4>1, <1>0, <1>1 DEF Marked
        <5> QED
          BY <4>1, <5>1, <1>0 DEF Pushed
      <4>2. CASE pc' = "push"
        <5>1. Marked' = Marked \cup {next_node} /\ next_node \notin Marked /\ node' = 0
          BY <4>2, <1>0, <1>1, <1>2 DEF Marked
        <5>2. \A p \in Marked' \X (1..MaxDegree) : p[2] <= 0 <=> FALSE
          BY GraphAssumption
        <5> QED
          BY <4>2, <5>1, <5>2, <1>0 DEF Pushed
      <4> QED
        BY <4>1, <4>2
    <3> QED
      BY <3>1, <3>2
  <2> QED
    BY <2>1 DEF Inv, Bounded
<1> QED
  BY <1>4, <1>5, <1>6, <1>7, <1>8, <1>9 DEF Inv

(* A neighbour that is pushed is put behind what the queue holds. *)
LEMMA PushedStep ==
  ASSUME Inv, PushNeighbour, ret' = 1
  PROVE  Inv'
<1> DEFINE neighbour == rows[next_node][node + 1]
<1>0. /\ pc = "push" /\ pc' = "push" /\ node' = node + 1 /\ node < Len(rows[next_node])
      /\ found_path' = (found_path \/ neighbour = j)
      /\ queue' = Append(queue, neighbour) /\ state = "ready" /\ call' = "push"
      /\ UNCHANGED <<rows, i, j, visited, next_node, state, answer>>
  <2>1. pc = "push" /\ ~RowDone /\ node' = NextNeighbour /\ pc' = pc /\ answer' = answer
    BY DEF PushNeighbour
  <2>2. /\ found_path' = (found_path \/ neighbour = j) /\ Fifo!Push(neighbour)
        /\ UNCHANGED <<rows, i, j, visited>>
    BY DEF PushNeighbour, graph
  <2>3. /\ queue' = Append(queue, neighbour) /\ state = "ready" /\ call' = "push"
        /\ UNCHANGED <<state, next_node>>
    BY <2>2 DEF Fifo!Push, Fifo!Answer, Fifo!Called
  <2>4. node \in Nat /\ Len(rows[next_node]) \in Nat
    BY RowType DEF Inv, Types, TypeOK
  <2> QED
    BY <2>1, <2>2, <2>3, <2>4 DEF RowDone, NextNeighbour
<1>1. /\ next_node \in Id /\ node \in Nat /\ Len(rows[next_node]) \in 0..MaxDegree
      /\ node + 1 \in 1..Len(rows[next_node]) /\ neighbour \in Id /\ visited[next_node]
      /\ queue \in Seq(Id) /\ Len(queue) \in Nat
  <2>1. next_node \in Id /\ node \in Nat /\ queue \in Seq(Id) /\ Len(queue) \in Nat
    BY DEF Inv, Types, TypeOK
  <2>2. Len(rows[next_node]) \in 0..MaxDegree /\ Len(rows[next_node]) \in Nat
    BY <2>1, RowType DEF Inv
  <2>3. node + 1 \in 1..Len(rows[next_node])
    BY <2>1, <2>2, <1>0
  <2> QED
    BY <2>1, <2>2, <2>3, <1>0, RowType DEF Inv, Phases
<1> HIDE DEF neighbour
<1>2. /\ Len(queue') = Len(queue) + 1 /\ queue' \in Seq(Id) /\ queue' # <<>>
      /\ \A k \in 1..Len(queue) : queue'[k] = queue[k]
      /\ queue'[Len(queue) + 1] = neighbour
  BY <1>0, <1>1, AppendProperties
<1>3. \A k \in 1..Len(queue') : k \in 1..Len(queue) \/ k = Len(queue) + 1
  BY <1>1, <1>2
<1>4. Types'
  <2>1. malloc_invocations' \in Nat /\ free_invocations' \in Nat
    BY DEF Inv, Types, TypeOK, PushNeighbour, Allocates
  <2>2. found_path' \in BOOLEAN /\ node' \in Nat /\ node' <= Len(rows[next_node])
    BY <1>0, <1>1
  <2>3. ret' \in 0..SizeMax
    BY SizeAssumption
  <2> QED
    BY <2>1, <2>2, <2>3, <1>0, <1>2 DEF Inv, Types, TypeOK
<1>5. Phases'
  BY <1>0 DEF Inv, Phases, Looping
<1>6. Sound'
  <2>1. neighbour \in Reachable(i)
    BY <1>0, <1>1, ReachableStep DEF Inv, Sound, neighbour
  <2>2. \A k \in 1..Len(queue') : queue'[k] \in Reachable(i)
    BY <2>1, <1>0, <1>2, <1>3 DEF Inv, Sound
  <2>3. Reachable(i)' = Reachable(i)
    BY <1>0, SameReach
  <2> QED
    BY <2>1, <2>2, <2>3, <1>0 DEF Inv, Sound
<1>7. Complete'
  <2> SUFFICES ASSUME ~found_path, neighbour # j PROVE Complete'
    BY <1>0 DEF Complete
  <2>1. Marked' = Marked /\ Rowless' = Rowless
    BY <1>0 DEF Marked, Rowless
  <2>2. ToPush = ToPush' \cup {neighbour}
    BY <1>0, <1>1 DEF ToPush, neighbour
  <2>3. Accounted \subseteq Accounted'
    <3>1. neighbour \in {queue'[k] : k \in 1..Len(queue')}
      BY <1>1, <1>2
    <3>2. \A k \in 1..Len(queue) : queue[k] \in {queue'[h] : h \in 1..Len(queue')}
      BY <1>1, <1>2
    <3> QED
      BY <3>1, <3>2, <2>1, <2>2, <1>0 DEF Accounted, Pending
  <2>4. /\ i \in Accounted
        /\ \A n \in Marked : \A x \in 1..Len(rows[n]) : rows[n][x] \in Accounted
        /\ \A n \in Marked : \A x \in 1..Len(rows[n]) : rows[n][x] = j => j \in ToPush
        /\ \A k \in 1..Len(queue) : queue[k] # j
    BY <1>0 DEF Inv, Complete, Looping
  <2>5. \A k \in 1..Len(queue') : queue'[k] # j
    BY <2>4, <1>2, <1>3
  <2> QED
    BY <2>1, <2>2, <2>3, <2>4, <2>5, <1>0 DEF Complete
<1>8. Answered'
  BY <1>0 DEF Answered
<1>9. Bounded'
  <2> SUFFICES ASSUME NEW n \in Id
               PROVE  Cardinality(Copies(n)') <= Cardinality(Pushed(n)')
    BY DEF Bounded
  <2>1. Cardinality(Copies(n)) <= Cardinality(Pushed(n))
    BY DEF Inv, Bounded
  <2>2. Copies(n)' = IF neighbour = n THEN Copies(n) \cup {Len(queue) + 1} ELSE Copies(n)
    BY <1>1, <1>2 DEF Copies
  <2>3. Len(queue) + 1 \notin Copies(n)
    BY <1>1 DEF Copies
  <2>4. Marked' = Marked /\ next_node \in Marked
    BY <1>0, <1>1 DEF Marked
  <2>5. Pushed(n)' = IF neighbour = n THEN Pushed(n) \cup {<<next_node, node + 1>>}
                                      ELSE Pushed(n)
    <3> DEFINE link == <<next_node, node + 1>>
               Fits(p) == p[2] <= Len(rows[p[1]]) /\ rows[p[1]][p[2]] = n
    <3>1. link \in Marked \X (1..MaxDegree) /\ (Fits(link) <=> neighbour = n)
      BY <2>4, <1>1, GraphAssumption DEF neighbour
    <3>2. ASSUME NEW p \in Marked \X (1..MaxDegree)
          PROVE  (p[1] = next_node => p[2] <= node + 1)
                   <=> (p[1] = next_node => p[2] <= node) \/ p = link
      BY <1>1, GraphAssumption
    <3>3. Pushed(n) = {p \in Marked \X (1..MaxDegree) :
                         Fits(p) /\ (p[1] = next_node => p[2] <= node)}
      BY <1>0 DEF Pushed
    <3>4. Pushed(n)' = {p \in Marked \X (1..MaxDegree) :
                          Fits(p) /\ (p[1] = next_node => p[2] <= node + 1)}
      BY <1>0, <2>4 DEF Pushed
    <3> HIDE DEF link, Fits
    <3>5. Pushed(n)' = Pushed(n) \cup {p \in {link} : Fits(p)}
      BY <3>1, <3>2, <3>3, <3>4
    <3> QED
      BY <3>1, <3>5 DEF link
  <2>6. <<next_node, node + 1>> \notin Pushed(n)
    BY <1>0, <1>1 DEF Pushed
  <2>7. /\ IsFiniteSet(Copies(n)) /\ Cardinality(Copies(n)) \in Nat
        /\ IsFiniteSet(Pushed(n)) /\ Cardinality(Pushed(n)) \in Nat
    BY CountType DEF Inv
  <2>8. CASE neighbour = n
    <3>1. Cardinality(Copies(n)') = Cardinality(Copies(n)) + 1
      BY <2>8, <2>2, <2>3, <2>7, FS_AddElement
    <3>2. Cardinality(Pushed(n)') = Cardinality(Pushed(n)) + 1
      BY <2>8, <2>5, <2>6, <2>7, FS_AddElement
    <3> QED
      BY <3>1, <3>2, <2>1, <2>7
  <2>9. CASE neighbour # n
    BY <2>9, <2>1, <2>2, <2>5
  <2> QED
    BY <2>8, <2>9
<1> QED
  BY <1>4, <1>5, <1>6, <1>7, <1>8, <1>9 DEF Inv

(* A queue that cannot take a neighbour ends the search. *)
LEMMA NotPushedStep ==
  ASSUME Inv, PushNeighbour, ret' = 0
  PROVE  Inv'
<1>0. /\ pc = "push" /\ pc' = "return" /\ answer' = TRUE /\ node' = node
      /\ found_path' \in BOOLEAN
      /\ state # "ready" /\ call' = "push"
      /\ UNCHANGED <<rows, i, j, visited, next_node, state, queue>>
  <2>1. /\ pc = "push" /\ pc' = "return" /\ answer' = TRUE /\ node' = node
        /\ UNCHANGED <<rows, i, j, visited>>
    BY DEF PushNeighbour, graph
  <2>2. found_path' \in BOOLEAN
    BY DEF PushNeighbour
  <2>3. Fifo!Push(rows[next_node][node + 1])
    BY DEF PushNeighbour
  <2> QED
    BY <2>1, <2>2, <2>3 DEF Fifo!Push, Fifo!Answer, Fifo!Called
<1>1. state \in Created /\ (state = "none" \/ state = "unusable")
  BY <1>0 DEF Inv, Types, TypeOK, Phases, Looping
<1>2. queue = <<>>
  BY <1>0 DEF Inv, Phases
<1>3. Types'
  <2>1. malloc_invocations' \in Nat /\ free_invocations' \in Nat
    BY DEF Inv, Types, TypeOK, PushNeighbour, Allocates
  <2>2. ret' \in 0..SizeMax
    BY SizeAssumption
  <2> QED
    BY <2>1, <2>2, <1>0 DEF Inv, Types, TypeOK
<1>4. Phases'
  BY <1>0, <1>1, <1>2 DEF Phases, Looping
<1>5. Answered'
  BY <1>0, <1>1 DEF Answered
<1>6. Sound'
  <2>1. found_path' = (found_path \/ rows[next_node][node + 1] = j)
    BY DEF PushNeighbour
  <2>2. next_node \in Id /\ node \in Nat /\ node < Len(rows[next_node])
    <3>1. next_node \in Id /\ node \in Nat
      BY DEF Inv, Types, TypeOK
    <3>2. ~RowDone /\ Len(rows[next_node]) \in Nat
      BY <3>1, RowType DEF PushNeighbour, Inv
    <3> QED
      BY <3>1, <3>2 DEF RowDone
  <2>3. node + 1 \in 1..Len(rows[next_node])
    BY <2>2, RowType DEF Inv
  <2>4. rows[next_node][node + 1] \in Reachable(i)
    BY <2>3, <1>0, ReachableStep DEF Inv, Sound
  <2> QED
    BY <2>1, <2>4, <1>0, SameReach DEF Inv, Sound
<1>7. Complete'
  BY <1>0 DEF Complete, Looping
<1>8. Bounded'
  <2>1. (queue = <<>>)'
    BY <1>0, <1>2
  <2> QED
    BY <2>1, <1>3, EmptyBounded, PTL
<1> QED
  BY <1>3, <1>4, <1>5, <1>6, <1>7, <1>8 DEF Inv

LEMMA PushStep ==
  ASSUME Inv, PushNeighbour
  PROVE  Inv'
<1>1. ret' = 1 \/ ret' = 0
  BY DEF PushNeighbour
<1> QED
  BY <1>1, PushedStep, NotPushedStep

LEMMA PushDoneStep ==
  ASSUME Inv, PushDone
  PROVE  Inv'
<1>0. /\ pc = "push" /\ pc' = "pop" /\ node >= Len(rows[next_node])
      /\ UNCHANGED <<rows, i, j, visited, found_path, node, state, queue, next_node, call,
                     ret, answer, malloc_invocations, free_invocations>>
  BY DEF PushDone, RowDone, graph, fifo, counts
<1>1. next_node \in Id /\ node \in Nat /\ Len(rows[next_node]) \in Nat
  BY RowType DEF Inv, Types, TypeOK
<1>2. Types'
  BY <1>0 DEF Inv, Types, TypeOK
<1>3. Phases'
  BY <1>0 DEF Inv, Phases, Looping
<1>4. Sound'
  BY <1>0, SameReach DEF Inv, Sound
<1>5. Complete'
  <2>1. ToPush = {} /\ ToPush' = {} /\ Marked' = Marked /\ Rowless' = Rowless
    BY <1>0, <1>1 DEF ToPush, Marked, Rowless
  <2>2. Accounted' = Accounted
    BY <2>1, <1>0 DEF Accounted, Pending
  <2> QED
    BY <2>1, <2>2, <1>0 DEF Inv, Complete, Looping
<1>6. Answered'
  BY <1>0 DEF Answered
<1>7. Bounded'
  <2>1. ASSUME NEW n \in Id PROVE Copies(n)' = Copies(n) /\ Pushed(n)' = Pushed(n)
    <3>1. Marked' = Marked
      BY <1>0 DEF Marked
    <3>2. ASSUME NEW p \in Marked \X (1..MaxDegree), p[1] = next_node, p[2] <= Len(rows[p[1]])
          PROVE  p[2] <= node
      BY <3>2, <1>0, <1>1, GraphAssumption
    <3> QED
      BY <3>1, <3>2, <1>0 DEF Copies, Pushed
  <2> QED
    BY <2>1 DEF Inv, Bounded
<1> QED
  BY <1>2, <1>3, <1>4, <1>5, <1>6, <1>7 DEF Inv

(* The value popped becomes next_node; without one the loop ends. *)
LEMMA PopStep ==
  ASSUME Inv, Pop
  PROVE  Inv'
<1>0. /\ pc = "pop" /\ pc' = AfterPop(ret') /\ Fifo!Pop
      /\ UNCHANGED <<rows, i, j, visited, found_path, node, answer>>
  BY DEF Pop, graph
<1>1. queue \in Seq(Id) /\ Len(queue) \in Nat
  BY DEF Inv, Types, TypeOK
<1>2. malloc_invocations' \in Nat /\ free_invocations' \in Nat
  <2>1. ret' \in {0, 1}
    BY <1>0 DEF Fifo!Pop, Fifo!Answer, Fifo!Called
  <2> QED
    BY <2>1 DEF Inv, Types, TypeOK, Pop, Frees
<1>3. CASE queue = <<>>
  <2>1. pc' = "delete" /\ ret' = 0 /\ call' = "pop" /\ UNCHANGED <<state, queue, next_node>>
    BY <1>3, <1>0 DEF Fifo!Pop, Fifo!Answer, Fifo!Called, AfterPop
  <2>2. Types'
    <3>1. ret' \in 0..SizeMax
      BY <2>1, SizeAssumption
    <3> QED
      BY <3>1, <2>1, <1>0, <1>2 DEF Inv, Types, TypeOK
  <2>3. Phases' /\ Answered'
    BY <2>1, <1>0 DEF Inv, Phases, Looping, Answered
  <2>4. Sound'
    BY <2>1, <1>0, SameReach DEF Inv, Sound
  <2>5. Complete'
    <3>1. ToPush = {} /\ ToPush' = {} /\ Marked' = Marked /\ Rowless' = Rowless
      BY <2>1, <1>0 DEF ToPush, Marked, Rowless
    <3>2. Accounted' = Accounted
      BY <3>1, <2>1, <1>0 DEF Accounted, Pending
    <3> QED
      BY <3>1, <3>2, <2>1, <1>0, <1>3 DEF Inv, Complete, Looping
  <2>6. Bounded'
    <3>1. (queue = <<>>)'
      BY <1>3, <2>1
    <3> QED
      BY <3>1, <2>2, EmptyBounded, PTL
  <2> QED
    BY <2>2, <2>3, <2>4, <2>5, <2>6 DEF Inv
<1>4. CASE queue # <<>>
  <2>1. /\ pc' = "visit" /\ ret' = 1 /\ call' = "pop" /\ state' = state
        /\ next_node' = Head(queue) /\ queue' = Tail(queue)
    BY <1>4, <1>0 DEF Fifo!Pop, Fifo!Answer, Fifo!Called, AfterPop
  <2>2. /\ Len(queue) >= 1 /\ Head(queue) = queue[1] /\ Head(queue) \in Id
        /\ queue' \in Seq(Id) /\ Len(queue') = Len(queue) - 1
        /\ \A k \in 1..Len(queue') : queue'[k] = queue[k + 1]
    <3>1. Len(queue) # 0
      BY <1>1, <1>4, EmptySeq, SeqEqual
    <3> QED
      BY <3>1, <1>1, <1>4, <2>1, HeadTailProperties
  <2>3. Types'
    <3>1. ret' \in 0..SizeMax
      BY <2>1, SizeAssumption
    <3> QED
      BY <3>1, <2>1, <2>2, <1>0, <1>2 DEF Inv, Types, TypeOK
  <2>4. Phases' /\ Answered'
    BY <2>1, <1>0, <1>4 DEF Inv, Phases, Looping, Answered
  <2>5. Sound'
    <3>1. queue[1] \in Reachable(i) /\ \A k \in 1..Len(queue') : queue'[k] \in Reachable(i)
      BY <1>0, <1>1, <2>2 DEF Inv, Sound
    <3> QED
      BY <3>1, <2>1, <2>2, <1>0, SameReach DEF Inv, Sound
  <2>6. Complete'
    <3>1. ToPush = {} /\ ToPush' = {} /\ Marked' = Marked /\ Rowless' = Rowless
      BY <2>1, <1>0 DEF ToPush, Marked, Rowless
    <3>2. ASSUME NEW k \in 1..Len(queue)
          PROVE  queue[k] = next_node' \/ \E h \in 1..Len(queue') : queue[k] = queue'[h]
      <4>1. k = 1 \/ (k - 1 \in 1..Len(queue') /\ k - 1 + 1 = k)
        BY <1>1, <2>2
      <4> QED
        BY <4>1, <2>1, <2>2
    <3>3. Accounted \subseteq Accounted'
      BY <3>1, <3>2, <2>1, <1>0 DEF Accounted, Pending
    <3>4. \A h \in 1..Len(queue') : h + 1 \in 1..Len(queue)
      BY <1>1, <2>2
    <3> QED
      BY <3>1, <3>3, <3>4, <2>1, <2>2, <1>0 DEF Inv, Complete, Looping
  <2>7. Bounded'
    <3> SUFFICES ASSUME NEW n \in Id
                 PROVE  Cardinality(Copies(n)') <= Cardinality(Pushed(n)')
      BY DEF Bounded
    <3>1. Pushed(n)' = Pushed(n)
      BY <2>1, <1>0 DEF Pushed, Marked
    <3>2. Cardinality(Copies(n)) <= Cardinality(Pushed(n))
      BY DEF Inv, Bounded
    <3>3. /\ IsFiniteSet(Copies(n)) /\ Cardinality(Copies(n)) \in Nat
          /\ Cardinality(Pushed(n)) \in Nat
      BY CountType DEF Inv
    <3> DEFINE shift == [k \in Copies(n)' |-> k + 1]
    <3>4. ASSUME NEW k \in Copies(n)' PROVE k \in Nat /\ k + 1 \in Copies(n)
      BY <1>1, <2>2 DEF Copies
    <3>5. shift \in Injection(Copies(n)', Copies(n))
      BY <3>4 DEF Injection, IsInjective
    <3>6. IsFiniteSet(Copies(n)') /\ Cardinality(Copies(n)') <= Cardinality(Copies(n))
      <4> HIDE DEF shift
      <4> QED
        BY <3>3, <3>5, FS_Injection
    <3>7. Cardinality(Copies(n)') \in Nat
      BY <3>6, FS_CardinalityType
    <3> QED
      BY <3>1, <3>2, <3>3, <3>6, <3>7
  <2> QED
    BY <2>3, <2>4, <2>5, <2>6, <2>7 DEF Inv
<1> QED
  BY <1>3, <1>4

(* When the loop ends without j, the nodes that the marked rows link to    *)
(* keep to themselves: nothing else is reached.                            *)
LEMMA NothingLeftToReach ==
  ASSUME Inv, pc = "delete", ~found_path
  PROVE  j \notin Reachable(i)
<1> DEFINE S == Linked(Marked)
<1>1. Marked \in SUBSET Id
  BY DEF Marked
<1>2. S \in SUBSET Id
  BY <1>1, LinkedMember, RowType DEF Inv
<1>3. Accounted = Marked \cup Rowless
  <2>1. queue = <<>> /\ Len(queue) = 0
    BY EmptySeq DEF Inv, Complete, Looping
  <2> QED
    BY <2>1 DEF Accounted, Pending, ToPush
<1>4. /\ i \in Accounted
      /\ \A n \in Marked : \A x \in 1..Len(rows[n]) : rows[n][x] \in Accounted
      /\ \A n \in Marked : \A x \in 1..Len(rows[n]) : rows[n][x] # j
  BY DEF Inv, Complete, Looping, ToPush
<1>5. \A n \in Rowless : \A x \in 1..Len(rows[n]) : FALSE
  BY EmptySeq DEF Rowless
<1>6. ASSUME NEW n \in Accounted, NEW x \in 1..Len(rows[n]) PROVE rows[n][x] \in S
  <2>1. n \in Marked
    BY <1>3, <1>5
  <2> QED
    BY <2>1, <1>1, LinkedMember DEF Inv
<1>7. Linked({i}) \subseteq S
  <2>1. {i} \in SUBSET Id
    BY DEF Inv, Types, TypeOK
  <2> HIDE DEF S
  <2> QED
    BY <2>1, <1>4, <1>6, LinkedMember DEF Inv
<1>8. Linked(S) \subseteq S
  <2>1. S \subseteq Accounted
    BY <1>1, <1>4, LinkedMember DEF Inv
  <2> HIDE DEF S
  <2> QED
    BY <2>1, <1>2, <1>6, LinkedMember DEF Inv
<1>9. j \notin S
  BY <1>1, <1>4, LinkedMember DEF Inv
<1> HIDE DEF S
<1> QED
  BY <1>2, <1>7, <1>8, <1>9 DEF Reachable

LEMMA ReturnStep ==
  ASSUME Inv, Return
  PROVE  Inv'
<1>0. /\ pc = "delete" /\ pc' = "return" /\ Fifo!Delete /\ answer' = found_path
      /\ UNCHANGED <<rows, i, j, visited, found_path, node>>
  BY DEF Return, graph
<1>1. /\ state' = "none" /\ call' = "delete" /\ ret' \in {0, 1} /\ next_node' = next_node
      /\ queue' = <<>>
  BY <1>0 DEF Fifo!Delete, Fifo!Answer, Fifo!Called, Inv, Phases
<1>2. Types'
  <2>1. malloc_invocations' \in Nat /\ free_invocations' \in Nat
    <3>1. Len(queue) \in Nat /\ state \in {"none", "ready", "unusable"}
      BY DEF Inv, Types, TypeOK
    <3> QED
      BY <3>1 DEF Inv, Types, TypeOK, Return, Frees
  <2>2. ret' \in 0..SizeMax
    BY <1>1, SizeAssumption
  <2>3. queue' \in Seq(Id)
    BY <1>1, EmptySeq
  <2> QED
    BY <2>1, <2>2, <2>3, <1>0, <1>1 DEF Inv, Types, TypeOK
<1>3. Phases'
  BY <1>0, <1>1 DEF Phases, Looping
<1>4. Sound'
  <2>1. \A k \in 1..Len(queue') : FALSE
    BY <1>1, EmptySeq
  <2> QED
    BY <2>1, <1>0, <1>1, SameReach DEF Inv, Sound
<1>5. Complete'
  BY <1>0 DEF Complete, Looping
<1>6. Answered'
  <2>1. Reachable(i)' = Reachable(i)
    BY <1>0, SameReach
  <2>2. found_path => j \in Reachable(i)
    BY <1>0 DEF Inv, Sound
  <2>3. ~found_path => j \notin Reachable(i)
    BY <1>0, NothingLeftToReach
  <2>4. answer' => j \in Reachable(i)
    BY <2>2, <1>0
  <2>5. j \in Reachable(i) => answer'
    BY <2>3, <1>0 DEF Inv, Types, TypeOK
  <2> QED
    BY <2>1, <2>4, <2>5, <1>0 DEF Answered
<1>7. Bounded'
  <2>1. (queue = <<>>)'
    BY <1>1
  <2> QED
    BY <2>1, <1>2, EmptyBounded, PTL
<1> QED
  BY <1>2, <1>3, <1>4, <1>5, <1>6, <1>7 DEF Inv

LEMMA ClearStep ==
  ASSUME Inv, Clear
  PROVE  Inv'
<1>0. /\ pc = "return" /\ pc' = "idle" /\ visited' = [n \in Id |-> FALSE]
      /\ malloc_invocations' = 0 /\ free_invocations' = 0
      /\ UNCHANGED <<rows, i, j, found_path, node, state, queue, next_node, call, ret, answer>>
  BY DEF Clear, ClearMarks, ClearCounts, graph, fifo
<1>1. Types'
  BY <1>0 DEF Inv, Types, TypeOK
<1>2. Phases' /\ Sound' /\ Complete' /\ Answered'
  BY <1>0 DEF Inv, Phases, Sound, Complete, Answered, Looping
<1>3. Bounded'
  <2>1. (queue = <<>>)'
    BY <1>0 DEF Inv, Phases
  <2> QED
    BY <2>1, <1>1, EmptyBounded, PTL
<1> QED
  BY <1>1, <1>2, <1>3 DEF Inv

LEMMA StutterStep ==
  ASSUME Inv, UNCHANGED vars
  PROVE  Inv'
<1>0. UNCHANGED <<rows, i, j, visited, found_path, node, state, queue, next_node, call,
                  ret, pc, answer, malloc_invocations, free_invocations>>
  BY DEF vars, graph, fifo, counts
<1>1. Types' /\ Phases'
  BY <1>0 DEF Inv, Types, TypeOK, Phases, Looping
<1>2. Reachable(i)' = Reachable(i)
  BY <1>0, SameReach
<1>3. Sound' /\ Answered'
  BY <1>0, <1>2 DEF Inv, Sound, Answered
<1>4. ToPush' = ToPush /\ Marked' = Marked /\ Accounted' = Accounted
  BY <1>0 DEF ToPush, Marked, Accounted, Rowless, Pending
<1>5. Complete'
  BY <1>0, <1>4 DEF Inv, Complete, Looping
<1>6. Bounded'
  <2>1. ASSUME NEW n \in Id PROVE Copies(n)' = Copies(n) /\ Pushed(n)' = Pushed(n)
    BY <1>0, <1>4 DEF Copies, Pushed
  <2> QED
    BY <2>1 DEF Inv, Bounded
<1> QED
  BY <1>1, <1>3, <1>5, <1>6 DEF Inv

----------------------------------------------------------------------------
(* The calls of malloc() and free(), of searches with memory: two for the  *)
(* queue and one for every link pushed, and as many free() as values have  *)
(* left the queue.                                                         *)
LinksPushed ==
  {p \in Links(Marked) : pc = "push" /\ p[1] = next_node => p[2] <= node}

Counted ==
  /\ pc \in {"idle", "create"} => malloc_invocations = 0 /\ free_invocations = 0
  /\ pc \in Looping \cup {"return"} =>
       malloc_invocations = 2 + Cardinality(LinksPushed)
  /\ pc \in Looping => malloc_invocations = free_invocations + Len(queue) + 2
  /\ pc = "return" => malloc_invocations = free_invocations

LEMMA LinksFinite ==
  ASSUME Types
  PROVE  IsFiniteSet(LinksPushed) /\ Cardinality(LinksPushed) \in Nat
<1>1. Marked \in SUBSET Id /\ IsFiniteSet(1..MaxDegree)
  BY GraphAssumption, FS_Interval DEF Marked
<1>2. IsFiniteSet(Marked)
  BY <1>1, GraphAssumption, FS_Subset
<1>3. IsFiniteSet(Marked \X (1..MaxDegree))
  BY <1>1, <1>2, FS_Product
<1>4. LinksPushed \in SUBSET (Marked \X (1..MaxDegree))
  BY DEF LinksPushed, Links
<1> QED
  BY <1>3, <1>4, FS_Subset, FS_CardinalityType

(* A step that neither marks nor pushes leaves the links pushed alone, if  *)
(* a row that was pushed is pushed to its end.                             *)
LEMMA SameLinks ==
  ASSUME Types, UNCHANGED <<rows, visited, next_node, node>>,
         pc' # "push", pc = "push" => node >= Len(rows[next_node])
  PROVE  LinksPushed' = LinksPushed
<1>1. Marked' = Marked /\ next_node \in Id /\ node \in Nat
  BY DEF Marked, Types, TypeOK
<1>2. Len(rows[next_node]) \in Nat
  BY <1>1, RowType
<1>3. ASSUME NEW p \in Marked \X (1..MaxDegree), p[2] <= Len(rows[p[1]]),
             pc = "push", p[1] = next_node
      PROVE  p[2] <= node
  BY <1>1, <1>2, <1>3, GraphAssumption
<1> QED
  BY <1>1, <1>3 DEF LinksPushed, Links

LEMMA CountStep ==
  ASSUME Inv, Counted, Next, Created = {"ready"}
  PROVE  Counted'
<1>0. /\ Types /\ Phases /\ queue \in Seq(Id) /\ Len(queue) \in Nat
      /\ {malloc_invocations, free_invocations} \subseteq Nat
      /\ pc \in Looping => state = "ready"
  BY DEF Inv, Types, TypeOK, Phases
<1>1. CASE \E from, to \in Id : Begin(from, to)
  BY <1>1 DEF Begin, Counted, counts, Looping
<1>2. CASE Create
  <2>1. /\ pc = "create" /\ pc' = "visit" /\ state' = "ready" /\ queue' = queue
        /\ UNCHANGED <<rows, visited>> /\ queue = <<>>
        /\ malloc_invocations' = malloc_invocations + 2 /\ UNCHANGED free_invocations
    BY <1>0, <1>2 DEF Create, Fifo!Create, graph, Allocates, Phases
  <2>2. LinksPushed' = {}
    <3>1. Marked' = {}
      BY <1>0, <2>1 DEF Marked, Phases
    <3> QED
      BY <3>1 DEF LinksPushed, Links
  <2>3. Cardinality(LinksPushed') = 0 /\ Len(queue) = 0
    BY <2>1, <2>2, FS_EmptySet, EmptySeq
  <2> QED
    BY <2>1, <2>3 DEF Counted, Looping
<1>3. CASE Visit
  <2>1. /\ pc = "visit" /\ pc' \in {"delete", "pop", "push"}
        /\ UNCHANGED <<rows, next_node, queue, malloc_invocations, free_invocations>>
    BY <1>3 DEF Visit, graph, fifo, counts
  <2>2. LinksPushed' = LinksPushed
    <3>1. CASE pc' # "push"
      BY <1>0, <1>3, <2>1, <3>1, SameLinks DEF Visit
    <3>2. CASE pc' = "push"
      <4>1. /\ Marked' = Marked \cup {next_node} /\ next_node \notin Marked /\ node' = 0
        <5>1. /\ ~visited[next_node] /\ visited' = [visited EXCEPT ![next_node] = TRUE]
              /\ node' = 0
          BY <1>3, <3>2 DEF Visit, Mark
        <5>2. next_node \in Id /\ visited \in [Id -> BOOLEAN]
          BY <1>0 DEF Types, TypeOK
        <5> QED
          BY <5>1, <5>2 DEF Marked
      <4>2. \A p \in Marked' \X (1..MaxDegree) : ~(p[2] <= 0)
        BY GraphAssumption
      <4> QED
        BY <2>1, <3>2, <4>1, <4>2 DEF LinksPushed, Links
    <3> QED
      BY <3>1, <3>2
  <2> QED
    BY <2>1, <2>2 DEF Counted, Looping
<1>4. CASE PushNeighbour
  <2> DEFINE link == <<next_node, node + 1>>
             neighbour == rows[next_node][node + 1]
  <2>1. /\ pc = "push" /\ pc' = "push" /\ node' = node + 1
        /\ ~RowDone /\ queue' = Append(queue, neighbour)
        /\ UNCHANGED <<rows, visited, next_node, free_invocations>>
        /\ malloc_invocations' = malloc_invocations + 1
    <3>1. pc = "push" /\ state = "ready"
      BY <1>0, <1>4 DEF PushNeighbour, Looping
    <3>2. Fifo!Push(neighbour)
      BY <1>4 DEF PushNeighbour
    <3>3. ret' = 1 /\ queue' = Append(queue, neighbour) /\ UNCHANGED next_node
      BY <3>1, <3>2 DEF Fifo!Push, Fifo!Called
    <3> QED
      BY <1>4, <3>1, <3>3 DEF PushNeighbour, NextNeighbour, graph, Allocates
  <2>2. /\ next_node \in Id /\ node \in Nat /\ node + 1 \in 1..Len(rows[next_node])
        /\ Len(rows[next_node]) \in 0..MaxDegree /\ neighbour \in Id
    <3>1. next_node \in Id /\ node \in Nat
      BY <1>0 DEF Types, TypeOK
    <3>2. Len(rows[next_node]) \in 0..MaxDegree /\ Len(rows[next_node]) \in Nat
      BY <1>0, <3>1, RowType
    <3>3. node + 1 \in 1..Len(rows[next_node])
      BY <2>1, <3>1, <3>2 DEF RowDone
    <3> QED
      BY <1>0, <3>1, <3>2, <3>3, RowType
  <2>3. Len(queue') = Len(queue) + 1
    <3> HIDE DEF neighbour
    <3> QED
      BY <1>0, <2>1, <2>2, AppendProperties
  <2>4. LinksPushed' = LinksPushed \cup {link} /\ link \notin LinksPushed
    <3>1. Marked' = Marked /\ next_node \in Marked
      BY <1>0, <2>1, <2>2 DEF Marked, Phases
    <3>2. link \in Marked \X (1..MaxDegree) /\ link[2] <= Len(rows[link[1]])
      BY <2>2, <3>1, GraphAssumption
    <3>3. ASSUME NEW p \in Marked \X (1..MaxDegree)
          PROVE  (p[1] = next_node => p[2] <= node + 1)
                   <=> (p[1] = next_node => p[2] <= node) \/ p = link
      BY <2>2, GraphAssumption
    <3>4. LinksPushed = {p \in Marked \X (1..MaxDegree) :
                           p[2] <= Len(rows[p[1]]) /\ (p[1] = next_node => p[2] <= node)}
      BY <2>1 DEF LinksPushed, Links
    <3>5. LinksPushed' = {p \in Marked \X (1..MaxDegree) :
                            p[2] <= Len(rows[p[1]]) /\ (p[1] = next_node => p[2] <= node + 1)}
      BY <2>1, <3>1 DEF LinksPushed, Links
    <3>6. link \notin LinksPushed
      BY <2>2, <3>4
    <3> HIDE DEF link
    <3> QED
      BY <3>2, <3>3, <3>4, <3>5, <3>6
  <2> HIDE DEF link
  <2>5. Cardinality(LinksPushed') = Cardinality(LinksPushed) + 1
    BY <1>0, <2>4, LinksFinite, FS_AddElement
  <2>6. Cardinality(LinksPushed) \in Nat
    BY <1>0, LinksFinite
  <2> QED
    BY <1>0, <2>1, <2>3, <2>5, <2>6, SMTT(30) DEF Counted, Looping
<1>5. CASE PushDone
  <2>1. /\ pc = "push" /\ pc' = "pop" /\ node >= Len(rows[next_node])
        /\ UNCHANGED <<rows, visited, next_node, node, queue,
                       malloc_invocations, free_invocations>>
    BY <1>5 DEF PushDone, RowDone, graph, fifo, counts
  <2>2. LinksPushed' = LinksPushed
    BY <1>0, <2>1, SameLinks
  <2> QED
    BY <2>1, <2>2 DEF Counted, Looping
<1>6. CASE Pop
  <2>1. /\ pc = "pop" /\ pc' \in {"visit", "delete"} /\ Fifo!Pop
        /\ UNCHANGED <<rows, visited, node, malloc_invocations>>
        /\ free_invocations' = free_invocations + ret'
    BY <1>6 DEF Pop, AfterPop, graph, Frees
  <2>2. LinksPushed' = LinksPushed
    BY <2>1 DEF LinksPushed, Links, Marked
  <2>3. Len(queue') = Len(queue) - ret' /\ ret' \in {0, 1}
    <3>1. CASE queue = <<>>
      BY <1>0, <2>1, <3>1 DEF Fifo!Pop, Fifo!Answer, Fifo!Called
    <3>2. CASE queue # <<>>
      <4>1. queue' = Tail(queue) /\ ret' = 1
        BY <2>1, <3>2 DEF Fifo!Pop, Fifo!Called
      <4> QED
        BY <1>0, <3>2, <4>1, HeadTailProperties
    <3> QED
      BY <3>1, <3>2
  <2> QED
    BY <1>0, <2>1, <2>2, <2>3, SMTT(30) DEF Counted, Looping
<1>7. CASE Return
  <2>1. /\ pc = "delete" /\ pc' = "return" /\ state = "ready"
        /\ UNCHANGED <<rows, visited, node, malloc_invocations>>
        /\ free_invocations' = free_invocations + (Len(queue) + 2)
    BY <1>0, <1>7 DEF Return, graph, Frees, Looping
  <2>2. LinksPushed' = LinksPushed
    BY <2>1 DEF LinksPushed, Links, Marked
  <2> QED
    BY <1>0, <2>1, <2>2 DEF Counted, Looping
<1>8. CASE Clear
  BY <1>8 DEF Clear, ClearCounts, Counted, Looping
<1> QED
  BY <1>1, <1>2, <1>3, <1>4, <1>5, <1>6, <1>7, <1>8 DEF Next, Step

----------------------------------------------------------------------------
(* The theorems. *)

(* Inv holds in every state of every run of the program.                   *)
THEOREM Invariant == Spec => []Inv
<1>1. Inv /\ [Next]_vars => Inv'
  BY BeginStep, CreateStep, VisitStep, PushStep, PushDoneStep, PopStep, ReturnStep,
     ClearStep, StutterStep DEF Next, Step
<1> QED
  BY <1>1, Initially, PTL DEF Spec

(* TypeOK: the loop over a row ends at its size.                           *)
THEOREM TypeCorrect == Spec => []TypeOK
<1>1. Inv => TypeOK
  BY DEF Inv, Types
<1> QED
  BY <1>1, Invariant, PTL

(* NothingForgotten: while j was not found, every link of a marked row     *)
(* leads to a node that is marked, has no links or is still looked at.     *)
THEOREM NothingIsForgotten == Spec => []NothingForgotten
<1>1. Inv => NothingForgotten
  <2> SUFFICES ASSUME Inv, pc \in {"visit", "push", "pop"}, ~found_path
               PROVE  /\ Linked(Marked) \subseteq
                           Marked \cup {n \in Id : rows[n] = <<>>} \cup Frontier
                      /\ j \notin ToSet(queue)
    BY DEF NothingForgotten
  <2>1. ToSet(queue) = {queue[k] : k \in 1..Len(queue)}
    BY DEF Inv, Types, TypeOK, ToSet
  <2>2. ASSUME pc = "push"
        PROVE  ToPush = ToSet(SubSeq(rows[next_node], node + 1, Len(rows[next_node])))
    <3> DEFINE row == rows[next_node]
               rest == SubSeq(row, node + 1, Len(row))
    <3>1. node \in Nat /\ Len(row) \in Nat /\ node <= Len(row)
          /\ \A x \in 1..Len(row) : row[x] \in Id
      BY <2>2, RowType DEF Inv, Types, TypeOK
    <3> HIDE DEF row
    <3>2. \A x \in node + 1..Len(row) : row[x] \in Id
      BY <3>1
    <3>3. /\ rest \in Seq(Id)
          /\ Len(rest) = IF node + 1 <= Len(row) THEN Len(row) - (node + 1) + 1 ELSE 0
          /\ \A x \in 1..Len(row) - (node + 1) + 1 : rest[x] = row[node + 1 + x - 1]
      BY <3>1, <3>2, SubSeqProperties
    <3> HIDE DEF rest
    <3>4. Len(rest) = Len(row) - node /\ DOMAIN rest = 1..Len(rest)
      BY <3>1, <3>3
    <3>5. \A x \in 1..Len(rest) : rest[x] = row[node + x] /\ node + x \in node + 1..Len(row)
      BY <3>1, <3>3, <3>4
    <3>6. \A x \in node + 1..Len(row) : x - node \in 1..Len(rest) /\ node + (x - node) = x
      BY <3>1, <3>4
    <3>7. ToSet(rest) = {row[x] : x \in node + 1..Len(row)}
      BY <3>4, <3>5, <3>6 DEF ToSet
    <3> QED
      BY <2>2, <3>7 DEF ToPush, rest, row
  <2>3. Pending = Frontier
    BY <2>1, <2>2 DEF Pending, Frontier, ToPush
  <2>4. /\ \A n \in Marked : \A x \in 1..Len(rows[n]) : rows[n][x] \in Accounted
        /\ \A k \in 1..Len(queue) : queue[k] # j
    BY DEF Inv, Complete, Looping
  <2>5. Linked(Marked) \subseteq Accounted
    <3>1. Marked \in SUBSET Id
      BY DEF Marked
    <3> QED
      BY <3>1, <2>4, LinkedMember DEF Inv
  <2> QED
    BY <2>1, <2>3, <2>4, <2>5 DEF Accounted, Rowless
<1> QED
  BY <1>1, Invariant, PTL

(* QueueBounded: the queue never holds a node more often than the marked   *)
(* rows link to it.                                                        *)
THEOREM QueueStaysBounded == Spec => []QueueBounded
<1>1. Inv => QueueBounded
  <2> SUFFICES ASSUME Inv, NEW n \in Id
               PROVE  Cardinality({k \in 1..Len(queue) : queue[k] = n})
                        <= Cardinality({p \in Marked \X (1..MaxDegree) :
                             p[2] <= Len(rows[p[1]]) /\ rows[p[1]][p[2]] = n})
    <3>1. \A n \in Id : {p \in Links(Marked) : rows[p[1]][p[2]] = n}
                         = {p \in Marked \X (1..MaxDegree) :
                              p[2] <= Len(rows[p[1]]) /\ rows[p[1]][p[2]] = n}
      BY DEF Links
    <3> QED
      BY <3>1 DEF QueueBounded
  <2> DEFINE links == {p \in Marked \X (1..MaxDegree) :
                         p[2] <= Len(rows[p[1]]) /\ rows[p[1]][p[2]] = n}
  <2>1. Marked \in SUBSET Id /\ IsFiniteSet(1..MaxDegree)
    BY GraphAssumption, FS_Interval DEF Marked
  <2>2. IsFiniteSet(Marked)
    BY <2>1, GraphAssumption, FS_Subset
  <2>3. IsFiniteSet(Marked \X (1..MaxDegree))
    BY <2>1, <2>2, FS_Product
  <2>4. links \in SUBSET (Marked \X (1..MaxDegree)) /\ Pushed(n) \in SUBSET links
    BY DEF Pushed
  <2> HIDE DEF links
  <2>5. IsFiniteSet(links)
    BY <2>3, <2>4, FS_Subset
  <2>6. Cardinality(Pushed(n)) <= Cardinality(links) /\ Cardinality(links) \in Nat
    BY <2>4, <2>5, FS_Subset, FS_CardinalityType
  <2>7. /\ Cardinality(Copies(n)) <= Cardinality(Pushed(n))
        /\ Cardinality(Copies(n)) \in Nat /\ Cardinality(Pushed(n)) \in Nat
    BY CountType DEF Inv, Bounded
  <2> QED
    BY <2>6, <2>7 DEF Copies, links
<1> QED
  BY <1>1, Invariant, PTL

(* CallsCounted: a search with memory calls malloc() for its queue and for *)
(* each link of the rows it marked, and free() as often.                   *)
THEOREM CallsAreCounted == Spec => []CallsCounted
<1> DEFINE WithMemory == Created = {"ready"} => Counted
<1>1. Init => WithMemory
  BY DEF Init, Counted, Looping
<1>2. Inv /\ WithMemory /\ [Next]_vars => WithMemory'
  <2>1. ASSUME Counted, UNCHANGED vars PROVE Counted'
    BY <2>1 DEF vars, graph, fifo, counts, Counted, LinksPushed, Links, Marked
  <2> QED
    BY <2>1, CountStep
<1>3. WithMemory => CallsCounted
  <2>1. pc = "return" => LinksPushed = Links(Marked)
    BY DEF LinksPushed, Links
  <2> QED
    BY <2>1 DEF Counted, CallsCounted
<1> QED
  BY <1>1, <1>2, <1>3, Invariant, PTL DEF Spec

(* AnswersAreRight: with memory for its queue, a search answers TRUE       *)
(* exactly if a path of one link or more leads from i to j.                *)
THEOREM SearchCorrect ==
  ASSUME Created = {"ready"}
  PROVE  Spec => []AnswersAreRight
<1>1. Inv => AnswersAreRight
  BY DEF Inv, Answered, AnswersAreRight, Types, TypeOK
<1> QED
  BY <1>1, Invariant, PTL

(* With memory or without, a search never misses a path: when it answers   *)
(* FALSE, there is none.                                                   *)
THEOREM NoPathMissed == Spec => [](pc = "return" /\ j \in Reachable(i) => answer)
<1>1. Inv => (pc = "return" /\ j \in Reachable(i) => answer)
  BY DEF Inv, Answered
<1> QED
  BY <1>1, Invariant, PTL
=============================================================================
