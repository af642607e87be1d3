------------------------------ MODULE ListSpec ------------------------------
(* What linked_list.h promises of one list: a sequence of values with      *)
(* insertion and removal at any position, and what every call returns.     *)
EXTENDS Naturals, Sequences

CONSTANTS
  Value,  \* the data a node can carry
  Index,  \* the indices clients pass
  SizeMax \* SIZE_MAX, the answer to a question that has none

VARIABLES
  exists, \* the client holds a list
  seq,    \* its values, first to last
  call,   \* the last call: its name and the position it named
  ret     \* what it returned: TRUE is 1, FALSE and NULL are 0

vars == <<exists, seq, call, ret>>

Init == exists = FALSE /\ seq = <<>> /\ call = [name |-> "none", at |-> 0] /\ ret = 0

Called(name, i, r) == call' = [name |-> name, at |-> i] /\ ret' = r

Create ==
  /\ ~exists
  /\ \/ exists' = TRUE /\ Called("create", 0, 1)
     \/ exists' = FALSE /\ Called("create", 0, 0)
  /\ UNCHANGED seq

Delete == exists /\ exists' = FALSE /\ seq' = <<>> /\ Called("delete", 0, 1)

(* The values from position i on (counted from 0) move up by one. *)
Inserted(i, v) ==
  [k \in 1..Len(seq) + 1 |->
     IF k <= i THEN seq[k] ELSE IF k = i + 1 THEN v ELSE seq[k - 1]]

Removed(i) == [k \in 1..Len(seq) - 1 |-> IF k <= i THEN seq[k] ELSE seq[k + 1]]

Insert(i, v) ==
  /\ exists /\ i <= Len(seq)
  /\ seq' = Inserted(i, v)
  /\ Called("insert", i, 1)
  /\ UNCHANGED exists

NoInsert(i) ==
  /\ ~exists \/ i > Len(seq)
  /\ Called("insert", i, 0)
  /\ UNCHANGED <<exists, seq>>

Remove(i) ==
  /\ exists /\ i < Len(seq)
  /\ seq' = Removed(i)
  /\ Called("remove", i, 1)
  /\ UNCHANGED exists

NoRemove(i) ==
  /\ ~exists \/ i >= Len(seq)
  /\ Called("remove", i, 0)
  /\ UNCHANGED <<exists, seq>>

NoDelete == ~exists /\ Called("delete", 0, 0) /\ UNCHANGED <<exists, seq>>

Size ==
  /\ Called("size", 0, IF exists THEN Len(seq) ELSE SizeMax)
  /\ UNCHANGED <<exists, seq>>

(* The first position that holds v, or SIZE_MAX. *)
IsFirst(r, v) ==
  \/ /\ r < Len(seq) /\ seq[r + 1] = v
     /\ \A k \in 1..r : seq[k] # v
  \/ /\ r = SizeMax
     /\ \A k \in 1..Len(seq) : seq[k] # v

Find(v) ==
  /\ \E r \in 0..Len(seq) \cup {SizeMax} : IsFirst(r, v) /\ Called("find", 0, r)
  /\ UNCHANGED <<exists, seq>>

(* Iterators read the list, and are there only for positions it has. *)
CreateIterator(i) ==
  /\ \/ exists /\ i < Len(seq) /\ Called("iterator", i, 1)
     \/ (~exists \/ i >= Len(seq)) /\ Called("iterator", i, 0)
  /\ UNCHANGED <<exists, seq>>

UseIterator ==
  /\ \E name \in {"iterate", "delete_iterator"}, r \in {0, 1} : Called(name, 0, r)
  /\ UNCHANGED <<exists, seq>>

Next ==
  \/ Create \/ Delete \/ NoDelete \/ Size \/ UseIterator
  \/ \E i \in Index \cup {0, Len(seq)} : NoInsert(i) \/ \E v \in Value : Insert(i, v)
  \/ \E i \in Index : Remove(i) \/ NoRemove(i) \/ CreateIterator(i)
  \/ \E v \in Value : Find(v)

Spec == Init /\ [][Next]_vars
=============================================================================
