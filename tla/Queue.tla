------------------------------- MODULE Queue -------------------------------
(***************************************************************************)
(* The queue of queue.c: a linked list (module LinkedList) to whose end    *)
(* values are pushed and from whose front they are popped, and a length of *)
(* its own next to the one the list keeps.                                 *)
(***************************************************************************)
EXTENDS Integers, Sequences, FiniteSets, Functions

CONSTANTS
  Node,        \* what the allocator may return for a node of the list
  Value,       \* the data pushed
  UIntMax,     \* UINT_MAX, the width of the length of the list
  SizeMax,     \* SIZE_MAX, the width of the length of the queue
  MallocFails, \* what the allocator may refuse: "queue", "list", "node"
  NULL, Garbage

VARIABLES
  queue,              \* the client holds a queue
  qlen,               \* queue->len
  ll, head, tail, len, next, prev, data, nodes, \* queue->ll, as in LinkedList
  lcall, lret,        \* the last call to the list
  out,                \* the client's variable that popped_data points to
  call, ret,          \* the last call to the queue
  crashed

L == INSTANCE LinkedList WITH
       Iter <- {}, Index <- {0}, iters <- <<>>, lost <- {}, call <- lcall, ret <- lret

list == <<ll, head, tail, len, next, prev, data, nodes, lcall, lret>>
vars == <<queue, qlen, list, out, call, ret, crashed>>

ASSUME ListAssumption == L!NodeAssumption /\ L!NumberAssumption

SizeT(i) == i % (SizeMax + 1)

Init ==
  /\ L!Init
  /\ queue = FALSE /\ qlen = 0
  /\ out \in Value
  /\ call = "none" /\ ret = 0

Called(name, r) == call' = name /\ ret' = r

Answer(name, r) == Called(name, r) /\ UNCHANGED <<queue, qlen, list, out, crashed>>

----------------------------------------------------------------------------
(* Whether linked_list_create() succeeded is not checked. *)
Create ==
  /\ ~queue
  /\ \/ "queue" \in MallocFails /\ Answer("create", 0)
     \/ /\ L!Create
        /\ queue' = TRUE /\ qlen' = 0
        /\ Called("create", 1)
        /\ UNCHANGED out

(* Variant: the list is left to the client. *)
DeleteShallow ==
  /\ queue
  /\ UNCHANGED <<list, crashed>>
  /\ queue' = FALSE
  /\ Called("delete", 1)
  /\ UNCHANGED <<qlen, out>>

(* A queue without a list has linked_list_delete() refuse, and goes. *)
Delete ==
  /\ queue
  /\ IF ll THEN L!Delete ELSE UNCHANGED <<list, crashed>>
  /\ IF crashed' THEN UNCHANGED <<queue, call, ret>>
                 ELSE queue' = FALSE /\ Called("delete", 1)
  /\ UNCHANGED <<qlen, out>>

(* Variant: at the front. *)
PushFront(d) ==
  \/ ~ll /\ Answer("push", 0)
  \/ /\ ll
     /\ L!InsertFront(d)
     /\ IF crashed' THEN UNCHANGED <<qlen, call, ret>>
                    ELSE qlen' = SizeT(qlen + 1) /\ Called("push", 1)
     /\ UNCHANGED <<queue, out>>

(* Without a list, linked_list_insert_end() answers FALSE. *)
Push(d) ==
  \/ ~ll /\ Answer("push", 0)
  \/ /\ ll
     /\ L!InsertEnd(d)
     /\ IF crashed' THEN UNCHANGED <<qlen, call, ret>>
                    ELSE qlen' = SizeT(qlen + 1) /\ Called("push", 1)
     /\ UNCHANGED <<queue, out>>

(* The end of the program, in the list or on the way to it. *)
Crash == L!Crash /\ UNCHANGED <<queue, qlen, out, call, ret>>

(* Variant: the length stays. *)
PopKeepsLen ==
  IF qlen = 0 THEN Answer("pop", 0)
  ELSE IF head \notin nodes THEN Crash
  ELSE /\ L!Remove(0)
       /\ IF crashed' THEN UNCHANGED <<qlen, out, call, ret>>
          ELSE /\ out' = data[head]
               /\ qlen' = qlen
               /\ Called("pop", lret')
       /\ UNCHANGED queue

(* The data of queue->ll->head is read first, so there have to be a list   *)
(* and a first node.  The answer is that of linked_list_remove(), and the  *)
(* length goes down whatever it is.                                        *)
Pop ==
  IF qlen = 0 THEN Answer("pop", 0)
  ELSE IF head \notin nodes THEN Crash
  ELSE /\ L!Remove(0)
       /\ IF crashed' THEN UNCHANGED <<qlen, out, call, ret>>
          ELSE /\ out' = data[head]
               /\ qlen' = qlen - 1
               /\ Called("pop", lret')
       /\ UNCHANGED queue

Peek ==
  IF qlen = 0 THEN Answer("next", 0)
  ELSE IF head \notin nodes THEN Crash
  ELSE /\ out' = data[head]
       /\ Called("next", 1)
       /\ UNCHANGED <<queue, qlen, list, crashed>>

HasNext == Answer("has_next", IF qlen = 0 THEN 0 ELSE 1)

Size == Answer("size", qlen)

(* INVALID_PTR_CHECK, for want of a queue. *)
CallOnNull ==
  \/ Answer("size", SizeMax)
  \/ \E name \in {"delete", "push", "pop", "next", "has_next"} : Answer(name, 0)

CallOnQueue ==
  \/ Delete
  \/ \E d \in Value : Push(d)
  \/ Pop
  \/ Peek
  \/ HasNext
  \/ Size

Next ==
  /\ ~crashed
  /\ \/ Create
     \/ ~queue /\ CallOnNull
     \/ queue /\ CallOnQueue

Spec == Init /\ [][Next]_vars
----------------------------------------------------------------------------
(* Properties. *)

(* The queue and its list hold the types of queue.h:46-49, and a bool or a *)
(* size_t is returned.                                                     *)
TypeOK ==
  /\ queue \in BOOLEAN
  /\ qlen \in 0..SizeMax
  /\ out \in Value
  /\ call \in {"none", "create", "delete", "push", "pop", "next", "has_next", "size"}
  /\ ret \in 0..SizeMax
  /\ L!TypeOK

(* The two lengths, of different widths and kept by different functions,   *)
(* agree; a queue without a list is empty (queue.c:59-60, 80, 99).         *)
LengthsAgree == queue => qlen = IF ll THEN len ELSE 0

(* Once the queue is gone, neither its list nor a node of it is left, and  *)
(* while it is there the list is well linked (queue.c:65-70).              *)
NothingLeft == /\ L!WellLinked
               /\ ~queue => ~ll /\ nodes = {}

(* The queue is first in, first out, call by call. *)
Promise == INSTANCE FifoSpec WITH
  state <- IF ~queue THEN "none" ELSE IF ll THEN "ready" ELSE "unusable",
  queue <- L!Contents
ImplementsFifo == Promise!Spec
=============================================================================
