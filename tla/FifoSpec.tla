------------------------------ MODULE FifoSpec ------------------------------
(* What queue.h promises: values come out in the order they went in.  A    *)
(* queue can be created without the storage it needs: it stays empty.      *)
EXTENDS Naturals, Sequences

CONSTANTS
  Value,  \* the data pushed
  SizeMax \* SIZE_MAX

VARIABLES
  state,  \* "none", "ready" or, without storage, "unusable"
  queue,  \* the values, oldest first
  out,    \* the client's variable that popped_data points to
  call,   \* the last call
  ret     \* what it returned: TRUE is 1, FALSE and NULL are 0

vars == <<state, queue, out, call, ret>>

Called(name, r) == call' = name /\ ret' = r

Answer(name, r) == Called(name, r) /\ UNCHANGED <<state, queue, out>>

Create ==
  /\ state = "none"
  /\ \/ state' = "none" /\ Called("create", 0)
     \/ state' \in {"ready", "unusable"} /\ Called("create", 1)
  /\ UNCHANGED <<queue, out>>

Delete ==
  \/ state = "none" /\ Answer("delete", 0)
  \/ /\ state # "none"
     /\ state' = "none" /\ queue' = <<>>
     /\ Called("delete", 1)
     /\ UNCHANGED out

Push(v) ==
  \/ state # "ready" /\ Answer("push", 0)
  \/ /\ state = "ready"
     /\ queue' = Append(queue, v)
     /\ Called("push", 1)
     /\ UNCHANGED <<state, out>>

(* Without a value to pop, the client's variable keeps its value. *)
Pop ==
  \/ queue = <<>> /\ Answer("pop", 0)
  \/ /\ queue # <<>>
     /\ out' = Head(queue)
     /\ queue' = Tail(queue)
     /\ Called("pop", 1)
     /\ UNCHANGED state

Peek ==
  \/ queue = <<>> /\ Answer("next", 0)
  \/ /\ queue # <<>>
     /\ out' = Head(queue)
     /\ Called("next", 1)
     /\ UNCHANGED <<state, queue>>

HasNext == Answer("has_next", IF queue = <<>> THEN 0 ELSE 1)

Size == Answer("size", IF state = "none" THEN SizeMax ELSE Len(queue))

Init ==
  /\ state = "none" /\ queue = <<>> /\ out \in Value
  /\ call = "none" /\ ret = 0

Next ==
  \/ Create \/ Delete \/ Pop \/ Peek \/ HasNext \/ Size
  \/ \E v \in Value : Push(v)

Spec == Init /\ [][Next]_vars
=============================================================================
