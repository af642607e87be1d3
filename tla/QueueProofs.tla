----------------------------- MODULE QueueProofs -----------------------------
(***************************************************************************)
(* The queue of queue.c keeps its length in step with that of its list,    *)
(* leaves nothing behind and is first in, first out, for every finite set  *)
(* of nodes and whatever the allocator refuses.  The list is that of       *)
(* LinkedList, and what its calls do to the sequence of its values is      *)
(* taken from LinkedListProofs.                                            *)
(***************************************************************************)
EXTENDS Queue, SequenceTheorems, TLAPS

LP == INSTANCE LinkedListProofs WITH
        Iter <- {}, Index <- {0}, iters <- <<>>, lost <- {}, call <- lcall, ret <- lret

(* The definitions of the list are the same under both names.              *)
LEMMA SameAssumptions == LP!NodeAssumption /\ LP!NumberAssumption
BY ListAssumption
   DEF L!NodeAssumption, L!NumberAssumption, LP!NodeAssumption, LP!NumberAssumption,
       L!IsFiniteSet, LP!IsFiniteSet, L!Cardinality, LP!Cardinality

LEMMA SameState ==
  /\ L!TypeOK <=> LP!TypeOK
  /\ L!WellLinked <=> LP!WellLinked
  /\ L!Contents = LP!Contents
  /\ L!Init <=> LP!Init
<1>1. L!TypeOK <=> LP!TypeOK
  BY DEF L!TypeOK, LP!TypeOK, L!CallName, LP!CallName
<1>2. L!Contents = LP!Contents
  BY DEF L!Contents, LP!Contents, L!Elem, LP!Elem, L!Along, LP!Along
<1>3. L!WellLinked <=> LP!WellLinked
  BY DEF L!WellLinked, LP!WellLinked, L!Chain, LP!Chain, L!Along, LP!Along,
         L!IsInjective, LP!IsInjective, L!Range, LP!Range
<1>4. L!Init <=> LP!Init
  BY DEF L!Init, LP!Init
<1> QED
  BY <1>1, <1>2, <1>3, <1>4

LEMMA SameContents == L!Contents = LP!Contents /\ L!Contents' = LP!Contents'
BY DEF L!Contents, LP!Contents, L!Elem, LP!Elem, L!Along, LP!Along

LEMMA SameWalk ==
  /\ \A f, n, k : L!Along(f, n, k) = LP!Along(f, n, k)
  /\ \A i : L!UInt(i) = LP!UInt(i)
  /\ \A i : L!Traverse(i) = LP!Traverse(i)
  /\ \A i : L!Walked(i) = LP!Walked(i)
  /\ \A k : L!Reached(k) = LP!Reached(k)
  /\ \A f, F : L!Freed(f, F) = LP!Freed(f, F)
  /\ L!Cardinality(Node) = LP!Cardinality(Node)
<1>1. \A f, n, k : L!Along(f, n, k) = LP!Along(f, n, k)
  BY DEF L!Along, LP!Along
<1>2. \A i : L!UInt(i) = LP!UInt(i)
  BY DEF L!UInt, LP!UInt
<1>3. \A i : L!Traverse(i) = LP!Traverse(i)
  BY DEF L!Traverse, LP!Traverse, L!Along, LP!Along, L!UInt, LP!UInt
<1>4. \A i : L!Walked(i) = LP!Walked(i)
  BY DEF L!Walked, LP!Walked, L!Along, LP!Along, L!UInt, LP!UInt
<1>5. \A k : L!Reached(k) = LP!Reached(k)
  BY DEF L!Reached, LP!Reached, L!Along, LP!Along
<1>6. \A f, F : L!Freed(f, F) = LP!Freed(f, F)
  BY DEF L!Freed, LP!Freed
<1>7. L!Cardinality(Node) = LP!Cardinality(Node)
  BY DEF L!Cardinality, LP!Cardinality
<1> QED
  BY <1>1, <1>2, <1>3, <1>4, <1>5, <1>6, <1>7

LEMMA SameSteps ==
  /\ L!Crash <=> LP!Crash
  /\ L!Create <=> LP!Create
  /\ L!Delete <=> LP!Delete
  /\ \A d : L!InsertEnd(d) <=> LP!InsertEnd(d)
  /\ \A i : L!Remove(i) <=> LP!Remove(i)
<1>1. L!Crash <=> LP!Crash
  BY DEF L!Crash, LP!Crash, L!list, LP!list
<1>2. L!Create <=> LP!Create
  BY DEF L!Create, LP!Create, L!Called, LP!Called, L!Answer, LP!Answer, L!list, LP!list
<1>3. L!Delete <=> LP!Delete
  BY <1>1, SameWalk
     DEF L!Delete, LP!Delete, L!Following, LP!Following, L!FreeNodes, LP!FreeNodes,
         L!Called, LP!Called
<1>4. ASSUME NEW d PROVE L!InsertEnd(d) <=> LP!InsertEnd(d)
  BY <1>1, SameWalk
     DEF L!InsertEnd, LP!InsertEnd, L!CreateNodeFails, LP!CreateNodeFails, L!Following,
         LP!Following, L!CreateNode, LP!CreateNode, L!Called, LP!Called, L!LinkOnly, LP!LinkOnly,
         L!LinkLast, LP!LinkLast
<1>5. ASSUME NEW i PROVE L!Remove(i) <=> LP!Remove(i)
  <2>1. L!Answer("remove", i, 0) <=> LP!Answer("remove", i, 0)
    BY DEF L!Answer, LP!Answer, L!list, LP!list, L!Called, LP!Called
  <2>2. \A c : L!RemoveNode(i, c) <=> LP!RemoveNode(i, c)
    BY SameWalk DEF L!RemoveNode, LP!RemoveNode, L!FreeNodes, LP!FreeNodes, L!Called, LP!Called
  <2>3. /\ L!UnlinkOnly <=> LP!UnlinkOnly
        /\ L!UnlinkHead <=> LP!UnlinkHead
        /\ L!UnlinkTail <=> LP!UnlinkTail
        /\ \A c : L!UnlinkBody(c) <=> LP!UnlinkBody(c)
    BY SameWalk
       DEF L!UnlinkOnly, LP!UnlinkOnly, L!UnlinkHead, LP!UnlinkHead, L!UnlinkTail, LP!UnlinkTail,
           L!UnlinkBody, LP!UnlinkBody
  <2>4. L!RemoveMiddle(i) <=> LP!RemoveMiddle(i)
    BY <1>1, <2>1, <2>2, <2>3, SameWalk
       DEF L!RemoveMiddle, LP!RemoveMiddle, L!Following, LP!Following
  <2> QED
    BY <1>1, <2>1, <2>2, <2>3, <2>4 DEF L!Remove, LP!Remove, L!Following, LP!Following
<1> QED
  BY <1>1, <1>2, <1>3, <1>4, <1>5

----------------------------------------------------------------------------
(* What a call of the list does to the values it holds.                    *)
LEMMA ListNow ==
  LP!Inv => /\ L!TypeOK /\ L!WellLinked /\ len \in Nat /\ len <= UIntMax
            /\ ll => /\ L!Contents \in Seq(Value \cup {Garbage}) /\ Len(L!Contents) = len
                     /\ len > 0 => head \in nodes /\ data[head] = L!Contents[1]
            /\ ~ll => L!Contents = <<>> /\ nodes = {}
<1> SUFFICES ASSUME LP!Inv
             PROVE  /\ L!TypeOK /\ L!WellLinked /\ len \in Nat /\ len <= UIntMax
                    /\ ll => /\ L!Contents \in Seq(Value \cup {Garbage})
                             /\ Len(L!Contents) = len
                             /\ len > 0 => head \in nodes /\ data[head] = L!Contents[1]
                    /\ ~ll => L!Contents = <<>> /\ nodes = {}
  OBVIOUS
<1>1. LP!TypeOK /\ LP!WellLinked
  BY SameAssumptions, LP!WellLinkedNow DEF LP!Inv
<1>2. L!TypeOK /\ L!WellLinked
  BY <1>1, SameState
<1>3. len \in Nat /\ len <= UIntMax /\ (~ll => nodes = {})
  BY <1>2, ListAssumption DEF L!TypeOK, L!WellLinked, L!NumberAssumption
<1>4. ASSUME ll
      PROVE  /\ L!Contents \in Seq(Value \cup {Garbage}) /\ Len(L!Contents) = len
             /\ len > 0 => head \in nodes /\ data[head] = L!Contents[1]
  <2>1. /\ LP!Contents = [a \in 1..len |-> data[LP!Chain[a]]]
        /\ LP!Contents \in Seq(Value \cup {Garbage}) /\ Len(LP!Contents) = len
    BY <1>4, SameAssumptions, LP!ListNow
  <2>2. ASSUME len > 0 PROVE 1 \in 1..len /\ head = LP!Chain[1] /\ head \in nodes
    BY <1>4, <2>2, SameAssumptions, LP!EndsNow
  <2> QED
    BY <2>1, <2>2, SameState
<1> QED
  BY <1>2, <1>3, <1>4 DEF L!Contents

LEMMA LengthNow ==
  LP!Inv /\ ll => len \in Nat /\ len <= UIntMax /\ Len(L!Contents) = len
BY ListNow

LEMMA CreateList ==
  ASSUME LP!Inv, L!Create
  PROVE  /\ LP!Inv' /\ UNCHANGED <<crashed, L!Contents>>
         /\ ll' => len' = 0
<1>1. LP!Inv' /\ crashed' = crashed /\ LP!Promise!Create
  BY SameAssumptions, SameSteps, LP!CreateStep
<1>2. L!Contents' = L!Contents
  BY <1>1, SameContents DEF LP!Promise!Create
<1>3. ll' => len' = 0
  BY DEF L!Create, L!Answer, L!list
<1> QED
  BY <1>1, <1>2, <1>3

LEMMA DeleteList ==
  ASSUME LP!Inv, L!Delete
  PROVE  LP!Inv' /\ crashed' = crashed /\ ~ll' /\ L!Contents' = <<>>
<1>1. LP!Inv' /\ crashed' = crashed /\ LP!Promise!Delete
  BY SameAssumptions, SameSteps, LP!DeleteStep
<1> QED
  BY <1>1, SameContents DEF LP!Promise!Delete

LEMMA PushList ==
  ASSUME LP!Inv, ll, NEW d \in Value, L!InsertEnd(d)
  PROVE  /\ LP!Inv' /\ ll' = ll
         /\ \/ "node" \in MallocFails /\ L!Crash
            \/ crashed' = crashed /\ L!Contents' = Append(L!Contents, d)
<1>1. LP!Inv' /\ (\/ "node" \in MallocFails /\ LP!Crash
                  \/ crashed' = crashed /\ LP!Promise!Insert(len, d))
  BY SameAssumptions, SameSteps, LP!InsertEndStep
<1>2. CASE LP!Crash /\ "node" \in MallocFails
  <2>1. L!Crash /\ ll' = ll
    BY <1>2, SameSteps DEF L!Crash, L!list
  <2> QED
    BY <1>1, <1>2, <2>1
<1>3. CASE crashed' = crashed /\ LP!Promise!Insert(len, d)
  <2>1. ll' = ll /\ LP!Contents' = LP!Promise!Inserted(len, d)
    BY <1>3 DEF LP!Promise!Insert
  <2>2. /\ LP!Contents \in Seq(Value \cup {Garbage}) /\ Len(LP!Contents) = len
        /\ LP!Contents = L!Contents /\ len \in Nat
    BY ListNow, SameContents
  <2>3. LP!Promise!Inserted(len, d) =
          [k \in 1..Len(LP!Contents) + 1 |-> IF k <= len THEN LP!Contents[k]
                                ELSE IF k = len + 1 THEN d ELSE LP!Contents[k - 1]]
    BY DEF LP!Promise!Inserted
  <2> DEFINE c == LP!Contents
             e == Append(c, d)
             f == LP!Promise!Inserted(len, d)
  <2>4. /\ e \in Seq(Value \cup {Garbage}) /\ Len(e) = len + 1 /\ e[len + 1] = d
        /\ \A k \in 1..len : e[k] = c[k]
    BY <2>2, AppendProperties
  <2>a. f = e
    <3>1. /\ DOMAIN f = 1..len + 1
          /\ \A k \in 1..len + 1 : f[k] = IF k <= len THEN c[k] ELSE d
      BY <2>2, <2>3
    <3>2. f = [k \in 1..len + 1 |-> f[k]]
      <4>1. f = [k \in 1..Len(c) + 1 |-> IF k <= len THEN c[k]
                                ELSE IF k = len + 1 THEN d ELSE c[k - 1]]
        BY <2>3
      <4> HIDE DEF f, c
      <4> QED
        BY <4>1, <2>2 DEF c
    <3>b. e = [k \in 1..len + 1 |-> e[k]]
      <4> HIDE DEF e
      <4>1. e \in [1..len + 1 -> Value \cup {Garbage}]
        BY <2>4, LenProperties
      <4> QED
        BY <4>1
    <3> HIDE DEF e, f, c
    <3>3. \A k \in 1..len + 1 : f[k] = e[k]
      BY <3>1, <2>4, <2>2
    <3> QED
      BY <3>2, <3>b, <3>3
  <2>5. L!Contents' = LP!Contents'
    BY SameContents
  <2> QED
    BY <1>1, <1>3, <2>1, <2>2, <2>a, <2>5
<1> QED
  BY <1>1, <1>2, <1>3

LEMMA PopList ==
  ASSUME LP!Inv, ll, len > 0, L!Remove(0)
  PROVE  /\ LP!Inv' /\ UNCHANGED <<ll, crashed>> /\ lret' = 1
         /\ L!Contents' = Tail(L!Contents)
<1>1. LP!Inv' /\ crashed' = crashed /\ (LP!Promise!Remove(0) \/ LP!Promise!NoRemove(0))
  BY SameAssumptions, SameSteps, LP!RemoveStep
<1>2. /\ LP!Contents \in Seq(Value \cup {Garbage}) /\ Len(LP!Contents) = len
      /\ LP!Contents = L!Contents /\ len \in Nat
  BY ListNow, SameContents
<1>3. LP!Promise!Remove(0)
  <2>1. ~ (0 >= Len(LP!Contents))
    BY <1>2
  <2>2. LP!Promise!NoRemove(0) => (~ll \/ 0 >= Len(LP!Contents))
    BY DEF LP!Promise!NoRemove
  <2> QED
    BY <1>1, <2>1, <2>2
<1>4. ll' = ll /\ lret' = 1 /\ LP!Contents' = LP!Promise!Removed(0)
  BY <1>3 DEF LP!Promise!Remove, LP!Promise!Called
<1>5. LP!Promise!Removed(0) =
        [k \in 1..Len(LP!Contents) - 1 |-> IF k <= 0 THEN LP!Contents[k] ELSE LP!Contents[k + 1]]
  BY DEF LP!Promise!Removed
<1>6. LP!Promise!Removed(0) = Tail(LP!Contents)
  BY <1>2, <1>5
<1>7. L!Contents' = LP!Contents'
  BY SameContents
<1> QED
  BY <1>1, <1>2, <1>4, <1>6, <1>7
----------------------------------------------------------------------------
(* The inductive invariant: the list keeps its own; the two lengths agree; *)
(* a list is there only with its queue; and what it holds was pushed, not  *)
(* the garbage of a node that was freed.                                   *)
CallName == {"none", "create", "delete", "push", "pop", "next", "has_next", "size"}

QueueTypes ==
  /\ queue \in BOOLEAN /\ qlen \in 0..SizeMax /\ out \in Value
  /\ call \in CallName /\ ret \in 0..SizeMax

Inv ==
  /\ LP!Inv
  /\ QueueTypes
  /\ LengthsAgree
  /\ ~queue => ~ll
  /\ L!Contents \in Seq(Value)

(* What it says of the two lengths and the values.                         *)
LEMMA QueueNow ==
  ASSUME Inv
  PROVE  /\ SizeMax \in Nat /\ UIntMax \in Nat /\ UIntMax <= SizeMax /\ 1 \in 0..SizeMax
         /\ L!Contents \in Seq(Value) /\ qlen \in Nat
         /\ queue => Len(L!Contents) = qlen
         /\ ~ll => L!Contents = <<>>
         /\ qlen = 0 /\ queue => L!Contents = <<>>
         /\ qlen > 0 /\ queue => /\ ll /\ len > 0 /\ len = qlen /\ L!Contents # <<>>
                                /\ head \in nodes
                                /\ data[head] = Head(L!Contents) /\ data[head] \in Value
<1>1. /\ SizeMax \in Nat /\ UIntMax \in Nat /\ UIntMax <= SizeMax /\ 1 \in 0..SizeMax
      /\ qlen \in Nat
  BY ListAssumption DEF Inv, QueueTypes, L!NumberAssumption
<1>2. /\ L!Contents \in Seq(Value) /\ len \in Nat /\ Len(<<>>) = 0
      /\ ll => Len(L!Contents) = len
            /\ (len > 0 => head \in nodes /\ data[head] = L!Contents[1])
      /\ ~ll => L!Contents = <<>>
      /\ queue => qlen = IF ll THEN len ELSE 0
  BY ListNow DEF Inv, LengthsAgree
<1>3. queue => Len(L!Contents) = qlen
  BY <1>2
<1>4. ASSUME qlen = 0, queue PROVE L!Contents = <<>>
  BY <1>2, <1>3, <1>4, EmptySeq
<1>5. ASSUME qlen > 0, queue
      PROVE  /\ ll /\ len > 0 /\ len = qlen /\ L!Contents # <<>> /\ head \in nodes
             /\ data[head] = Head(L!Contents) /\ data[head] \in Value
  <2>1. ll /\ len > 0 /\ len = qlen /\ data[head] = L!Contents[1]
        /\ Len(L!Contents) > 0 /\ head \in nodes
    BY <1>1, <1>2, <1>5
  <2>2. 1 \in 1..Len(L!Contents) /\ L!Contents # <<>>
    BY <1>2, <2>1
  <2>3. L!Contents[1] \in Value /\ Head(L!Contents) = L!Contents[1]
    BY <1>2, <2>2, ElementOfSeq
  <2> QED
    BY <2>1, <2>2, <2>3
<1> QED
  BY <1>1, <1>2, <1>3, <1>4, <1>5

LEMMA ListStill ==
  ASSUME LP!Inv, UNCHANGED <<list, crashed>>
  PROVE  LP!Inv' /\ UNCHANGED <<ll, len, nodes, L!Contents>>
<1>1. UNCHANGED LP!vars /\ UNCHANGED <<ll, len, nodes>>
  BY DEF list, LP!vars, LP!list
<1>2. LP!Inv' /\ LP!Contents' = LP!Contents
  BY <1>1, SameAssumptions, LP!StutterStep DEF LP!Still
<1> QED
  BY <1>1, <1>2, SameContents

(* A call that leaves the list and the lengths alone.                      *)
LEMMA StillStep ==
  ASSUME Inv, UNCHANGED <<queue, qlen, list, crashed>>, out' \in Value, call' \in CallName,
         ret' \in 0..SizeMax
  PROVE  Inv' /\ UNCHANGED <<queue, ll, L!Contents>>
<1>1. LP!Inv' /\ UNCHANGED <<ll, len, L!Contents>> /\ UNCHANGED <<queue, qlen>>
  BY ListStill DEF Inv
<1>2. LengthsAgree' /\ QueueTypes'
  BY <1>1 DEF Inv, LengthsAgree, QueueTypes
<1> QED
  BY <1>1, <1>2 DEF Inv

LEMMA AnswerStep ==
  ASSUME Inv, NEW name \in CallName, NEW r \in 0..SizeMax, Answer(name, r)
  PROVE  Inv' /\ crashed' = crashed /\ Promise!Answer(name, r)
<1>1. /\ UNCHANGED <<queue, qlen, list, out, crashed>> /\ call' = name /\ ret' = r
  BY DEF Answer, Called
<1>2. out' \in Value
  BY <1>1 DEF Inv, QueueTypes
<1>3. Inv' /\ UNCHANGED <<queue, ll, L!Contents>>
  BY <1>1, <1>2, StillStep
<1> QED
  BY <1>1, <1>3 DEF Promise!Answer, Promise!Called

(* The calls of the queue.                                                 *)
LEMMA CreateStep ==
  ASSUME Inv, Create
  PROVE  Inv' /\ crashed' = crashed /\ Promise!Create
<1>0. ~queue /\ ~ll /\ 1 \in 0..SizeMax /\ 0 \in 0..SizeMax
      /\ {"create"} \subseteq CallName /\ SizeMax \in Nat
  BY QueueNow DEF Create, Inv, CallName
<1>1. CASE Answer("create", 0)
  BY <1>0, <1>1, AnswerStep DEF Promise!Answer, Promise!Called, Promise!Create
<1>2. CASE /\ L!Create
           /\ queue' = TRUE /\ qlen' = 0
           /\ Called("create", 1)
           /\ UNCHANGED out
  <2>1. LP!Inv' /\ UNCHANGED <<crashed, L!Contents>> /\ (ll' => len' = 0)
    BY <1>2, CreateList DEF Inv
  <2>2. QueueTypes' /\ LengthsAgree'
    BY <1>0, <1>2, <2>1 DEF Inv, QueueTypes, LengthsAgree, Called
  <2>3. Inv'
    BY <1>2, <2>1, <2>2 DEF Inv
  <2> QED
    BY <1>0, <1>2, <2>1, <2>3 DEF Called, Promise!Create, Promise!Called
<1> QED
  BY <1>1, <1>2 DEF Create

LEMMA DeleteStep ==
  ASSUME Inv, ~crashed, Delete
  PROVE  Inv' /\ crashed' = crashed /\ Promise!Delete
<1>1. LP!Inv' /\ crashed' = crashed /\ ~ll' /\ L!Contents' = <<>>
  <2>1. CASE ll
    BY <2>1, DeleteList DEF Delete, Inv
  <2>2. CASE ~ll
    <3>1. UNCHANGED <<list, crashed>>
      BY <2>2 DEF Delete
    <3> QED
      BY <2>2, <3>1, ListStill, QueueNow DEF Inv
  <2> QED
    BY <2>1, <2>2
<1>0. /\ queue /\ queue' = FALSE /\ call' = "delete" /\ ret' = 1 /\ UNCHANGED <<qlen, out>>
      /\ 1 \in 0..SizeMax /\ "delete" \in CallName /\ <<>> \in Seq(Value)
  BY <1>1, QueueNow, EmptySeq DEF Delete, Called, CallName
<1>2. QueueTypes' /\ LengthsAgree'
  BY <1>0 DEF Inv, QueueTypes, LengthsAgree
<1>3. Inv'
  BY <1>0, <1>1, <1>2 DEF Inv
<1> QED
  BY <1>0, <1>1, <1>3 DEF Promise!Delete, Promise!Called

(* A crash is no step of the promise.                                      *)
LEMMA PushStep ==
  ASSUME Inv, queue, ~crashed, NEW d \in Value, Push(d)
  PROVE  /\ Inv'
         /\ \/ "node" \in MallocFails /\ UNCHANGED Promise!vars
            \/ crashed' = crashed /\ Promise!Push(d)
<1>0. 1 \in 0..SizeMax /\ 0 \in 0..SizeMax /\ "push" \in CallName
  BY QueueNow DEF CallName
<1>1. CASE ~ll /\ Answer("push", 0)
  <2>1. Inv' /\ crashed' = crashed /\ Promise!Answer("push", 0)
    BY <1>0, <1>1, AnswerStep
  <2> QED
    BY <1>1, <2>1 DEF Promise!Push
<1>2. CASE /\ ll
           /\ L!InsertEnd(d)
           /\ IF crashed' THEN UNCHANGED <<qlen, call, ret>>
                          ELSE qlen' = SizeT(qlen + 1) /\ Called("push", 1)
           /\ UNCHANGED <<queue, out>>
  <2>1. /\ LP!Inv' /\ ll' = ll
        /\ \/ "node" \in MallocFails /\ L!Crash
           \/ crashed' = crashed /\ L!Contents' = Append(L!Contents, d)
    BY <1>2, PushList DEF Inv
  <2>2. CASE "node" \in MallocFails /\ L!Crash
    <3>1. /\ crashed' /\ UNCHANGED <<qlen, call, ret, queue, out>>
          /\ UNCHANGED <<ll, head, tail, len, next, prev, data, nodes>>
      BY <1>2, <2>2 DEF L!Crash, L!list
    <3>2. L!Contents' = L!Contents
      BY <3>1 DEF L!Contents, L!Elem
    <3>3. QueueTypes' /\ LengthsAgree'
      BY <3>1 DEF Inv, QueueTypes, LengthsAgree
    <3>4. Inv'
      BY <2>1, <3>1, <3>2, <3>3 DEF Inv
    <3> QED
      BY <2>2, <3>1, <3>2, <3>4 DEF Promise!vars
  <2>3. CASE crashed' = crashed /\ L!Contents' = Append(L!Contents, d)
    <3>1. /\ qlen' = SizeT(qlen + 1) /\ call' = "push" /\ ret' = 1 /\ UNCHANGED <<queue, out>>
      BY <1>2, <2>3 DEF Called
    <3>2. /\ L!Contents' \in Seq(Value) /\ Len(L!Contents') = qlen + 1 /\ qlen \in Nat
          /\ SizeMax \in Nat /\ UIntMax \in Nat /\ UIntMax <= SizeMax
      BY <2>3, QueueNow, AppendProperties
    <3>3. len' \in Nat /\ len' <= UIntMax /\ Len(L!Contents') = len'
      <4>1. (LP!Inv /\ ll => len \in Nat /\ len <= UIntMax /\ Len(L!Contents) = len)'
        BY LengthNow, PTL
      <4> QED
        BY <1>2, <2>1, <4>1
    <3>4. qlen' = len' /\ qlen' \in 0..SizeMax
      BY <3>1, <3>2, <3>3 DEF SizeT
    <3>5. QueueTypes' /\ LengthsAgree'
      BY <1>0, <1>2, <2>1, <3>1, <3>4 DEF Inv, QueueTypes, LengthsAgree
    <3>6. Inv'
      BY <1>2, <2>1, <3>1, <3>2, <3>5 DEF Inv
    <3> QED
      BY <1>2, <2>1, <2>3, <3>1, <3>6 DEF Promise!Push, Promise!Called
  <2> QED
    BY <2>1, <2>2, <2>3
<1> QED
  BY <1>1, <1>2 DEF Push

LEMMA PopStep ==
  ASSUME Inv, queue, ~crashed, Pop
  PROVE  Inv' /\ crashed' = crashed /\ Promise!Pop
<1>0. 1 \in 0..SizeMax /\ 0 \in 0..SizeMax /\ "pop" \in CallName /\ qlen \in Nat
  BY QueueNow DEF CallName
<1>1. CASE qlen = 0
  <2>1. Answer("pop", 0) /\ L!Contents = <<>>
    BY <1>1, QueueNow DEF Pop
  <2> QED
    BY <1>0, <2>1, AnswerStep DEF Promise!Pop
<1>2. CASE qlen > 0
  <2>1. L!Remove(0) /\ queue' = queue
    <3>1. qlen # 0 /\ head \in nodes
      BY <1>0, <1>2, QueueNow
    <3> QED
      BY <3>1 DEF Pop
  <2>2. /\ ll /\ len > 0 /\ L!Contents # <<>> /\ L!Contents \in Seq(Value) /\ head \in nodes
        /\ data[head] = Head(L!Contents) /\ data[head] \in Value /\ Len(L!Contents) = qlen
    BY <1>2, QueueNow
  <2>3. /\ LP!Inv' /\ UNCHANGED <<ll, crashed>> /\ lret' = 1 /\ L!Contents' = Tail(L!Contents)
    BY <2>1, <2>2, PopList DEF Inv
  <2>a. out' = data[head] /\ qlen' = qlen - 1 /\ call' = "pop" /\ ret' = lret'
    <3>1. qlen # 0
      BY <1>0, <1>2
    <3> QED
      BY <2>2, <2>3, <3>1 DEF Pop, Called
  <2>4. L!Contents' \in Seq(Value) /\ Len(L!Contents') = qlen - 1
    BY <2>2, <2>3, HeadTailProperties
  <2>5. Len(L!Contents') = len'
    <3>1. (LP!Inv /\ ll => len \in Nat /\ len <= UIntMax /\ Len(L!Contents) = len)'
      BY LengthNow, PTL
    <3> QED
      BY <2>2, <2>3, <3>1
  <2>6. QueueTypes' /\ LengthsAgree'
    <3>1. qlen' = len' /\ qlen' \in 0..SizeMax
      BY <1>0, <1>2, <2>a, <2>4, <2>5, QueueNow DEF Inv, QueueTypes
    <3> QED
      BY <1>0, <2>1, <2>2, <2>3, <2>a, <3>1 DEF Inv, QueueTypes, LengthsAgree
  <2>7. Inv'
    BY <2>1, <2>2, <2>3, <2>4, <2>6 DEF Inv
  <2> QED
    BY <2>1, <2>2, <2>3, <2>7, <2>a DEF Promise!Pop, Promise!Called
<1> QED
  BY <1>0, <1>1, <1>2

LEMMA PeekStep ==
  ASSUME Inv, queue, ~crashed, Peek
  PROVE  Inv' /\ crashed' = crashed /\ Promise!Peek
<1>0. 1 \in 0..SizeMax /\ 0 \in 0..SizeMax /\ "next" \in CallName /\ qlen \in Nat
  BY QueueNow DEF CallName
<1>1. CASE qlen = 0
  <2>1. Answer("next", 0) /\ L!Contents = <<>>
    BY <1>1, QueueNow DEF Peek
  <2> QED
    BY <1>0, <2>1, AnswerStep DEF Promise!Peek
<1>2. CASE qlen > 0
  <2>1. /\ out' = data[head] /\ call' = "next" /\ ret' = 1
        /\ UNCHANGED <<queue, qlen, list, crashed>>
    <3>1. qlen # 0 /\ head \in nodes
      BY <1>0, <1>2, QueueNow
    <3> QED
      BY <3>1 DEF Peek, Called
  <2>2. /\ L!Contents # <<>> /\ data[head] = Head(L!Contents) /\ data[head] \in Value
    BY <1>2, QueueNow
  <2>3. Inv' /\ UNCHANGED <<queue, ll, L!Contents>>
    BY <1>0, <2>1, <2>2, StillStep
  <2> QED
    BY <2>1, <2>2, <2>3 DEF Promise!Peek, Promise!Called
<1> QED
  BY <1>0, <1>1, <1>2

LEMMA NextStep ==
  ASSUME Inv, Next
  PROVE  /\ Inv'
         /\ Promise!Next \/ UNCHANGED Promise!vars
<1>0. /\ 1 \in 0..SizeMax /\ 0 \in 0..SizeMax /\ SizeMax \in 0..SizeMax /\ qlen \in 0..SizeMax
      /\ {"delete", "push", "pop", "next", "has_next", "size"} \subseteq CallName
      /\ queue => Len(L!Contents) = qlen /\ (qlen = 0 => L!Contents = <<>>)
                /\ (qlen > 0 => L!Contents # <<>>) /\ (qlen = 0 \/ qlen > 0)
      /\ ~queue => L!Contents = <<>> /\ ~ll
      /\ \E v \in Value : TRUE
  BY QueueNow DEF CallName, Inv, QueueTypes
<1>1. CASE Create
  BY <1>1, CreateStep DEF Promise!Next
<1>2. CASE ~queue /\ CallOnNull
  <2>1. CASE Answer("size", SizeMax)
    BY <1>0, <1>2, <2>1, AnswerStep DEF Promise!Next, Promise!Size
  <2>2. CASE \E name \in {"delete", "push", "pop", "next", "has_next"} : Answer(name, 0)
    <3>1. PICK name \in {"delete", "push", "pop", "next", "has_next"} : Answer(name, 0)
      BY <2>2
    <3>2. Inv' /\ Promise!Answer(name, 0)
      BY <1>0, <3>1, AnswerStep
    <3> QED
      BY <1>0, <1>2, <3>1, <3>2
         DEF Promise!Next, Promise!Delete, Promise!Push, Promise!Pop, Promise!Peek, Promise!HasNext
  <2> QED
    BY <1>2, <2>1, <2>2 DEF CallOnNull
<1>3. CASE queue /\ CallOnQueue
  <2>1. CASE Delete
    BY <2>1, DeleteStep DEF Next, Promise!Next
  <2>2. CASE \E d \in Value : Push(d)
    BY <1>3, <2>2, PushStep DEF Next, Promise!Next
  <2>3. CASE Pop
    BY <1>3, <2>3, PopStep DEF Next, Promise!Next
  <2>4. CASE Peek
    BY <1>3, <2>4, PeekStep DEF Next, Promise!Next
  <2>5. CASE HasNext
    <3>1. Answer("has_next", IF L!Contents = <<>> THEN 0 ELSE 1)
      BY <1>0, <1>3, <2>5 DEF HasNext
    <3> QED
      BY <1>0, <3>1, AnswerStep DEF Promise!Next, Promise!HasNext
  <2>6. CASE Size
    BY <1>0, <1>3, <2>6, AnswerStep DEF Size, Promise!Next, Promise!Size
  <2> QED
    BY <1>3, <2>1, <2>2, <2>3, <2>4, <2>5, <2>6 DEF CallOnQueue
<1> QED
  BY <1>1, <1>2, <1>3 DEF Next

LEMMA StutterStep ==
  ASSUME Inv, UNCHANGED vars
  PROVE  Inv' /\ UNCHANGED Promise!vars
<1>1. UNCHANGED <<queue, qlen, list, out, call, ret, crashed>>
  BY DEF vars
<1>2. out' \in Value /\ call' \in CallName /\ ret' \in 0..SizeMax
  BY <1>1 DEF Inv, QueueTypes
<1> QED
  BY <1>1, <1>2, StillStep DEF Promise!vars

LEMMA InitInv == Init => Inv /\ Promise!Init
<1> SUFFICES ASSUME Init PROVE Inv /\ Promise!Init
  OBVIOUS
<1>1. LP!Inv /\ ~ll
  BY SameAssumptions, SameState, LP!InitInv DEF Init, L!Init
<1>2. QueueTypes
  BY ListAssumption DEF Init, QueueTypes, CallName, L!NumberAssumption
<1>3. L!Contents = <<>>
  BY <1>1 DEF L!Contents
<1> QED
  BY <1>1, <1>2, <1>3, EmptySeq DEF Init, Inv, LengthsAgree, Promise!Init

----------------------------------------------------------------------------
(* The invariant holds whatever the allocator refuses.                     *)
THEOREM Inductive == Spec => []Inv
<1>1. Init => Inv
  BY InitInv
<1>2. Inv /\ [Next]_vars => Inv'
  BY NextStep, StutterStep
<1> QED
  BY <1>1, <1>2, PTL DEF Spec

(* The queue and its list keep their types; what comes out is a value.     *)
THEOREM TypeCorrect == Spec => []TypeOK
<1>1. Inv => TypeOK
  BY ListNow DEF Inv, QueueTypes, CallName, TypeOK
<1> QED
  BY <1>1, Inductive, PTL

(* The two lengths, of different widths, always agree.                     *)
THEOREM LengthsSafe == Spec => []LengthsAgree
<1>1. Inv => LengthsAgree
  BY DEF Inv
<1> QED
  BY <1>1, Inductive, PTL

(* Without the queue no list and no node is left, and the list is well     *)
(* linked while there is one.                                              *)
THEOREM NoLeak == Spec => []NothingLeft
<1>1. Inv => NothingLeft
  BY ListNow DEF Inv, NothingLeft
<1> QED
  BY <1>1, Inductive, PTL

(* Values come out in the order they went in, call by call, until a node   *)
(* is refused.                                                             *)
THEOREM Refinement == Spec => ImplementsFifo
<1>1. Init => Promise!Init
  BY InitInv
<1>2. Inv /\ [Next]_vars => [Promise!Next]_(Promise!vars)
  BY NextStep, StutterStep
<1> QED
  BY <1>1, <1>2, Inductive, PTL DEF Spec, ImplementsFifo, Promise!Spec
=============================================================================
