------------------------ MODULE LockFreeQueueProofs -------------------------
(***************************************************************************)
(* The three theorems about the lock-free queue, for any threads, cells and*)
(* items: no deleted node is followed, the size is exact at rest, and the  *)
(* queue implements an abstract first-in first-out queue.                  *)
(***************************************************************************)
EXTENDS LockFreeQueueList, FiniteSetTheorems, SequenceTheorems

\* With a single consumer, every pointer that is followed leads to a live cell.
LEMMA FollowsLiveCells ==
  ASSUME TypeInv, NEW c \in Places, Shape(c), OneConsumer, NEW i \in Threads, push(i) \/ pop(i)
  PROVE  pc'[i] # "undefined"
<1>0. /\ first \in Nat /\ last \in Nat /\ first <= last /\ c[first] = head_
      /\ \A k \in first..last : c[k] \in alive
  BY Ends, Zenon DEF TypeInv, Shape, Linked
<1>a. PushLocal(c, i) /\ PopLocal(c, i)
  BY DEF Shape
<1>b. pc \in [Threads -> Positions]
  BY DEF TypeInv, Types
<1>c. head_ \in alive
  BY <1>0
<1>1. CASE NewNode(i) \/ PushLoadTail(i) \/ PushCheck(i) \/ Count(i)
  BY <1>1, <1>b, ZenonT(30) DEF NewNode, PushLoadTail, PushCheck, Count, Goto
<1>2. CASE PushLoadNext(i) \/ Link(i)
  <2>1. pc[i] \in AtTail
    BY <1>2, ZenonT(30) DEF PushLoadNext, Link, AtTail
  <2>2. t[i] \in alive
    BY <1>0, <1>a, <2>1, ZenonT(30) DEF PushLocal
  <2> QED BY <1>2, <1>b, <2>2, ZenonT(30) DEF PushLoadNext, Link, Deref, Goto
<1>3. ASSUME NEW from, NEW to, NEW l, l # "undefined", SwingTail(i, from, to, l)
      PROVE  pc'[i] # "undefined"
  BY <1>3, <1>b, ZenonT(30) DEF SwingTail, Goto
<1>4. CASE PopLoadHead(i) \/ PopLoadTail(i) \/ PopCheck(i) \/ AdvanceHead(i) \/ Discount(i)
  BY <1>4, <1>b, ZenonT(30) DEF PopLoadHead, PopLoadTail, PopCheck, after_check, AdvanceHead, Discount, Goto
<1>5. CASE PopLoadNext(i)
  <2>1. h[i] \in alive
    BY <1>5, <1>a, <1>c, ZenonT(30) DEF PopLoadNext, PopLocal, PopRead
  <2> QED BY <1>5, <1>b, <2>1, ZenonT(30) DEF PopLoadNext, Deref, Goto
<1>6. CASE MoveOut(i)
  <2>1. pc[i] = "move" /\ h[i] = head_
    BY <1>6, <1>a, ZenonT(30) DEF MoveOut, PopLocal, PopRead
  <2>2. n[i] \in alive
    <3>1. first < last /\ n[i] = c[first + 1]
      BY <2>1, HasNext, ZenonT(30)
    <3>2. first + 1 \in first..last
      BY <1>0, <3>1
    <3> QED BY <1>0, <3>1, <3>2, ZenonT(30)
  <2> QED BY <1>6, <1>b, <2>2, ZenonT(30) DEF MoveOut, Deref, Goto
<1>7. CASE Delete(i)
  <2>1. h[i] \in alive
    BY <1>7, <1>a, ZenonT(30) DEF Delete, PopLocal
  <2> QED BY <1>7, <1>b, <2>1, ZenonT(30) DEF Delete, victim, Deref, Goto
<1> QED BY <1>1, <1>2, <1>3, <1>4, <1>5, <1>6, <1>7, ZenonT(30) DEF push, pop

\* The inductive invariant of the list.
ListInv ==
  /\ TypeInv
  /\ \E c \in Places : Shape(c)
  /\ NoUseAfterDelete

\* The constructor makes a list of the dummy alone.
LEMMA ListInit == Init => ListInv
<1> SUFFICES ASSUME Init PROVE ListInv
  BY Zenon
<1>1. PICK dummy \in Nodes :
        /\ next = [x \in Nodes |-> Null]
        /\ data = [x \in Nodes |-> Moved]
        /\ alive = {dummy}
        /\ head_ = dummy /\ tail_ = dummy /\ size_ = 0
        /\ pc = [i \in Threads |-> "idle"]
        /\ node = [i \in Threads |-> Null]
        /\ h = node /\ t = node /\ n = node
        /\ res = [i \in Threads |-> Moved]
        /\ usage \in Usages
        /\ items = 0 /\ pushed = <<>> /\ popped = <<>>
  BY DEF Init
<1>a. MaxItems \in Nat
  BY QueueAssumption, Zenon
<1>2. Types
  BY <1>1, <1>a DEF Types, Cells, Moved, Positions
<1>3. \A i \in Threads : pc[i] = "idle" /\ node[i] = Null /\ h[i] = Null
  BY <1>1, Zenon
<1>4. Callers /\ Pointers
  BY <1>3, Zenon DEF Callers, Pointers, PushPositions, Pushing, PopPositions, PopRead
<1>5. PICK c \in Places : \A k \in Nat : c[k] = dummy
  <2>1. [k \in Nat |-> dummy] \in Places
    BY Zenon DEF Places
  <2> QED BY <2>1, Zenon
<1>6. first = 0 /\ last = 0
  BY <1>1, Zenon DEF first, last
<1>7. Linked(c) /\ TailNear(c)
  BY <1>1, <1>5, <1>6, SMTT(30) DEF Linked, TailNear
<1>8. Apart /\ InOrder(c)
  BY <1>3, <1>6, SMTT(30) DEF Apart, InOrder, Pushing
<1>9. \A i \in Threads : Owns(c, i) /\ PushLocal(c, i) /\ PopLocal(c, i)
  BY <1>3, Zenon DEF Owns, PushLocal, PopLocal, Pushing, AtTail, PopRead
<1> QED BY <1>2, <1>3, <1>4, <1>7, <1>8, <1>9, ZenonT(30) DEF ListInv, TypeInv, Shape, NoUseAfterDelete, Defined

\* Every step keeps the invariant of the list.
LEMMA ListStep == ListInv /\ [Next]_vars => ListInv'
<1> SUFFICES ASSUME ListInv, [Next]_vars PROVE ListInv'
  OBVIOUS
<1>1. CASE UNCHANGED vars
  <2> USE <1>1 DEF vars
  <2>1. Types' /\ Callers' /\ Pointers'
    BY Zenon DEF ListInv, TypeInv, Types, Callers, Pointers, OneProducer, OneConsumer, Ordered
  <2>2. PICK c \in Places : Shape(c)
    BY DEF ListInv
  <2>3. first' = first /\ last' = last
    BY DEF first, last
  <2>4. Shape(c)'
    <3>1. Linked(c)' /\ TailNear(c)'
      BY <2>2, <2>3, Zenon DEF Shape, Linked, TailNear
    <3>2. Apart'
      BY <2>2, Zenon DEF Shape, Apart
    <3>3. InOrder(c)'
      BY <2>2, <2>3, Zenon DEF Shape, InOrder, Ordered
    <3>4. ASSUME NEW i \in Threads PROVE Owns(c, i)' /\ PushLocal(c, i)' /\ PopLocal(c, i)'
      <4>1. Owns(c, i) /\ PushLocal(c, i) /\ PopLocal(c, i)
        BY <2>2, Zenon DEF Shape
      <4>2. Owns(c, i)'
        BY <2>3, <4>1, Zenon DEF Owns
      <4>3. PushLocal(c, i)'
        BY <2>3, <4>1, Zenon DEF PushLocal, OneProducer
      <4>4. PopLocal(c, i)'
        BY <2>3, <4>1, Zenon DEF PopLocal, OneConsumer, Ordered
      <4> QED BY <4>2, <4>3, <4>4, ZenonT(30)
    <3> QED BY <3>1, <3>2, <3>3, <3>4, ZenonT(30) DEF Shape
  <2>5. NoUseAfterDelete'
    BY DEF ListInv, NoUseAfterDelete, Defined, OneConsumer, Ordered
  <2> QED BY <2>1, <2>4, <2>5, ZenonT(30) DEF ListInv, TypeInv
<1>2. CASE Next
  <2>1. PICK i \in Threads : (i \in Producers /\ push(i)) \/ (i \in Consumers /\ pop(i))
    BY <1>2, Zenon DEF Next, Threads
  <2>2. PICK c \in Places : Shape(c)
    BY DEF ListInv
  <2>3. TypeInv /\ Defined
    BY <1>2, Zenon DEF ListInv, Next
  <2>4. TypeInv'
    BY <2>1, <2>3, PushTypes, PopTypes, ZenonT(30)
  <2>5. \E d \in Places : Shape(d)'
    BY <2>1, <2>2, <2>3, StepShape, ZenonT(30)
  <2>6. NoUseAfterDelete'
    <3>1. Others(i) /\ usage' = usage
      BY <2>1, <2>3, OneThread, Zenon DEF TypeInv
    <3>2. OneConsumer' => OneConsumer
      BY <3>1, Zenon DEF OneConsumer, Ordered
    <3>3. OneConsumer => pc'[i] # "undefined"
      BY <2>1, <2>2, <2>3, FollowsLiveCells, ZenonT(30)
    <3> QED BY <2>3, <3>1, <3>2, <3>3, ZenonT(30) DEF NoUseAfterDelete, Defined, Others
  <2> QED BY <2>4, <2>5, <2>6, Zenon DEF ListInv
<1> QED BY <1>1, <1>2, Zenon

\* No thread follows head_, tail_ or a next pointer into a deleted node while
\* there is one consumer, and one producer beside it or any number before it:
\* deleting the old dummy at once is safe, whatever cell new hands out again.
THEOREM DeletingAtOnceIsSafe == Spec => []NoUseAfterDelete
<1>1. ListInv => NoUseAfterDelete
  BY Zenon DEF ListInv
<1> QED BY <1>1, ListInit, ListStep, PTL DEF Spec

-----------------------------------------------------------------------------
(* The size. *)

\* The threads at one of the positions in S.
At(S) == {i \in Threads : pc[i] \in S}

\* How many threads are at S changes by the one that moves.
LEMMA AtChange ==
  ASSUME NEW S, NEW i \in Threads, Others(i)
  PROVE  /\ Cardinality(At(S)) \in Nat
         /\ Cardinality(At(S)') = Cardinality(At(S)) + (IF pc'[i] \in S THEN 1 ELSE 0)
                                                     - (IF pc[i] \in S THEN 1 ELSE 0)
<1> DEFINE rest == At(S) \ {i}
<1>1. IsFiniteSet(Threads)
  <2>1. IsFiniteSet(Producers) /\ IsFiniteSet(Consumers)
    BY QueueAssumption, Zenon
  <2> QED BY <2>1, FS_Union, Zenon DEF Threads
<1>2. rest \subseteq Threads
  BY DEF At
<1>3. IsFiniteSet(rest)
  BY <1>1, <1>2, FS_Subset, Zenon
<1>4. i \notin rest
  OBVIOUS
<1>5. At(S) = IF pc[i] \in S THEN rest \cup {i} ELSE rest
  BY DEF At
<1>6. At(S)' = IF pc'[i] \in S THEN rest \cup {i} ELSE rest
  BY DEF At, Others
<1> HIDE DEF rest
<1>7. Cardinality(rest) \in Nat /\ Cardinality(rest \cup {i}) = Cardinality(rest) + 1
  BY <1>3, <1>4, FS_AddElement, FS_CardinalityType, ZenonT(30)
<1> QED BY <1>5, <1>6, <1>7

uncounted == Cardinality(At({"swing", "count"}))
undiscounted == Cardinality(At({"discount"}))
unlinked == Cardinality(At(Pushing))

\* What the counter stands for: the items linked and counted, less those claimed
\* and discounted. It may be negative for a while, and size_ wraps then.
balance == (last - uncounted) - (first - undiscounted)

SizeInv ==
  /\ uncounted \in Nat /\ undiscounted \in Nat /\ unlinked \in Nat
  /\ last + unlinked <= items
  /\ uncounted <= last
  /\ undiscounted <= first
  /\ size_ = IF balance >= 0 THEN balance ELSE balance + W

\* Counting modulo W, one up and one down.
LEMMA Wraps ==
  ASSUME NEW w \in Nat, NEW x \in 0..w-1
  PROVE  /\ (x + 1) % w = IF x + 1 = w THEN 0 ELSE x + 1
         /\ (x + w - 1) % w = IF x = 0 THEN w - 1 ELSE x - 1
<1>1. \A y \in 0..w-1 : y % w = y
  OBVIOUS
<1>2. \A y \in 0..w-1 : (y + w) % w = y
  OBVIOUS
<1>3. x + 1 = w => (x + 1) % w = 0
  BY <1>2
<1>4. x + 1 # w => (x + 1) % w = x + 1
  <2>1. x + 1 # w => x + 1 \in 0..w-1
    OBVIOUS
  <2> QED BY <1>1, <2>1, Zenon
<1>5. x = 0 => (x + w - 1) % w = w - 1
  <2>1. x = 0 => w - 1 \in 0..w-1 /\ x + w - 1 = w - 1
    OBVIOUS
  <2> QED BY <1>1, <2>1, Zenon
<1>6. x # 0 => (x + w - 1) % w = x - 1
  <2>1. x # 0 => x - 1 \in 0..w-1 /\ x + w - 1 = (x - 1) + w
    OBVIOUS
  <2> QED BY <1>2, <2>1, Zenon
<1> QED BY <1>3, <1>4, <1>5, <1>6, ZenonT(30)

\* A step that counts, links and claims nothing keeps the size.
LEMMA SizeKept ==
  ASSUME SizeInv, Types, NEW i \in Threads, Others(i),
         UNCHANGED <<size_, pushed, popped, items>>,
         pc'[i] \in {"swing", "count"} <=> pc[i] \in {"swing", "count"},
         pc'[i] = "discount" <=> pc[i] = "discount",
         pc'[i] \in Pushing => pc[i] \in Pushing
  PROVE  SizeInv'
<1>1. first' = first /\ last' = last /\ first \in Nat /\ last \in Nat /\ items \in Int /\ items' = items
  BY Ends DEF first, last, Types
<1>2. uncounted' = uncounted /\ uncounted \in Nat
  <2>1. uncounted \in Nat /\ uncounted' = uncounted + (IF pc'[i] \in {"swing", "count"} THEN 1 ELSE 0)
                                 - (IF pc[i] \in {"swing", "count"} THEN 1 ELSE 0)
    BY AtChange, Zenon DEF uncounted
  <2> QED BY <2>1
<1>3. undiscounted' = undiscounted /\ undiscounted \in Nat
  <2>1. undiscounted \in Nat /\ undiscounted' = undiscounted + (IF pc'[i] \in {"discount"} THEN 1 ELSE 0)
                                 - (IF pc[i] \in {"discount"} THEN 1 ELSE 0)
    BY AtChange, Zenon DEF undiscounted
  <2> QED BY <2>1
<1>4. unlinked' <= unlinked /\ unlinked \in Nat /\ unlinked' \in Nat
  <2>1. unlinked \in Nat /\ unlinked' = unlinked + (IF pc'[i] \in Pushing THEN 1 ELSE 0)
                                                 - (IF pc[i] \in Pushing THEN 1 ELSE 0)
    BY AtChange, Zenon DEF unlinked
  <2>2. pc[i] \in Pushing => unlinked >= 1
    <3>1. At(Pushing) \subseteq Threads /\ IsFiniteSet(Threads)
      <4>1. IsFiniteSet(Producers) /\ IsFiniteSet(Consumers)
        BY QueueAssumption, Zenon
      <4> QED BY <4>1, FS_Union, Zenon DEF Threads, At
    <3>2. IsFiniteSet(At(Pushing))
      BY <3>1, FS_Subset, Zenon
    <3>3. pc[i] \in Pushing => At(Pushing) # {}
      BY DEF At
    <3> QED BY <2>1, <3>2, <3>3, FS_EmptySet, SMTT(30) DEF unlinked
  <2> QED BY <2>1, <2>2
<1>5. balance' = balance
  BY <1>1, <1>2, <1>3, ZenonT(30) DEF balance
<1>6. last' + unlinked' <= items'
  <2>1. last + unlinked <= items
    BY DEF SizeInv
  <2>2. \A a, b, d, x \in Int : a + b <= x /\ d <= b => a + d <= x
    OBVIOUS
  <2>3. last + unlinked' <= items
    <3>1. last \in Int /\ items \in Int
      BY <1>1
    <3>2. unlinked \in Int /\ unlinked' \in Int /\ unlinked' <= unlinked
      BY <1>4
    <3> QED BY <2>1, <2>2, <3>1, <3>2, ZenonT(30)
  <2> QED BY <1>1, <2>3, ZenonT(30)
<1>7. size_' = IF balance' >= 0 THEN balance' ELSE balance' + W
  BY <1>5, ZenonT(30) DEF SizeInv
<1> QED BY <1>1, <1>2, <1>3, <1>4, <1>6, <1>7, ZenonT(30) DEF SizeInv

\* The three numbers of threads change by the one that moves.
LEMMA Tallies ==
  ASSUME NEW i \in Threads, Others(i)
  PROVE  /\ uncounted' = uncounted + (IF pc'[i] \in {"swing", "count"} THEN 1 ELSE 0)
                                   - (IF pc[i] \in {"swing", "count"} THEN 1 ELSE 0)
         /\ undiscounted' = undiscounted + (IF pc'[i] \in {"discount"} THEN 1 ELSE 0)
                                         - (IF pc[i] \in {"discount"} THEN 1 ELSE 0)
         /\ unlinked' = unlinked + (IF pc'[i] \in Pushing THEN 1 ELSE 0)
                                 - (IF pc[i] \in Pushing THEN 1 ELSE 0)
         /\ uncounted' \in Nat /\ undiscounted' \in Nat /\ unlinked' \in Nat
<1>1. /\ uncounted' = uncounted + (IF pc'[i] \in {"swing", "count"} THEN 1 ELSE 0)
                                - (IF pc[i] \in {"swing", "count"} THEN 1 ELSE 0)
      /\ undiscounted' = undiscounted + (IF pc'[i] \in {"discount"} THEN 1 ELSE 0)
                                      - (IF pc[i] \in {"discount"} THEN 1 ELSE 0)
      /\ unlinked' = unlinked + (IF pc'[i] \in Pushing THEN 1 ELSE 0)
                              - (IF pc[i] \in Pushing THEN 1 ELSE 0)
  BY AtChange, Zenon DEF uncounted, undiscounted, unlinked
<1>2. ASSUME NEW S PROVE Cardinality(At(S)') \in Nat
  <2>1. At(S)' \subseteq Threads /\ IsFiniteSet(Threads)
    <3>1. IsFiniteSet(Producers) /\ IsFiniteSet(Consumers)
      BY QueueAssumption
    <3> QED BY <3>1, FS_Union, Zenon DEF Threads, At
  <2>2. IsFiniteSet(At(S)')
    BY <2>1, FS_Subset, ZenonT(30)
  <2> QED BY <2>2, FS_CardinalityType, ZenonT(30)
<1>3. uncounted' \in Nat /\ undiscounted' \in Nat /\ unlinked' \in Nat
  BY <1>2, ZenonT(30) DEF uncounted, undiscounted, unlinked
<1> QED BY <1>1, <1>3, ZenonT(30)

\* Every step keeps what the counter stands for.
LEMMA SizeStep ==
  ASSUME SizeInv, ListInv, NEW i \in Threads, push(i) \/ pop(i)
  PROVE  SizeInv'
<1>0. Others(i) /\ Types /\ pc \in [Threads -> Positions]
  BY OneThread, ZenonT(30) DEF ListInv, TypeInv, Types
<1>a. /\ first \in Nat /\ last \in Nat /\ items \in Nat /\ first <= last /\ items <= MaxItems
      /\ uncounted \in Nat /\ undiscounted \in Nat /\ unlinked \in Nat
      /\ uncounted <= last /\ undiscounted <= first /\ last + unlinked <= items
  BY <1>0, Ends, SMTT(30) DEF ListInv, Types, Shape, Linked, SizeInv
<1>b. W \in Nat /\ MaxItems \in Nat /\ MaxItems < W
  BY QueueAssumption, Zenon
<1>c. /\ balance \in Int /\ balance <= MaxItems /\ balance >= 0 - MaxItems
      /\ size_ = IF balance >= 0 THEN balance ELSE balance + W
      /\ size_ \in 0..W-1
  <2>1. balance \in Int /\ balance <= MaxItems /\ balance >= 0 - MaxItems
    BY <1>a, <1>b DEF balance
  <2>2. size_ = IF balance >= 0 THEN balance ELSE balance + W
    BY Zenon DEF SizeInv
  <2> QED BY <1>b, <2>1, <2>2, SMTT(30)
<1>1. CASE NewNode(i)
  <2>1. /\ pc[i] = "idle" /\ pc'[i] = "load_tail" /\ items' = items + 1
        /\ UNCHANGED <<size_, pushed, popped>>
    BY <1>0, <1>1, ZenonT(30) DEF NewNode, Goto
  <2>2. first' = first /\ last' = last
    BY <2>1, Zenon DEF first, last
  <2>3. /\ uncounted' = uncounted /\ undiscounted' = undiscounted /\ unlinked' = unlinked + 1
    BY <1>0, <1>a, <2>1, Tallies, SMTT(30) DEF Pushing
  <2>4. balance' = balance
    BY <2>2, <2>3, Zenon DEF balance
  <2> QED BY <1>a, <1>c, <2>1, <2>2, <2>3, <2>4, SMTT(30) DEF SizeInv
<1>2. CASE PushLoadTail(i) \/ PushLoadNext(i) \/ PushCheck(i)
  <2>1. pc[i] \in Pushing /\ pc'[i] \in Pushing \cup {"undefined"} /\ UNCHANGED <<size_, pushed, popped, items>>
    BY <1>0, <1>2, ZenonT(30) DEF PushLoadTail, PushLoadNext, PushCheck, Deref, Goto, Pushing, past
  <2> QED BY <1>0, <2>1, SizeKept, Zenon DEF Pushing
<1>3. CASE Link(i)
  <2>1. CASE /\ next_unchanged(i) /\ next' = [next EXCEPT ![t[i]] = node[i]]
             /\ pushed' = Append(pushed, data[node[i]]) /\ Deref(i, t[i], "swing")
    <3>1. pc[i] = "link" /\ UNCHANGED <<size_, popped, items>>
      BY <1>3, Zenon DEF Link
    <3>2. pc'[i] = "swing"
      BY <1>3, <2>1, LinkShape, ZenonT(30) DEF ListInv
    <3>3. first' = first /\ last' = last + 1
      <4>1. pushed \in Seq(Nat) /\ data[node[i]] \in Nat
        <5>1. node[i] \in Nodes
          BY <3>1, Zenon DEF ListInv, TypeInv, Types, Callers, PushPositions, Pushing, Cells
        <5> QED BY <1>0, <5>1, Zenon DEF Types
      <4> QED BY <2>1, <3>1, <4>1, AppendProperties, ZenonT(30) DEF first, last
    <3>4. /\ uncounted' = uncounted + 1 /\ undiscounted' = undiscounted /\ unlinked' = unlinked - 1
          /\ unlinked' \in Nat
      BY <1>0, <1>a, <3>1, <3>2, Tallies, SMTT(30) DEF Pushing
    <3>5. balance' = balance
      BY <1>a, <3>3, <3>4 DEF balance
    <3>6. items' = items /\ size_' = size_
      BY <3>1, ZenonT(30)
    <3> QED BY <1>a, <1>c, <3>3, <3>4, <3>5, <3>6, SMTT(30) DEF SizeInv
  <2>2. CASE UNCHANGED <<next, pushed>> /\ Deref(i, t[i], "load_tail")
    <3>1. pc[i] = "link" /\ pc'[i] \in {"load_tail", "undefined"} /\ UNCHANGED <<size_, pushed, popped, items>>
      BY <1>0, <1>3, <2>2, ZenonT(30) DEF Link, Deref, Goto
    <3> QED BY <1>0, <3>1, SizeKept, ZenonT(30) DEF Pushing
  <2> QED BY <1>3, <2>1, <2>2, ZenonT(30) DEF Link
<1>4. CASE SwingTail(i, "swing", node[i], "count")
  <2>1. pc[i] = "swing" /\ pc'[i] = "count" /\ UNCHANGED <<size_, pushed, popped, items>>
    BY <1>0, <1>4, ZenonT(30) DEF SwingTail, Goto, past
  <2> QED BY <1>0, <2>1, SizeKept, ZenonT(30) DEF Pushing
<1>5. CASE SwingTail(i, "help", n[i], "load_tail")
  <2>1. pc[i] = "help" /\ pc'[i] = "load_tail" /\ UNCHANGED <<size_, pushed, popped, items>>
    BY <1>0, <1>5, ZenonT(30) DEF SwingTail, Goto, past
  <2> QED BY <1>0, <2>1, SizeKept, ZenonT(30) DEF Pushing
<1>6. CASE Count(i)
  <2>1. /\ pc[i] = "count" /\ pc'[i] = "idle" /\ size_' = (size_ + 1) % W
        /\ UNCHANGED <<pushed, popped, items>>
    BY <1>0, <1>6, Zenon DEF Count, Goto, past
  <2>2. first' = first /\ last' = last /\ items' = items
    BY <2>1, Zenon DEF first, last
  <2>3. /\ uncounted' = uncounted - 1 /\ undiscounted' = undiscounted /\ unlinked' = unlinked
        /\ uncounted' \in Nat
    BY <1>0, <1>a, <2>1, Tallies, SMTT(30) DEF Pushing
  <2>4. balance' = balance + 1
    BY <1>a, <2>2, <2>3 DEF balance
  <2>5. size_' = IF size_ + 1 = W THEN 0 ELSE size_ + 1
    BY <1>b, <1>c, <2>1, Wraps, ZenonT(30)
  <2>6. balance' <= MaxItems
    BY <1>a, <1>b, <2>2, <2>3, SMTT(30) DEF balance
  <2>7. size_' = IF balance' >= 0 THEN balance' ELSE balance' + W
    BY <1>b, <1>c, <2>4, <2>5, <2>6, SMTT(30)
  <2> QED BY <1>a, <2>2, <2>3, <2>7, SMTT(30) DEF SizeInv
<1>7. CASE PopLoadHead(i) \/ PopLoadTail(i) \/ PopLoadNext(i) \/ PopCheck(i) \/ MoveOut(i)
  <2>1. /\ pc[i] \in {"idle", "retry", "pop_tail", "pop_next", "pop_check", "move"}
        /\ pc'[i] \in {"idle", "retry", "pop_tail", "pop_next", "pop_check", "pop_help", "move", "advance", "undefined"}
        /\ UNCHANGED <<size_, pushed, popped, items>>
    BY <1>0, <1>7, ZenonT(30) DEF PopLoadHead, PopLoadTail, PopLoadNext, PopCheck, after_check, MoveOut, Deref, Goto, past
  <2> QED BY <1>0, <2>1, SizeKept, ZenonT(30) DEF Pushing
<1>8. CASE SwingTail(i, "pop_help", n[i], "retry")
  <2>1. pc[i] = "pop_help" /\ pc'[i] = "retry" /\ UNCHANGED <<size_, pushed, popped, items>>
    BY <1>0, <1>8, ZenonT(30) DEF SwingTail, Goto, past
  <2> QED BY <1>0, <2>1, SizeKept, ZenonT(30) DEF Pushing
<1>9. CASE AdvanceHead(i)
  <2>1. CASE popped' = Append(popped, res[i]) /\ Goto(i, "discount")
    <3>1. pc[i] = "advance" /\ pc'[i] = "discount" /\ UNCHANGED <<size_, pushed, items>>
      BY <1>0, <1>9, <2>1, ZenonT(30) DEF AdvanceHead, Goto
    <3>2. first' = first + 1 /\ last' = last
      <4>1. popped \in Seq(Nat) /\ res[i] \in Nat
        BY <1>0, Zenon DEF Types
      <4> QED BY <2>1, <3>1, <4>1, AppendProperties, SMTT(30) DEF first, last
    <3>3. /\ uncounted' = uncounted /\ undiscounted' = undiscounted + 1 /\ unlinked' = unlinked
      BY <1>0, <1>a, <3>1, Tallies, SMTT(30) DEF Pushing
    <3>4. balance' = balance
      BY <1>a, <3>2, <3>3, SMTT(30) DEF balance
    <3>5. items' = items /\ size_' = size_
      BY <3>1, Zenon
    <3> QED BY <1>a, <1>c, <3>2, <3>3, <3>4, <3>5, SMTT(30) DEF SizeInv
  <2>2. CASE UNCHANGED popped /\ Goto(i, "retry")
    <3>1. pc[i] = "advance" /\ pc'[i] = "retry" /\ UNCHANGED <<size_, pushed, popped, items>>
      BY <1>0, <1>9, <2>2, ZenonT(30) DEF AdvanceHead, Goto
    <3> QED BY <1>0, <3>1, SizeKept, ZenonT(30) DEF Pushing
  <2> QED BY <1>9, <2>1, <2>2, ZenonT(30) DEF AdvanceHead
<1>10. CASE Discount(i)
  <2>1. /\ pc[i] = "discount" /\ pc'[i] = "delete" /\ size_' = (size_ + W - 1) % W
        /\ UNCHANGED <<pushed, popped, items>>
    BY <1>0, <1>10, ZenonT(30) DEF Discount, decremented, Goto, past
  <2>2. first' = first /\ last' = last /\ items' = items
    BY <2>1, Zenon DEF first, last
  <2>3. /\ uncounted' = uncounted /\ undiscounted' = undiscounted - 1 /\ unlinked' = unlinked
        /\ undiscounted' \in Nat
    BY <1>0, <1>a, <2>1, Tallies, SMTT(30) DEF Pushing
  <2>4. balance' = balance - 1
    BY <1>a, <2>2, <2>3, SMTT(30) DEF balance
  <2>5. size_' = IF size_ = 0 THEN W - 1 ELSE size_ - 1
    BY <1>b, <1>c, <2>1, Wraps, ZenonT(30)
  <2>6. balance' >= 0 - MaxItems
    BY <1>a, <1>b, <2>2, <2>3, SMTT(30) DEF balance
  <2>7. size_' = IF balance' >= 0 THEN balance' ELSE balance' + W
    BY <1>b, <1>c, <2>4, <2>5, <2>6, SMTT(30)
  <2> QED BY <1>a, <2>2, <2>3, <2>7, SMTT(30) DEF SizeInv
<1>11. CASE Delete(i)
  <2>1. pc[i] = "delete" /\ pc'[i] \in {"idle", "undefined"} /\ UNCHANGED <<size_, pushed, popped, items>>
    BY <1>0, <1>11, ZenonT(30) DEF Delete, Deref, Goto, past
  <2> QED BY <1>0, <2>1, SizeKept, ZenonT(30) DEF Pushing
<1> QED BY <1>1, <1>2, <1>3, <1>4, <1>5, <1>6, <1>7, <1>8, <1>9, <1>10, <1>11, ZenonT(30) DEF push, pop

\* Once every operation has returned, size() is the number of items that were
\* linked and not claimed, however the late updates of the counter and its
\* wrap-around below zero were interleaved, and with racing consumers too.
THEOREM SizeIsExactAtRest == Spec => []SizeAtRest
<1>1. Init => SizeInv
  <2> SUFFICES ASSUME Init PROVE SizeInv
    OBVIOUS
  <2>1. first = 0 /\ last = 0 /\ items = 0 /\ size_ = 0 /\ \A i \in Threads : pc[i] = "idle"
    BY Zenon DEF Init, first, last
  <2>2. At({"swing", "count"}) = {} /\ At({"discount"}) = {} /\ At(Pushing) = {}
    BY <2>1, Zenon DEF At, Pushing
  <2>3. uncounted = 0 /\ undiscounted = 0 /\ unlinked = 0
    BY <2>2, FS_EmptySet, ZenonT(30) DEF uncounted, undiscounted, unlinked
  <2> QED BY <2>1, <2>3 DEF SizeInv, balance
<1>2. SizeInv /\ ListInv /\ [Next]_vars => SizeInv'
  <2>1. SizeInv /\ UNCHANGED vars => SizeInv'
    BY DEF vars, SizeInv, balance, first, last, uncounted, undiscounted, unlinked, At
  <2>2. ASSUME SizeInv, ListInv, Next PROVE SizeInv'
    <3>1. PICK i \in Threads : push(i) \/ pop(i)
      BY <2>2, Zenon DEF Next, Threads
    <3> QED BY <2>2, <3>1, SizeStep, ZenonT(30)
  <2> QED BY <2>1, <2>2, ZenonT(30)
<1>3. SizeInv /\ ListInv => SizeAtRest
  <2> SUFFICES ASSUME SizeInv, ListInv, AtRest PROVE size_ = last - first
    BY Zenon DEF SizeAtRest, first, last
  <2>1. first \in Nat /\ last \in Nat /\ first <= last
    BY Ends, Zenon DEF ListInv, TypeInv, Shape, Linked
  <2>2. At({"swing", "count"}) = {} /\ At({"discount"}) = {}
    BY DEF At, AtRest
  <2>3. uncounted = 0 /\ undiscounted = 0
    BY <2>2, FS_EmptySet, ZenonT(30) DEF uncounted, undiscounted
  <2> QED BY <2>1, <2>3 DEF SizeInv, balance
<1> QED BY <1>1, <1>2, <1>3, ListInit, ListStep, PTL DEF Spec

-----------------------------------------------------------------------------
(* The first-in first-out queue. *)

waiting == IF Ordered THEN SubSeq(pushed, first + 1, last) ELSE <<>>
calls == [i \in Threads |-> IF Ordered THEN CallOf(i) ELSE <<"idle">>]

\* The calls of the other threads are where they were.
LEMMA OtherCalls ==
  ASSUME TypeInv, NEW c \in Places, Shape(c), Ordered, NEW i \in Threads, push(i) \/ pop(i),
         NEW j \in Threads \ {i}
  PROVE  CallOf(j)' = CallOf(j)
<1>1. /\ pc'[j] = pc[j] /\ node'[j] = node[j] /\ h'[j] = h[j]
      /\ t'[j] = t[j] /\ n'[j] = n[j] /\ res'[j] = res[j]
  BY OneThread, ZenonT(30) DEF TypeInv, Others
<1>2. pc[j] \in Pushing => data'[node[j]] = data[node[j]]
  <2> SUFFICES ASSUME pc[j] \in Pushing PROVE data'[node[j]] = data[node[j]]
    BY Zenon
  <2>1. Owns(c, j)
    BY Zenon DEF Shape
  <2>2. node[j] \in alive /\ node[j] \in Nodes /\ \A k \in first..last : c[k] # node[j]
    BY <2>1, ZenonT(30) DEF Owns, TypeInv, Types
  <2>3. CASE NewNode(i)
    <3>1. PICK x \in Nodes \ alive : data' = [data EXCEPT ![x] = items']
      BY <2>3, Zenon DEF NewNode
    <3> QED BY <2>2, <3>1, ZenonT(30) DEF TypeInv, Types
  <2>4. CASE MoveOut(i)
    <3>1. pc[i] = "move" /\ data' = [data EXCEPT ![n[i]] = Moved]
      BY <2>4, ZenonT(30) DEF MoveOut
    <3>2. h[i] = head_
      BY <3>1, ZenonT(30) DEF Shape, PopLocal, PopRead, OneConsumer
    <3>3. first < last /\ n[i] = c[first + 1]
      BY <3>1, <3>2, HasNext
    <3>4. first + 1 \in first..last
      BY <3>3, Ends DEF TypeInv
    <3>5. n[i] # node[j]
      BY <2>2, <3>3, <3>4, ZenonT(30)
    <3> QED BY <2>2, <3>1, <3>5, ZenonT(30) DEF TypeInv, Types
  <2>5. CASE UNCHANGED data
    BY <2>5, ZenonT(30)
  <2>6. NewNode(i) \/ MoveOut(i) \/ UNCHANGED data
    BY Zenon DEF push, pop, PushLoadTail, PushLoadNext, PushCheck, Link, SwingTail, Count, PopLoadHead,
           PopLoadTail, PopLoadNext, PopCheck, AdvanceHead, Discount, Delete, heap
  <2> QED BY <2>3, <2>4, <2>5, <2>6, ZenonT(30)
<1> QED BY <1>1, <1>2, ZenonT(30) DEF CallOf, Pushing

\* The constructor's queue is empty.
LEMMA FifoInit == Init => Abstract!Init
<1> SUFFICES ASSUME Init PROVE Abstract!Init
  OBVIOUS
<1>1. pushed = <<>> /\ popped = <<>> /\ pc = [i \in Threads |-> "idle"]
  BY DEF Init
<1>2. SubSeq(pushed, Len(popped) + 1, Len(pushed)) = <<>>
  BY <1>1
<1>3. \A i \in Threads : CallOf(i) = <<"idle">>
  BY <1>1, ZenonT(30) DEF CallOf
<1> QED BY <1>2, <1>3, ZenonT(30) DEF Abstract!Init, Abstract!Idle

\* What follows the first m items of a sequence that grows by one at the end.
LEMMA SuffixAppend ==
  ASSUME NEW s \in Seq(Nat), NEW x \in Nat, NEW m \in 0..Len(s)
  PROVE  SubSeq(Append(s, x), m + 1, Len(s) + 1) = Append(SubSeq(s, m + 1, Len(s)), x)
<1> DEFINE a == SubSeq(Append(s, x), m + 1, Len(s) + 1)
           b == SubSeq(s, m + 1, Len(s))
<1>1. Append(s, x) \in Seq(Nat) /\ Len(Append(s, x)) = Len(s) + 1 /\ Len(s) \in Nat
      /\ Append(s, x)[Len(s) + 1] = x /\ \A k \in 1..Len(s) : Append(s, x)[k] = s[k]
  BY AppendProperties
<1>2. /\ a \in Seq(Nat) /\ Len(a) = Len(s) + 1 - m
      /\ \A k \in 1..(Len(s) + 1 - m) : a[k] = Append(s, x)[m + k]
  <2>1. m + 1 \in Int /\ Len(s) + 1 \in Int /\ m + 1 <= Len(s) + 1
    BY <1>1
  <2>2. \A k \in (m + 1)..(Len(s) + 1) : Append(s, x)[k] \in Nat
    <3>1. \A k \in 1..(Len(s) + 1) : Append(s, x)[k] \in Nat
      BY <1>1, ElementOfSeq, ZenonT(30)
    <3> QED BY <3>1
  <2>3. /\ a \in Seq(Nat) /\ Len(a) = (Len(s) + 1) - (m + 1) + 1
        /\ \A k \in 1..((Len(s) + 1) - (m + 1) + 1) : a[k] = Append(s, x)[(m + 1) + k - 1]
    BY <2>1, <2>2, SubSeqProperties
  <2> HIDE DEF a
  <2>4. (Len(s) + 1) - (m + 1) + 1 = Len(s) + 1 - m
    BY <1>1
  <2>5. ASSUME NEW k \in 1..(Len(s) + 1 - m) PROVE a[k] = Append(s, x)[m + k]
    <3>1. (m + 1) + k - 1 = m + k
      BY <1>1
    <3>2. a[k] = Append(s, x)[(m + 1) + k - 1]
      BY <2>3, <2>4, Zenon
    <3> QED BY <3>1, <3>2, Zenon
  <2> QED BY <2>3, <2>4, <2>5, Zenon
<1>3. b \in Seq(Nat) /\ Len(b) = Len(s) - m /\ \A k \in 1..(Len(s) - m) : b[k] = s[m + k]
  BY <1>1, SubSeqProperties, SMTT(30)
<1> HIDE DEF a, b
<1>4. /\ Append(b, x) \in Seq(Nat) /\ Len(Append(b, x)) = Len(b) + 1
      /\ Append(b, x)[Len(b) + 1] = x /\ \A k \in 1..Len(b) : Append(b, x)[k] = b[k]
  BY <1>3, AppendProperties
<1>5. ASSUME NEW k \in 1..Len(a) PROVE a[k] = Append(b, x)[k]
  <2>0. k \in 1..(Len(s) + 1 - m)
    BY <1>2
  <2>1. a[k] = Append(s, x)[m + k]
    BY <1>2, <2>0, Zenon
  <2>2. CASE k = Len(s) + 1 - m
    <3>1. m + k = Len(s) + 1 /\ k = Len(b) + 1
      BY <1>1, <1>3, <2>2, SMTT(30)
    <3> QED BY <1>1, <1>4, <2>1, <3>1
  <2>3. CASE k # Len(s) + 1 - m
    <3>1. m + k \in 1..Len(s) /\ k \in 1..Len(b) /\ k \in 1..(Len(s) - m)
      BY <1>1, <1>3, <2>0, <2>3, SMTT(30)
    <3> QED BY <1>1, <1>3, <1>4, <2>1, <3>1, Zenon
  <2> QED BY <2>2, <2>3, Zenon
<1>6. Len(a) = Len(Append(b, x))
  BY <1>1, <1>2, <1>3, <1>4
<1>7. a = Append(b, x)
  BY <1>2, <1>4, <1>5, <1>6, SeqEqual, Zenon
<1> QED BY <1>7, Zenon DEF a, b

\* What follows the first m items begins with the next one.
LEMMA SuffixTail ==
  ASSUME NEW s \in Seq(Nat), NEW m \in Nat, m < Len(s)
  PROVE  /\ SubSeq(s, m + 1, Len(s)) # <<>>
         /\ Head(SubSeq(s, m + 1, Len(s))) = s[m + 1]
         /\ SubSeq(s, (m + 1) + 1, Len(s)) = Tail(SubSeq(s, m + 1, Len(s)))
<1>1. m + 1 \in 1..Len(s) /\ Len(s) \in (m + 1)..Len(s)
  OBVIOUS
<1>2. /\ Head(SubSeq(s, m + 1, Len(s))) = s[m + 1]
      /\ SubSeq(s, (m + 1) + 1, Len(s)) = Tail(SubSeq(s, m + 1, Len(s)))
  BY <1>1, HeadTailOfSubSeq, Zenon
<1>3. Len(SubSeq(s, m + 1, Len(s))) = Len(s) - m
  BY <1>1, SubSeqProperties
<1>4. SubSeq(s, m + 1, Len(s)) # <<>>
  <2>1. Len(s) - m # 0
    OBVIOUS
  <2>2. Len(<<>>) = 0
    BY EmptySeq, Zenon
  <2> QED BY <1>3, <2>1, <2>2, ZenonT(30)
<1> QED BY <1>2, <1>4, Zenon

\* What a step of thread i does to the queue and to its call, as the caller sees
\* it: nothing, or one of the five steps of a first-in first-out queue.
Effect(i) ==
  \/ CallOf(i)' = CallOf(i) /\ waiting' = waiting
  \/ /\ CallOf(i) = <<"idle">> /\ waiting' = waiting
     /\ CallOf(i)' = <<"popping">> \/ \E x \in 1..MaxItems : CallOf(i)' = <<"pushing", x>>
  \/ \E x \in 1..MaxItems : /\ CallOf(i) = <<"pushing", x>> /\ CallOf(i)' = <<"pushed">>
                            /\ waiting' = Append(waiting, x)
  \/ /\ waiting # <<>> /\ CallOf(i) = <<"popping">>
     /\ CallOf(i)' = <<"popped", Head(waiting)>> /\ waiting' = Tail(waiting)
  \/ /\ waiting = <<>> /\ CallOf(i) = <<"popping">>
     /\ CallOf(i)' = <<"empty">> /\ waiting' = waiting
  \/ /\ CallOf(i) \in {<<"pushed">>, <<"empty">>} \cup {<<"popped", x>> : x \in 1..MaxItems}
     /\ CallOf(i)' = <<"idle">> /\ waiting' = waiting

\* The steps of push.
LEMMA PushEffect ==
  ASSUME ListInv, Ordered, NEW i \in Threads, push(i)
  PROVE  Effect(i)
<1>0. TypeInv /\ usage' = usage /\ pc \in [Threads -> Positions] /\ (Ordered' <=> Ordered)
  BY OneThread, Zenon DEF ListInv, TypeInv, Types, Ordered
<1>a. PICK c \in Places : Shape(c)
  BY Zenon DEF ListInv
<1>b. OneConsumer /\ pc'[i] # "undefined"
  BY <1>0, <1>a, FollowsLiveCells, ZenonT(30) DEF OneConsumer
<1>c. UNCHANGED <<pushed, popped>> => waiting' = waiting
  BY <1>0, ZenonT(30) DEF waiting, first, last
<1>1. CASE NewNode(i)
  <2>1. PICK x \in Nodes \ alive : data' = [data EXCEPT ![x] = items'] /\ node' = [node EXCEPT ![i] = x]
    BY <1>1, ZenonT(30) DEF NewNode
  <2>2. /\ pc[i] = "idle" /\ pc'[i] = "load_tail" /\ items < MaxItems /\ items' = items + 1
        /\ UNCHANGED <<pushed, popped>>
    BY <1>0, <1>1, ZenonT(30) DEF NewNode, Goto
  <2>3. items + 1 \in 1..MaxItems
    <3>1. MaxItems \in Nat
      BY QueueAssumption, Zenon
    <3> QED BY <1>0, <2>2, <3>1, SMTT(30) DEF TypeInv, Types
  <2>4. data'[node'[i]] = items + 1
    BY <1>0, <2>1, <2>2, Zenon DEF TypeInv, Types
  <2>5. CallOf(i) = <<"idle">> /\ CallOf(i)' = <<"pushing", items + 1>>
    BY <2>2, <2>4, ZenonT(30) DEF CallOf
  <2> QED BY <1>c, <2>2, <2>3, <2>5, ZenonT(30) DEF Effect
<1>2. CASE PushLoadTail(i) \/ PushLoadNext(i) \/ PushCheck(i)
  <2>1. /\ pc[i] \in Pushing /\ pc'[i] \in Pushing \cup {"undefined"}
        /\ UNCHANGED <<pushed, popped, data, node>>
    BY <1>0, <1>2, ZenonT(30) DEF PushLoadTail, PushLoadNext, PushCheck, Deref, Goto, Pushing, past, heap, locals
  <2>2. CallOf(i)' = CallOf(i)
    BY <1>b, <2>1, ZenonT(30) DEF CallOf, Pushing
  <2> QED BY <1>c, <2>1, <2>2, ZenonT(30) DEF Effect
<1>3. CASE Link(i)
  <2>0. /\ pc[i] = "link" /\ UNCHANGED <<data, node, popped>>
        /\ node[i] \in Nodes /\ data[node[i]] \in 1..MaxItems /\ data[node[i]] \in Nat
    <3>1. pc[i] = "link" /\ UNCHANGED <<data, node, popped>> /\ node[i] \in Nodes
      BY <1>0, <1>3, ZenonT(30) DEF Link, locals, TypeInv, Types, Callers, PushPositions, Pushing, Cells
    <3>2. Owns(c, i)
      BY <1>a, Zenon DEF Shape
    <3> QED BY <1>0, <3>1, <3>2, ZenonT(30) DEF Owns, Pushing, TypeInv, Types
  <2>1. CASE /\ next_unchanged(i) /\ next' = [next EXCEPT ![t[i]] = node[i]]
             /\ pushed' = Append(pushed, data[node[i]]) /\ Deref(i, t[i], "swing")
    <3>1. pc'[i] = "swing"
      BY <1>0, <1>3, <1>a, <2>1, LinkShape, Zenon
    <3>2. CallOf(i) = <<"pushing", data[node[i]]>> /\ CallOf(i)' = <<"pushed">>
      BY <2>0, <3>1, ZenonT(30) DEF CallOf
    <3>3. pushed \in Seq(Nat) /\ Len(popped) \in 0..Len(pushed)
      BY <1>0, <1>a, Ends, SMTT(30) DEF TypeInv, Types, Shape, Linked, first, last
    <3>4. Len(pushed') = Len(pushed) + 1 /\ popped' = popped
      BY <2>0, <2>1, <3>3, AppendProperties, Zenon
    <3>5. SubSeq(pushed', Len(popped) + 1, Len(pushed) + 1) =
            Append(SubSeq(pushed, Len(popped) + 1, Len(pushed)), data[node[i]])
      BY <2>0, <2>1, <3>3, SuffixAppend, Zenon
    <3>6. waiting' = Append(waiting, data[node[i]])
      BY <1>0, <3>4, <3>5, ZenonT(30) DEF waiting, first, last
    <3> QED BY <2>0, <3>2, <3>6, ZenonT(30) DEF Effect
  <2>2. CASE UNCHANGED <<next, pushed>> /\ Deref(i, t[i], "load_tail")
    <3>1. pc'[i] = "load_tail"
      BY <1>0, <1>b, <2>2, ZenonT(30) DEF Deref, Goto
    <3>2. CallOf(i)' = CallOf(i)
      BY <2>0, <3>1, ZenonT(30) DEF CallOf
    <3> QED BY <1>c, <2>0, <2>2, <3>2, ZenonT(30) DEF Effect
  <2> QED BY <1>3, <2>1, <2>2, ZenonT(30) DEF Link
<1>4. CASE SwingTail(i, "swing", node[i], "count") \/ SwingTail(i, "help", n[i], "load_tail")
  <2>1. /\ \/ pc[i] = "swing" /\ pc'[i] = "count"
           \/ pc[i] = "help" /\ pc'[i] = "load_tail"
        /\ UNCHANGED <<pushed, popped, data, node>>
    BY <1>0, <1>4, ZenonT(30) DEF SwingTail, Goto, past, heap, locals
  <2>2. CallOf(i)' = CallOf(i)
    BY <2>1, Zenon DEF CallOf
  <2> QED BY <1>c, <2>1, <2>2, ZenonT(30) DEF Effect
<1>5. CASE Count(i)
  <2>1. pc[i] = "count" /\ pc'[i] = "idle" /\ UNCHANGED <<pushed, popped>>
    BY <1>0, <1>5, ZenonT(30) DEF Count, Goto, past
  <2>2. CallOf(i) = <<"pushed">> /\ CallOf(i)' = <<"idle">>
    BY <2>1, ZenonT(30) DEF CallOf
  <2> QED BY <1>c, <2>1, <2>2, ZenonT(30) DEF Effect
<1> QED BY <1>1, <1>2, <1>3, <1>4, <1>5, ZenonT(30) DEF push

\* The steps of pop.
LEMMA PopEffect ==
  ASSUME ListInv, Ordered, NEW i \in Threads, pop(i)
  PROVE  Effect(i)
<1>0. TypeInv /\ usage' = usage /\ pc \in [Threads -> Positions] /\ (Ordered' <=> Ordered)
  BY OneThread, Zenon DEF ListInv, TypeInv, Types, Ordered
<1>a. PICK c \in Places : Shape(c)
  BY DEF ListInv
<1>b. OneConsumer /\ pc'[i] # "undefined"
  BY <1>0, <1>a, FollowsLiveCells, ZenonT(30) DEF OneConsumer
<1>c. UNCHANGED <<pushed, popped>> => waiting' = waiting
  BY <1>0 DEF waiting, first, last
<1>d. PopLocal(c, i) /\ InOrder(c)
  BY <1>a, ZenonT(30) DEF Shape
<1>e. /\ first \in Nat /\ last \in Nat /\ first <= last /\ c[first] = head_
      /\ next[c[first]] = IF first = last THEN Null ELSE c[first + 1]
  <2>1. first \in Nat /\ last \in Nat /\ first <= last /\ c[first] = head_
    BY <1>0, <1>a, Ends, Zenon DEF TypeInv, Shape, Linked
  <2> QED BY <1>a, <2>1, SMTT(30) DEF Shape, Linked
<1>1. CASE PopLoadHead(i)
  <2>1. pc[i] \in {"idle", "retry"} /\ pc'[i] = "pop_tail" /\ UNCHANGED <<pushed, popped>>
    BY <1>0, <1>1, ZenonT(30) DEF PopLoadHead, Goto, past
  <2>2. CallOf(i)' = <<"popping">>
    BY <2>1, ZenonT(30) DEF CallOf
  <2>3. CallOf(i) = <<"idle">> \/ CallOf(i) = <<"popping">>
    BY <2>1, ZenonT(30) DEF CallOf
  <2> QED BY <1>c, <2>1, <2>2, <2>3, Zenon DEF Effect
<1>2. CASE PopLoadTail(i)
  <2>1. pc[i] = "pop_tail" /\ pc'[i] = "pop_next" /\ UNCHANGED <<pushed, popped>>
    BY <1>0, <1>2, ZenonT(30) DEF PopLoadTail, Goto, past
  <2>2. CallOf(i) = <<"popping">> /\ CallOf(i)' = <<"popping">>
    BY <2>1, ZenonT(30) DEF CallOf
  <2> QED BY <1>c, <2>1, <2>2, ZenonT(30) DEF Effect
<1>3. CASE PopLoadNext(i)
  <2>1. /\ pc[i] = "pop_next" /\ pc'[i] = "pop_check" /\ n'[i] = next[h[i]]
        /\ UNCHANGED <<pushed, popped, h, t>>
    BY <1>0, <1>3, <1>b, ZenonT(30) DEF PopLoadNext, Deref, Goto, past, TypeInv, Types
  <2>2. CallOf(i) = <<"popping">>
    BY <2>1, ZenonT(30) DEF CallOf
  <2>3. CASE h[i] = t[i] /\ n'[i] = Null
    <3>1. CallOf(i)' = <<"empty">>
      BY <2>1, <2>3, ZenonT(30) DEF CallOf
    <3>2. h[i] = head_
      BY <1>b, <1>d, <2>1, ZenonT(30) DEF PopLocal, PopRead
    <3>3. first = last
      <4>1. next[c[first]] = Null
        BY <1>e, <2>1, <2>3, <3>2, ZenonT(30)
      <4>2. c[first + 1] # Null
        <5>1. c[first + 1] \in Nodes
          BY <1>e DEF Places
        <5> QED BY <5>1, QueueAssumption, ZenonT(30)
      <4> QED BY <1>e, <4>1, <4>2, ZenonT(30)
    <3>4. waiting = <<>>
      <4>1. first + 1 \in Int /\ last \in Int /\ last < first + 1
        BY <1>e, <3>3
      <4>2. SubSeq(pushed, first + 1, last) = <<>>
        BY <4>1, SubSeqEmpty, ZenonT(30)
      <4> QED BY <4>2, Zenon DEF waiting
    <3> QED BY <1>c, <2>1, <2>2, <3>1, <3>4, ZenonT(30) DEF Effect
  <2>4. CASE ~(h[i] = t[i] /\ n'[i] = Null)
    <3>1. CallOf(i)' = <<"popping">>
      BY <2>1, <2>4, ZenonT(30) DEF CallOf
    <3> QED BY <1>c, <2>1, <2>2, <3>1, ZenonT(30) DEF Effect
  <2> QED BY <2>3, <2>4, ZenonT(30)
<1>4. CASE PopCheck(i)
  <2>1. pc[i] = "pop_check" /\ h[i] = head_
    BY <1>4, <1>b, <1>d, ZenonT(30) DEF PopCheck, PopLocal, PopRead
  <2>2. pc'[i] = after_check(i) /\ UNCHANGED <<pushed, popped>>
    BY <1>0, <1>4, <2>1, ZenonT(30) DEF PopCheck, Goto, past
  <2>3. CASE h[i] = t[i] /\ n[i] = Null
    <3>1. CallOf(i) = <<"empty">> /\ CallOf(i)' = <<"idle">>
      BY <2>1, <2>2, <2>3, ZenonT(30) DEF CallOf, after_check
    <3> QED BY <1>c, <2>2, <3>1, ZenonT(30) DEF Effect
  <2>4. CASE ~(h[i] = t[i] /\ n[i] = Null)
    <3>1. CallOf(i) = <<"popping">>
      BY <2>1, <2>4, ZenonT(30) DEF CallOf
    <3>2. pc'[i] \in {"pop_help", "retry", "move"}
      BY <2>2, <2>4, ZenonT(30) DEF after_check
    <3>3. CallOf(i)' = <<"popping">>
      BY <3>2, ZenonT(30) DEF CallOf
    <3> QED BY <1>c, <2>2, <3>1, <3>3, ZenonT(30) DEF Effect
  <2> QED BY <2>3, <2>4, ZenonT(30)
<1>5. CASE SwingTail(i, "pop_help", n[i], "retry")
  <2>1. pc[i] = "pop_help" /\ pc'[i] = "retry" /\ UNCHANGED <<pushed, popped>>
    BY <1>0, <1>5, ZenonT(30) DEF SwingTail, Goto, past
  <2>2. CallOf(i) = <<"popping">> /\ CallOf(i)' = <<"popping">>
    BY <2>1, ZenonT(30) DEF CallOf
  <2> QED BY <1>c, <2>1, <2>2, ZenonT(30) DEF Effect
<1>6. CASE MoveOut(i)
  <2>1. pc[i] = "move" /\ pc'[i] = "advance" /\ UNCHANGED <<pushed, popped>>
    BY <1>0, <1>6, <1>b, ZenonT(30) DEF MoveOut, Deref, Goto, past
  <2>2. CallOf(i) = <<"popping">> /\ CallOf(i)' = <<"popping">>
    BY <2>1, ZenonT(30) DEF CallOf
  <2> QED BY <1>c, <2>1, <2>2, ZenonT(30) DEF Effect
<1>7. CASE AdvanceHead(i)
  <2>0. pc[i] = "advance" /\ UNCHANGED <<pushed, res>>
    BY <1>7, ZenonT(30) DEF AdvanceHead, locals
  <2>1. h[i] = head_ /\ ~fails_spuriously
    BY <1>b, <1>d, <2>0, ZenonT(30) DEF PopLocal, PopRead, Ordered, fails_spuriously
  <2>2. pc'[i] = "discount" /\ popped' = Append(popped, res[i])
    BY <1>0, <1>7, <2>1, ZenonT(30) DEF AdvanceHead, Goto
  <2>3. first < last
    BY <1>0, <1>a, <2>0, <2>1, HasNext, ZenonT(30)
  <2>4. res[i] = pushed[first + 1]
    BY <1>d, <2>0, ZenonT(30) DEF InOrder
  <2>5. CallOf(i) = <<"popping">> /\ CallOf(i)' = <<"popped", res[i]>>
    BY <2>0, <2>2, ZenonT(30) DEF CallOf
  <2>6. pushed \in Seq(Nat) /\ popped \in Seq(Nat) /\ res[i] \in Nat
    BY <1>0, Zenon DEF TypeInv, Types
  <2>7. Len(popped') = Len(popped) + 1
    BY <2>2, <2>6, AppendProperties, ZenonT(30)
  <2>8. /\ SubSeq(pushed, Len(popped) + 1, Len(pushed)) # <<>>
        /\ Head(SubSeq(pushed, Len(popped) + 1, Len(pushed))) = pushed[Len(popped) + 1]
        /\ SubSeq(pushed, (Len(popped) + 1) + 1, Len(pushed)) =
             Tail(SubSeq(pushed, Len(popped) + 1, Len(pushed)))
    BY <1>e, <2>3, <2>6, SuffixTail, ZenonT(30) DEF first, last
  <2>9. waiting # <<>> /\ Head(waiting) = res[i] /\ waiting' = Tail(waiting)
    BY <1>0, <2>0, <2>4, <2>7, <2>8, ZenonT(30) DEF waiting, first, last
  <2> QED BY <2>5, <2>9, ZenonT(30) DEF Effect
<1>8. CASE Discount(i)
  <2>1. pc[i] = "discount" /\ pc'[i] = "delete" /\ UNCHANGED <<pushed, popped, res>>
    BY <1>0, <1>8, ZenonT(30) DEF Discount, Goto, past, locals
  <2>2. CallOf(i)' = CallOf(i)
    BY <2>1, ZenonT(30) DEF CallOf
  <2> QED BY <1>c, <2>1, <2>2, ZenonT(30) DEF Effect
<1>9. CASE Delete(i)
  <2>1. pc[i] = "delete" /\ pc'[i] = "idle" /\ UNCHANGED <<pushed, popped>>
    BY <1>0, <1>9, <1>b, ZenonT(30) DEF Delete, Deref, Goto, past
  <2>2. CallOf(i) = <<"popped", res[i]>> /\ CallOf(i)' = <<"idle">>
    BY <2>1, ZenonT(30) DEF CallOf
  <2>3. res[i] \in 1..MaxItems
    BY <1>d, <2>1, ZenonT(30) DEF InOrder
  <2> QED BY <1>c, <2>1, <2>2, <2>3, ZenonT(30) DEF Effect
<1> QED BY <1>1, <1>2, <1>3, <1>4, <1>5, <1>6, <1>7, <1>8, <1>9, ZenonT(30) DEF pop

\* A step is a step of the first-in first-out queue, or invisible to the callers.
LEMMA FifoStep ==
  ASSUME ListInv, [Next]_vars
  PROVE  [Abstract!Next]_<<waiting, calls>>
<1>1. CASE UNCHANGED vars
  BY <1>1, ZenonT(30) DEF vars, waiting, calls, first, last, CallOf, Ordered
<1>2. CASE Next
  <2>1. PICK i \in Threads : push(i) \/ pop(i)
    BY <1>2, Zenon DEF Next, Threads
  <2>2. usage' = usage /\ (Ordered' <=> Ordered)
    BY <2>1, OneThread, ZenonT(30) DEF ListInv, TypeInv, Ordered
  <2>3. CASE ~Ordered
    BY <2>2, <2>3, ZenonT(30) DEF waiting, calls
  <2>4. CASE Ordered
    <3>1. Effect(i)
      BY <2>1, <2>4, PushEffect, PopEffect, ZenonT(30)
    <3>2. \A j \in Threads \ {i} : CallOf(j)' = CallOf(j)
      BY <2>1, <2>4, OtherCalls, ZenonT(30) DEF ListInv
    <3>3. calls = [j \in Threads |-> CallOf(j)] /\ calls' = [j \in Threads |-> CallOf(j)']
      BY <2>2, <2>4, ZenonT(30) DEF calls
    <3>4. calls[i] = CallOf(i) /\ calls' = [calls EXCEPT ![i] = CallOf(i)']
      BY <3>2, <3>3, ZenonT(30)
    <3>5. CASE CallOf(i)' = CallOf(i) /\ waiting' = waiting
      BY <3>3, <3>4, <3>5, ZenonT(30)
    <3>6. ASSUME NEW from, NEW to, CallOf(i) = from, CallOf(i)' = to
          PROVE  Abstract!Become(i, from, to)
      BY <2>4, <3>4, <3>6, ZenonT(30) DEF Abstract!Become, calls
    <3>7. CASE /\ CallOf(i) = <<"idle">> /\ waiting' = waiting
               /\ CallOf(i)' = <<"popping">> \/ \E x \in 1..MaxItems : CallOf(i)' = <<"pushing", x>>
      <4>1. Abstract!Begin(i)
        BY <3>6, <3>7, ZenonT(30) DEF Abstract!Begin, Abstract!Idle, waiting, first, last
      <4> QED BY <4>1, ZenonT(30) DEF Abstract!Next
    <3>8. ASSUME NEW x \in 1..MaxItems, CallOf(i) = <<"pushing", x>>, CallOf(i)' = <<"pushed">>,
                 waiting' = Append(waiting, x)
          PROVE  Abstract!Next
      <4>1. Abstract!Push(i)
        BY <3>6, <3>8, Zenon DEF Abstract!Push, waiting, first, last
      <4> QED BY <4>1, ZenonT(30) DEF Abstract!Next
    <3>9. CASE /\ waiting # <<>> /\ CallOf(i) = <<"popping">>
               /\ CallOf(i)' = <<"popped", Head(waiting)>> /\ waiting' = Tail(waiting)
      <4>1. Abstract!Pop(i)
        BY <3>6, <3>9, ZenonT(30) DEF Abstract!Pop, waiting, first, last
      <4> QED BY <4>1, ZenonT(30) DEF Abstract!Next
    <3>10. CASE /\ waiting = <<>> /\ CallOf(i) = <<"popping">>
                /\ CallOf(i)' = <<"empty">> /\ waiting' = waiting
      <4>1. Abstract!PopNothing(i)
        BY <3>6, <3>10, ZenonT(30) DEF Abstract!PopNothing, waiting, first, last
      <4> QED BY <4>1, Zenon DEF Abstract!Next
    <3>11. CASE /\ CallOf(i) \in {<<"pushed">>, <<"empty">>} \cup {<<"popped", x>> : x \in 1..MaxItems}
                /\ CallOf(i)' = <<"idle">> /\ waiting' = waiting
      <4>1. Abstract!Become(i, CallOf(i), <<"idle">>)
        BY <3>6, <3>11, ZenonT(30)
      <4>2. CallOf(i) = [j \in Threads |-> IF Ordered THEN CallOf(j) ELSE <<"idle">>][i]
        BY <2>4, ZenonT(30)
      <4>3. Abstract!Return(i)
        BY <3>11, <4>1, <4>2, ZenonT(30) DEF Abstract!Return, Abstract!Returning, Abstract!Idle, waiting, first, last
      <4> QED BY <4>3, ZenonT(30) DEF Abstract!Next
    <3> QED BY <3>1, <3>5, <3>7, <3>8, <3>9, <3>10, <3>11, ZenonT(30) DEF Effect
  <2> QED BY <2>3, <2>4, Zenon
<1> QED BY <1>1, <1>2, ZenonT(30)

\* With one consumer, and one producer beside it or any number before it, the
\* linked cells implement the first-in first-out queue: every push takes effect
\* when its node is linked, every pop when it moves head_, and a pop that
\* returns nullopt found the queue empty.
THEOREM QueueIsLinearizable == Spec => ImplementsFifoQueue
<1>1. ListInv /\ [Next]_vars => [Abstract!Next]_<<waiting, calls>>
  BY FifoStep, ZenonT(30)
<1>2. ListInv /\ [Next]_vars =>
        [Abstract!Next]_<<IF Ordered THEN SubSeq(pushed, Len(popped) + 1, Len(pushed)) ELSE <<>>,
                          [i \in Threads |-> IF Ordered THEN CallOf(i) ELSE <<"idle">>]>>
  BY <1>1 DEF waiting, calls, first, last
<1> QED BY <1>2, FifoInit, ListInit, ListStep, PTL DEF Spec, ImplementsFifoQueue, Abstract!Spec
=============================================================================
