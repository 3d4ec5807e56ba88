------------------------- MODULE LockFreeQueueList --------------------------
(***************************************************************************)
(* The list inside the lock-free queue, for any threads, cells and items.  *)
(*                                                                         *)
(* The shape of the list names the linked cells: there is a function c such*)
(* that c[k] is the cell of the k-th item ever linked, and c[0] the first  *)
(* dummy.  head_ is c[first], where first items were popped, and c[last] is*)
(* the end of the list.  A push extends c by one place and a pop moves first*)
(* by one: neither moves a cell.  What a thread has read into its locals is*)
(* then a statement about places that only grow old in ways the            *)
(* compare-and-swaps notice.                                               *)
(*                                                                         *)
(* This module states the shape and proves that every step keeps it, and   *)
(* that every step keeps the types.                                        *)
(***************************************************************************)
EXTENDS LockFreeQueue, TLAPS

first == Len(popped)
last == Len(pushed)

Pushing == {"load_tail", "load_next", "check", "link", "help"}
PushPositions == Pushing \cup {"swing", "count"}
PopRead == {"pop_tail", "pop_next", "pop_check", "pop_help", "move", "advance"}
PopPositions == PopRead \cup {"retry", "discount", "delete"}
Positions == PushPositions \cup PopPositions \cup {"idle", "undefined"}
Cells == Nodes \cup {Null}

Types ==
  /\ next \in [Nodes -> Cells] /\ data \in [Nodes -> Nat] /\ alive \subseteq Nodes
  /\ head_ \in Nodes /\ tail_ \in Nodes /\ size_ \in Nat
  /\ pc \in [Threads -> Positions]
  /\ node \in [Threads -> Cells] /\ h \in [Threads -> Cells]
  /\ t \in [Threads -> Cells] /\ n \in [Threads -> Cells]
  /\ res \in [Threads -> Nat]
  /\ usage \in Usages /\ items \in 0..MaxItems
  /\ pushed \in Seq(Nat) /\ popped \in Seq(Nat)

\* Who is inside which call, by the way the threads share the queue.
Callers ==
  /\ \A i \in Threads :
       /\ pc[i] \in PushPositions => node[i] # Null
       /\ pc[i] \in PopPositions => h[i] # Null
       /\ node[i] # Null => i \in Producers
       /\ h[i] # Null => i \in Consumers
  /\ OneProducer => \A i, j \in Threads : node[i] # Null /\ node[j] # Null => i = j
  /\ OneConsumer => \A i, j \in Threads : h[i] # Null /\ h[j] # Null => i = j
  /\ usage \in {"producers_first", "consumers_race"} /\ (\E i \in Threads : h[i] # Null) =>
       items = MaxItems /\ \A j \in Threads : pc[j] \notin PushPositions

\* What is read before it is followed is a cell.
Pointers ==
  \A i \in Threads :
    /\ pc[i] \in {"load_next", "check", "link", "help", "swing"} => t[i] # Null
    /\ pc[i] \in {"help", "pop_help", "move", "advance"} => n[i] # Null

-----------------------------------------------------------------------------
\* A step of thread i leaves the locals of the others alone.
Others(i) ==
  \A j \in Threads \ {i} :
    /\ pc'[j] = pc[j] /\ node'[j] = node[j] /\ h'[j] = h[j]
    /\ t'[j] = t[j] /\ n'[j] = n[j] /\ res'[j] = res[j]

\* Every step is one thread's.
LEMMA OneThread ==
  ASSUME Types, NEW i \in Threads, push(i) \/ pop(i)
  PROVE  Others(i) /\ usage' = usage
<1>1. CASE NewNode(i)
  BY <1>1 DEF NewNode, Goto, Types, Others
<1>2. CASE PushLoadTail(i)
  BY <1>2 DEF PushLoadTail, Goto, Types, Others, past
<1>3. CASE PushLoadNext(i)
  BY <1>3 DEF PushLoadNext, Deref, Goto, Types, Others, past
<1>4. CASE PushCheck(i)
  BY <1>4 DEF PushCheck, Goto, Types, Others, past, locals
<1>5. CASE Link(i)
  BY <1>5 DEF Link, Deref, Goto, Types, Others, locals
<1>6. ASSUME NEW from, NEW to, NEW l, SwingTail(i, from, to, l) PROVE Others(i) /\ usage' = usage
  BY <1>6 DEF SwingTail, Goto, Types, Others, past, locals
<1>7. CASE Count(i)
  BY <1>7 DEF Count, Goto, Types, Others, past, locals
<1>8. CASE PopLoadHead(i)
  BY <1>8 DEF PopLoadHead, Goto, Types, Others, past
<1>9. CASE PopLoadTail(i)
  BY <1>9 DEF PopLoadTail, Goto, Types, Others, past
<1>10. CASE PopLoadNext(i)
  BY <1>10 DEF PopLoadNext, Deref, Goto, Types, Others, past
<1>11. CASE PopCheck(i)
  BY <1>11 DEF PopCheck, Goto, Types, Others, past, locals
<1>12. CASE MoveOut(i)
  BY <1>12 DEF MoveOut, Deref, Goto, Types, Others, past
<1>13. CASE AdvanceHead(i)
  BY <1>13 DEF AdvanceHead, Goto, Types, Others, locals
<1>14. CASE Discount(i)
  BY <1>14 DEF Discount, Goto, Types, Others, past, locals
<1>15. CASE Delete(i)
  BY <1>15 DEF Delete, Deref, Goto, Types, Others, past, locals
<1> QED BY <1>1, <1>2, <1>3, <1>4, <1>5, <1>6, <1>7, <1>8, <1>9, <1>10, <1>11, <1>12, <1>13,
           <1>14, <1>15 DEF push, pop

TypeInv == Types /\ Callers /\ Pointers

-----------------------------------------------------------------------------
AtTail == {"load_next", "check", "link", "help"}

\* The list: c[first] is the dummy, next leads from each cell to the following
\* one, and no cell is in it twice or deleted.
Linked(c) ==
  /\ first <= last
  /\ c[first] = head_
  /\ \A k \in first..last : c[k] \in alive /\ next[c[k]] = IF k = last THEN Null ELSE c[k + 1]
  /\ \A k, l \in first..last : c[k] = c[l] => k = l

\* tail_ is the last cell, or the one before it until its producer swings it.
TailNear(c) ==
  \/ tail_ = c[last]
  \/ first < last /\ tail_ = c[last - 1] /\ \E i \in Threads : pc[i] = "swing" /\ t[i] = tail_

\* A node that is not linked yet belongs to its producer.
Owns(c, i) ==
  pc[i] \in Pushing =>
    /\ node[i] \in alive /\ next[node[i]] = Null /\ data[node[i]] \in 1..MaxItems
    /\ \A k \in first..last : c[k] # node[i]

\* No two producers have the same node, and none has one that is being deleted.
Apart ==
  \A i, j \in Threads :
    pc[i] \in Pushing =>
      /\ pc[j] \in Pushing /\ node[i] = node[j] => i = j
      /\ pc[j] \in {"discount", "delete"} => node[i] # h[j]

\* What a producer has read: t is in the list, and if it is still the last cell
\* then tail_ has not left it.
PushLocal(c, i) ==
  /\ pc[i] \in AtTail =>
       /\ \E k \in first..last : t[i] = c[k]
       /\ t[i] = c[last] => tail_ = c[last]
       /\ OneProducer => t[i] = c[last]
  /\ pc[i] \in {"check", "link", "help"} => n[i] = Null \/ n[i] = next[t[i]]
  /\ pc[i] = "link" => n[i] = Null
  /\ pc[i] = "swing" =>
       /\ \A k \in first..last : t[i] = c[k] => next[t[i]] = node[i]
       /\ OneProducer \/ \E k \in first..last : t[i] = c[k]

\* What a consumer has read: a single one holds the dummy until it moves head_,
\* and moves it only when tail_ has left the dummy. What it deletes is no longer
\* in the list.
PopLocal(c, i) ==
  /\ OneConsumer /\ pc[i] \in PopRead => h[i] = head_
  /\ pc[i] \in {"pop_check", "pop_help", "move", "advance"} => n[i] = Null \/ n[i] = next[h[i]]
  /\ pc[i] = "pop_help" => h[i] = t[i]
  /\ pc[i] \in {"move", "advance"} => h[i] # t[i]
  /\ OneConsumer /\ pc[i] \in {"pop_next", "pop_check", "move", "advance"} /\ h[i] # t[i] =>
       tail_ # head_
  /\ pc[i] \in {"discount", "delete"} =>
       /\ \A k \in first..last : c[k] # h[i]
       /\ OneConsumer => h[i] \in alive

\* The linked cells hold the items in the order of the pushes; the first one may
\* be with the consumer that is about to claim it.
InOrder(c) ==
  Ordered =>
    /\ \A k \in (first + 1)..last :
         /\ pushed[k] \in 1..MaxItems
         /\ data[c[k]] = pushed[k] \/ (k = first + 1 /\ \E i \in Threads : pc[i] = "advance")
    /\ \A i \in Threads :
         /\ pc[i] = "advance" => res[i] = pushed[first + 1]
         /\ pc[i] \in {"discount", "delete"} => res[i] \in 1..MaxItems

Shape(c) ==
  /\ Linked(c) /\ TailNear(c) /\ Apart /\ InOrder(c)
  /\ \A i \in Threads : Owns(c, i) /\ PushLocal(c, i) /\ PopLocal(c, i)

Places == [Nat -> Nodes]

\* The places of the first and the last cell.
LEMMA Ends == ASSUME Types PROVE first \in Nat /\ last \in Nat
  BY DEF Types, first, last

\* A step that only reads keeps the shape, if what thread i read is right.
LEMMA LocalStep ==
  ASSUME TypeInv, NEW c \in Places, Shape(c), NEW i \in Threads, Others(i), usage' = usage,
         UNCHANGED <<next, data, alive, head_, tail_, pushed, popped>>, node'[i] = node[i],
         pc[i] # "swing", pc[i] # "advance" \/ ~Ordered, pc'[i] # "advance",
         pc'[i] \in Pushing => pc[i] \in Pushing,
         pc'[i] \in {"discount", "delete"} =>
           pc[i] \in {"discount", "delete"} /\ h'[i] = h[i] /\ res'[i] = res[i],
         PushLocal(c, i)', PopLocal(c, i)'
  PROVE  Shape(c)'
<1>0. first' = first /\ last' = last
  BY DEF first, last
<1>a. (OneProducer' <=> OneProducer) /\ (OneConsumer' <=> OneConsumer) /\ (Ordered' <=> Ordered)
  BY DEF OneProducer, OneConsumer, Ordered
<1>b. \A j \in Threads \ {i} :
        /\ pc'[j] = pc[j] /\ node'[j] = node[j] /\ h'[j] = h[j]
        /\ t'[j] = t[j] /\ n'[j] = n[j] /\ res'[j] = res[j]
  BY DEF Others
<1>1. Linked(c)'
  BY <1>0 DEF Shape, Linked
<1>2. TailNear(c)'
  <2>1. CASE tail_ = c[last]
    BY <1>0, <2>1 DEF TailNear
  <2>2. CASE tail_ # c[last]
    <3>1. PICK j \in Threads : pc[j] = "swing" /\ t[j] = tail_
      BY <2>2 DEF Shape, TailNear
    <3>2. j # i
      BY <3>1
    <3>3. pc'[j] = "swing" /\ t'[j] = tail_'
      BY <1>b, <3>1, <3>2, Zenon
    <3> QED BY <1>0, <2>2, <3>3, Zenon DEF Shape, TailNear
  <2> QED BY <2>1, <2>2
<1>3. Apart'
  <2>1. \A j \in Threads : /\ pc'[j] \in Pushing => pc[j] \in Pushing /\ node'[j] = node[j]
                           /\ pc'[j] \in {"discount", "delete"} => pc[j] \in {"discount", "delete"} /\ h'[j] = h[j]
    BY <1>b, Zenon
  <2> QED BY <2>1, ZenonT(30) DEF Shape, Apart
<1>4. InOrder(c)'
  <2> SUFFICES ASSUME Ordered PROVE InOrder(c)'
    BY <1>a DEF InOrder
  <2>1. \A j \in Threads : /\ pc'[j] = "advance" <=> pc[j] = "advance"
                           /\ pc'[j] = "advance" => res'[j] = res[j]
                           /\ pc'[j] \in {"discount", "delete"} => pc[j] \in {"discount", "delete"} /\ res'[j] = res[j]
    BY <1>b, Zenon
  <2> QED BY <1>0, <2>1, Zenon DEF Shape, InOrder
<1>5. \A j \in Threads : Owns(c, j)'
  <2> SUFFICES ASSUME NEW j \in Threads, pc'[j] \in Pushing PROVE Owns(c, j)'
    BY DEF Owns
  <2>1. pc[j] \in Pushing /\ node'[j] = node[j]
    BY <1>b, Zenon
  <2> QED BY <1>0, <2>1, Zenon DEF Shape, Owns
<1>6. \A j \in Threads : PushLocal(c, j)'
  <2> SUFFICES ASSUME NEW j \in Threads \ {i} PROVE PushLocal(c, j)'
    OBVIOUS
  <2>1. PushLocal(c, j)
    BY Zenon DEF Shape
  <2> QED BY <1>0, <1>a, <1>b, <2>1 DEF PushLocal
<1>7. \A j \in Threads : PopLocal(c, j)'
  <2> SUFFICES ASSUME NEW j \in Threads \ {i} PROVE PopLocal(c, j)'
    BY Zenon
  <2>1. PopLocal(c, j)
    BY DEF Shape
  <2> QED BY <1>0, <1>a, <1>b, <2>1 DEF PopLocal
<1> QED BY <1>1, <1>2, <1>3, <1>4, <1>5, <1>6, <1>7 DEF Shape

\* The steps of push that link nothing keep the shape.
LEMMA PushReads ==
  ASSUME TypeInv, NEW c \in Places, Shape(c), NEW i \in Threads,
         \/ PushLoadTail(i) \/ PushLoadNext(i) \/ PushCheck(i) \/ Count(i)
         \/ Link(i) /\ UNCHANGED <<next, pushed>> /\ Deref(i, t[i], "load_tail")
  PROVE  Shape(c)'
<1>0. Others(i) /\ usage' = usage /\ first' = first /\ last' = last
  <2>1. push(i)
    BY Zenon DEF push
  <2>2. UNCHANGED <<pushed, popped>>
    BY DEF PushLoadTail, PushLoadNext, PushCheck, Count, Link, past
  <2> QED BY <2>1, <2>2, OneThread DEF TypeInv, first, last
<1>a. (OneProducer' <=> OneProducer) /\ (OneConsumer' <=> OneConsumer)
  BY <1>0 DEF OneProducer, OneConsumer, Ordered
<1>b. PushLocal(c, i)
  BY Zenon DEF Shape
<1>1. CASE PushLoadTail(i)
  <2>1. /\ pc[i] = "load_tail" /\ pc'[i] = "load_next" /\ t'[i] = tail_
        /\ UNCHANGED <<next, data, alive, head_, tail_, pushed, popped, node>>
    BY <1>1, Zenon DEF PushLoadTail, Goto, heap, past, TypeInv, Types
  <2>2. \E k \in first..last : tail_ = c[k]
    BY Ends, SMTT(30) DEF Shape, TailNear, Linked, TypeInv
  <2>3. OneProducer => tail_ = c[last]
    <3> SUFFICES ASSUME OneProducer, NEW j \in Threads, pc[j] = "swing" PROVE FALSE
      BY SMTT(30) DEF Shape, TailNear
    <3> QED BY <2>1, Zenon DEF TypeInv, Callers, PushPositions, Pushing
  <2>4. PushLocal(c, i)'
    BY <1>0, <1>a, <2>1, <2>2, <2>3, Zenon DEF PushLocal
  <2>5. PopLocal(c, i)'
    BY <2>1, Zenon DEF PopLocal, PopRead
  <2> QED BY <1>0, <2>1, <2>4, <2>5, LocalStep, Zenon DEF Pushing
<1>2. CASE PushLoadNext(i)
  <2>1. /\ pc[i] = "load_next" /\ pc'[i] \in {"check", "undefined"} /\ n'[i] = next[t[i]]
        /\ UNCHANGED <<next, data, alive, head_, tail_, pushed, popped, node, t>>
    BY <1>2, Zenon DEF PushLoadNext, Deref, Goto, heap, past, TypeInv, Types
  <2>2. PushLocal(c, i)'
    BY <1>0, <1>a, <1>b, <2>1, Zenon DEF PushLocal, AtTail
  <2>3. PopLocal(c, i)'
    BY <2>1, Zenon DEF PopLocal, PopRead
  <2> QED BY <1>0, <2>1, <2>2, <2>3, LocalStep, Zenon DEF Pushing
<1>3. CASE PushCheck(i)
  <2>1. /\ pc[i] = "check" /\ pc'[i] \in {"load_tail", "link", "help"}
        /\ pc'[i] = "link" => n[i] = Null
        /\ UNCHANGED <<next, data, alive, head_, tail_, pushed, popped, node, t, n>>
    BY <1>3, Zenon DEF PushCheck, Goto, heap, locals, past, TypeInv, Types
  <2>2. PushLocal(c, i)'
    BY <1>0, <1>a, <1>b, <2>1, ZenonT(30) DEF PushLocal, AtTail
  <2>3. PopLocal(c, i)'
    BY <2>1, SMTT(30) DEF PopLocal, PopRead
  <2> QED BY <1>0, <2>1, <2>2, <2>3, LocalStep, Zenon DEF Pushing
<1>4. CASE Count(i)
  <2>1. /\ pc[i] = "count" /\ pc'[i] = "idle"
        /\ UNCHANGED <<next, data, alive, head_, tail_, pushed, popped, node>>
    BY <1>4, SMTT(30) DEF Count, Goto, heap, locals, past, TypeInv, Types
  <2>2. PushLocal(c, i)' /\ PopLocal(c, i)'
    BY <2>1, Zenon DEF PushLocal, PopLocal, AtTail, PopRead
  <2> QED BY <1>0, <2>1, <2>2, LocalStep, Zenon DEF Pushing
<1>5. CASE Link(i) /\ UNCHANGED <<next, pushed>> /\ Deref(i, t[i], "load_tail")
  <2>1. /\ pc[i] = "link" /\ UNCHANGED <<next, data, alive, head_, tail_, pushed, popped, node>>
        /\ pc'[i] \in {"load_tail", "undefined"}
    BY <1>5, ZenonT(30) DEF Link, Deref, Goto, locals, TypeInv, Types
  <2>2. PushLocal(c, i)' /\ PopLocal(c, i)'
    BY <2>1 DEF PushLocal, PopLocal, AtTail, PopRead
  <2> QED BY <1>0, <2>1, <2>2, LocalStep DEF Pushing
<1> QED BY <1>1, <1>2, <1>3, <1>4, <1>5

\* The steps of pop that only read keep the shape.
LEMMA PopReads ==
  ASSUME TypeInv, NEW c \in Places, Shape(c), NEW i \in Threads,
         \/ PopLoadHead(i) \/ PopLoadTail(i) \/ PopLoadNext(i) \/ PopCheck(i) \/ Discount(i)
         \/ AdvanceHead(i) /\ UNCHANGED <<head_, popped>> /\ Goto(i, "retry") /\ ~Ordered
  PROVE  Shape(c)'
<1>0. Others(i) /\ usage' = usage /\ first' = first /\ last' = last
  <2>1. pop(i)
    BY Zenon DEF pop
  <2>2. UNCHANGED <<pushed, popped>>
    BY DEF PopLoadHead, PopLoadTail, PopLoadNext, PopCheck, Discount, AdvanceHead, past
  <2> QED BY <2>1, <2>2, OneThread DEF TypeInv, first, last
<1>a. (OneProducer' <=> OneProducer) /\ (OneConsumer' <=> OneConsumer)
  BY <1>0 DEF OneProducer, OneConsumer, Ordered
<1>b. PopLocal(c, i)
  BY SMTT(30) DEF Shape
<1>1. CASE PopLoadHead(i)
  <2>1. /\ pc[i] \in {"idle", "retry"} /\ pc'[i] = "pop_tail" /\ h'[i] = head_
        /\ UNCHANGED <<next, data, alive, head_, tail_, pushed, popped, node>>
    BY <1>1, SMTT(30) DEF PopLoadHead, Goto, heap, past, TypeInv, Types
  <2>2. PushLocal(c, i)' /\ PopLocal(c, i)'
    BY <2>1, ZenonT(30) DEF PushLocal, PopLocal, AtTail, PopRead
  <2> QED BY <1>0, <2>1, <2>2, LocalStep, Zenon DEF Pushing
<1>2. CASE PopLoadTail(i)
  <2>1. /\ pc[i] = "pop_tail" /\ pc'[i] = "pop_next" /\ t'[i] = tail_
        /\ UNCHANGED <<next, data, alive, head_, tail_, pushed, popped, node, h>>
    BY <1>2, Zenon DEF PopLoadTail, Goto, heap, past, TypeInv, Types
  <2>2. PushLocal(c, i)' /\ PopLocal(c, i)'
    BY <1>a, <1>b, <2>1, Zenon DEF PushLocal, PopLocal, AtTail, PopRead
  <2> QED BY <1>0, <2>1, <2>2, LocalStep, Zenon DEF Pushing
<1>3. CASE PopLoadNext(i)
  <2>1. /\ pc[i] = "pop_next" /\ pc'[i] \in {"pop_check", "undefined"} /\ n'[i] = next[h[i]]
        /\ UNCHANGED <<next, data, alive, head_, tail_, pushed, popped, node, h, t>>
    BY <1>3, SMTT(30) DEF PopLoadNext, Deref, Goto, heap, past, TypeInv, Types
  <2>2. PushLocal(c, i)' /\ PopLocal(c, i)'
    BY <1>a, <1>b, <2>1, ZenonT(30) DEF PushLocal, PopLocal, AtTail, PopRead
  <2> QED BY <1>0, <2>1, <2>2, LocalStep, Zenon DEF Pushing
<1>4. CASE PopCheck(i)
  <2>1. /\ pc[i] = "pop_check" /\ pc'[i] \in {"retry", "idle", "pop_help", "move"}
        /\ pc'[i] = "pop_help" => h[i] = t[i]
        /\ pc'[i] = "move" => h[i] # t[i]
        /\ UNCHANGED <<next, data, alive, head_, tail_, pushed, popped, node, h, t, n>>
    BY <1>4, ZenonT(30) DEF PopCheck, after_check, Goto, heap, locals, past, TypeInv, Types
  <2>2. PushLocal(c, i)'
    BY <2>1, Zenon DEF PushLocal, AtTail
  <2>3. PopLocal(c, i)'
    BY <1>a, <1>b, <2>1, Zenon DEF PopLocal, PopRead
  <2> QED BY <1>0, <2>1, <2>2, <2>3, LocalStep, Zenon DEF Pushing
<1>5. CASE Discount(i)
  <2>1. /\ pc[i] = "discount" /\ pc'[i] = "delete"
        /\ UNCHANGED <<next, data, alive, head_, tail_, pushed, popped, node, h, res>>
    BY <1>5, SMTT(30) DEF Discount, Goto, heap, locals, past, TypeInv, Types
  <2>2. PushLocal(c, i)' /\ PopLocal(c, i)'
    BY <1>0, <1>a, <1>b, <2>1, ZenonT(30) DEF PushLocal, PopLocal, AtTail, PopRead
  <2> QED BY <1>0, <2>1, <2>2, LocalStep, Zenon DEF Pushing
<1>6. CASE AdvanceHead(i) /\ UNCHANGED <<head_, popped>> /\ Goto(i, "retry") /\ ~Ordered
  <2>1. /\ pc[i] = "advance" /\ pc'[i] = "retry" /\ ~Ordered
        /\ UNCHANGED <<next, data, alive, head_, tail_, pushed, popped, node>>
    BY <1>6, Zenon DEF AdvanceHead, Goto, heap, locals, TypeInv, Types
  <2>2. PushLocal(c, i)' /\ PopLocal(c, i)'
    BY <2>1, Zenon DEF PushLocal, PopLocal, AtTail, PopRead
  <2> QED BY <1>0, <2>1, <2>2, LocalStep, Zenon DEF Pushing
<1> QED BY <1>1, <1>2, <1>3, <1>4, <1>5, <1>6

\* An interval that is not empty has both its ends.
LEMMA EndsOfInterval ==
  \A a, b \in Nat : a <= b => a \in a..b /\ b \in a..b /\ (a < b => a # b)
  OBVIOUS

\* tail_ moves forward, to the last cell and off the dummy.
LEMMA SwingShape ==
  ASSUME TypeInv, NEW c \in Places, Shape(c), NEW i \in Threads, Others(i), usage' = usage,
         UNCHANGED <<next, data, alive, head_, pushed, popped>>, node'[i] = node[i],
         NEW to \in Nodes, tail_' = IF tail_ = t[i] THEN to ELSE tail_,
         tail_ = t[i] => to = next[t[i]],
         \/ pc[i] \in {"swing", "pop_help"} /\ pc'[i] \in {"count", "retry"}
         \/ pc[i] = "help" /\ pc'[i] = "load_tail"
  PROVE  Shape(c)'
<1>0. first' = first /\ last' = last /\ first \in Nat /\ last \in Nat
  BY Ends DEF TypeInv, first, last
<1>a. (OneProducer' <=> OneProducer) /\ (OneConsumer' <=> OneConsumer) /\ (Ordered' <=> Ordered)
  BY Zenon DEF OneProducer, OneConsumer, Ordered
<1>b. \A j \in Threads \ {i} :
        /\ pc'[j] = pc[j] /\ node'[j] = node[j] /\ h'[j] = h[j]
        /\ t'[j] = t[j] /\ n'[j] = n[j] /\ res'[j] = res[j]
  BY Zenon DEF Others
<1>c. first <= last /\ (\A k \in first..last : next[c[k]] = IF k = last THEN Null ELSE c[k + 1])
  BY Zenon DEF Shape, Linked
<1>d. to # Null
  BY QueueAssumption, ZenonT(30)
<1>e. tail_ = t[i] => first < last /\ tail_ = c[last - 1] /\ tail_' = c[last]
  <2> SUFFICES ASSUME tail_ = t[i] PROVE first < last /\ tail_ = c[last - 1] /\ tail_' = c[last]
    BY Zenon
  <2>1. tail_ # c[last]
    <3>1. last \in first..last
      BY <1>0, <1>c, EndsOfInterval, Zenon
    <3>2. next[c[last]] = Null
      BY <1>c, <3>1, Zenon
    <3> QED BY <1>0, <1>d, <3>2, Zenon
  <2>2. first < last /\ tail_ = c[last - 1]
    BY <2>1, Zenon DEF Shape, TailNear
  <2>3. next[c[last - 1]] = c[last]
    BY <1>0, <1>c, <2>2, SMTT(30)
  <2> QED BY <2>2, <2>3
<1>1. Linked(c)'
  BY <1>0, Zenon DEF Shape, Linked
<1>2. TailNear(c)'
  <2>1. CASE tail_' = c[last]
    BY <1>0, <2>1, Zenon DEF TailNear
  <2>2. CASE tail_' # c[last]
    <3>0. tail_' = tail_ /\ tail_ # t[i]
      BY <1>e, <2>2, Zenon
    <3>1. PICK j \in Threads : pc[j] = "swing" /\ t[j] = tail_
      BY <2>2, <3>0, Zenon DEF Shape, TailNear
    <3>2. j # i
      BY <3>0, <3>1, Zenon
    <3>3. pc'[j] = "swing" /\ t'[j] = tail_'
      BY <1>b, <3>0, <3>1, <3>2, Zenon
    <3> QED BY <1>0, <2>2, <3>0, <3>3, Zenon DEF Shape, TailNear
  <2> QED BY <2>1, <2>2, Zenon
<1>3. \A j \in Threads : /\ pc'[j] \in Pushing => pc[j] \in Pushing /\ node'[j] = node[j]
                         /\ pc'[j] \in {"discount", "delete"} =>
                              pc[j] \in {"discount", "delete"} /\ h'[j] = h[j] /\ res'[j] = res[j]
                         /\ pc'[j] = "advance" <=> pc[j] = "advance"
                         /\ pc'[j] = "advance" => res'[j] = res[j]
  BY <1>b, Zenon DEF Pushing
<1>4. Apart'
  BY <1>3, SMTT(30) DEF Shape, Apart
<1>5. InOrder(c)'
  BY <1>0, <1>a, <1>3, Zenon DEF Shape, InOrder
<1>6. \A j \in Threads : Owns(c, j)'
  BY <1>0, <1>3, SMTT(30) DEF Shape, Owns
<1>7. \A j \in Threads : PushLocal(c, j)'
  <2>1. PushLocal(c, i)'
    BY Zenon DEF PushLocal, AtTail
  <2> SUFFICES ASSUME NEW j \in Threads \ {i} PROVE PushLocal(c, j)'
    BY <2>1, Zenon
  <2>2. PushLocal(c, j)
    BY Zenon DEF Shape
  <2>3. tail_ = c[last] => tail_' = c[last]
    BY <1>e, Zenon
  <2> QED BY <1>0, <1>a, <1>b, <2>2, <2>3, ZenonT(30) DEF PushLocal
<1>8. \A j \in Threads : PopLocal(c, j)'
  <2>1. PopLocal(c, i)'
    BY Zenon DEF PopLocal, PopRead
  <2> SUFFICES ASSUME NEW j \in Threads \ {i} PROVE PopLocal(c, j)'
    BY <2>1
  <2>2. PopLocal(c, j)
    BY Zenon DEF Shape
  <2>3. tail_ # head_ => tail_' # head_
    <3>1. first < last => c[last] # c[first]
      <4>1. first \in first..last /\ last \in first..last /\ (first < last => first # last)
        BY <1>0, <1>c, EndsOfInterval, Zenon
      <4> QED BY <4>1, Zenon DEF Shape, Linked
    <3> QED BY <1>e, <3>1, Zenon DEF Shape, Linked
  <2> QED BY <1>0, <1>a, <1>b, <2>2, <2>3, ZenonT(30) DEF PopLocal
<1> QED BY <1>1, <1>2, <1>4, <1>5, <1>6, <1>7, <1>8, ZenonT(30) DEF Shape

\* The three compare-and-swaps of tail_ keep the shape.
LEMMA SwingsKeepShape ==
  ASSUME TypeInv, NEW c \in Places, Shape(c), NEW i \in Threads,
         \/ SwingTail(i, "swing", node[i], "count")
         \/ SwingTail(i, "help", n[i], "load_tail")
         \/ SwingTail(i, "pop_help", n[i], "retry")
  PROVE  Shape(c)'
<1>0. Others(i) /\ usage' = usage
  BY OneThread, Zenon DEF TypeInv, push, pop
<1>a. UNCHANGED <<next, data, alive, head_, node, pushed, popped>>
  BY Zenon DEF SwingTail, heap, locals, past
<1>b. PushLocal(c, i) /\ PopLocal(c, i)
  BY Zenon DEF Shape
<1>c. first \in Nat /\ last \in Nat /\ \E k \in first..last : tail_ = c[k]
  BY Ends, SMTT(30) DEF Shape, TailNear, Linked, TypeInv
<1>1. CASE SwingTail(i, "swing", node[i], "count")
  <2>1. /\ pc[i] = "swing" /\ pc'[i] = "count" /\ node[i] \in Nodes
        /\ tail_' = IF tail_ = t[i] THEN node[i] ELSE tail_
    BY <1>1 DEF SwingTail, Goto, TypeInv, Types, Callers, PushPositions, Cells
  <2>2. tail_ = t[i] => node[i] = next[t[i]]
    BY <1>b, <1>c, <2>1, ZenonT(30) DEF PushLocal
  <2> QED BY <1>0, <1>a, <2>1, <2>2, SwingShape, Zenon
<1>2. CASE SwingTail(i, "help", n[i], "load_tail")
  <2>1. /\ pc[i] = "help" /\ pc'[i] = "load_tail" /\ n[i] \in Nodes /\ n[i] # Null
        /\ tail_' = IF tail_ = t[i] THEN n[i] ELSE tail_
    BY <1>2, Zenon DEF SwingTail, Goto, TypeInv, Types, Pointers, Cells
  <2>2. n[i] = next[t[i]]
    BY <1>b, <2>1, SMTT(30) DEF PushLocal
  <2> QED BY <1>0, <1>a, <2>1, <2>2, SwingShape, ZenonT(30)
<1>3. CASE SwingTail(i, "pop_help", n[i], "retry")
  <2>1. /\ pc[i] = "pop_help" /\ pc'[i] = "retry" /\ n[i] \in Nodes /\ n[i] # Null
        /\ tail_' = IF tail_ = t[i] THEN n[i] ELSE tail_
    BY <1>3, Zenon DEF SwingTail, Goto, TypeInv, Types, Pointers, Cells
  <2>2. n[i] = next[t[i]]
    BY <1>b, <2>1, Zenon DEF PopLocal
  <2> QED BY <1>0, <1>a, <2>1, <2>2, SwingShape, Zenon
<1> QED BY <1>1, <1>2, <1>3, Zenon

\* No operation is pushing once the consumers have started after the producers.
LEMMA NoPusherBeside ==
  ASSUME TypeInv, NEW i \in Threads, h[i] # Null, ~OneProducer
  PROVE  items = MaxItems /\ \A j \in Threads : pc[j] \notin PushPositions
<1>1. usage \in {"producers_first", "consumers_race"}
  <2>1. usage \in {"single_producer", "producers_first", "consumers_race", "weak"}
    BY QueueAssumption, Zenon DEF TypeInv, Types
  <2> QED BY <2>1, Zenon DEF OneProducer
<1> QED BY <1>1 DEF TypeInv, Callers

\* A new node is none of the cells that anyone holds.
LEMMA NewNodeShape ==
  ASSUME TypeInv, NEW c \in Places, Shape(c), NEW i \in Threads, NewNode(i)
  PROVE  Shape(c)'
<1>0. Others(i) /\ usage' = usage
  BY OneThread DEF TypeInv, push
<1>1. PICK x \in Nodes \ alive :
        /\ alive' = alive \cup {x}
        /\ next' = [next EXCEPT ![x] = Null]
        /\ data' = [data EXCEPT ![x] = items']
        /\ node' = [node EXCEPT ![i] = x]
  BY Zenon DEF NewNode
<1>2. /\ UNCHANGED <<head_, tail_, h, t, n, res, pushed, popped>>
      /\ pc[i] = "idle" /\ pc'[i] = "load_tail" /\ items < MaxItems /\ items' = items + 1
  BY Zenon DEF NewNode, Goto, TypeInv, Types
<1>3. first' = first /\ last' = last /\ first \in Nat /\ last \in Nat /\ first <= last
  BY <1>2, Ends DEF TypeInv, first, last, Shape, Linked
<1>a. (OneProducer' <=> OneProducer) /\ (OneConsumer' <=> OneConsumer) /\ (Ordered' <=> Ordered)
  BY <1>0, Zenon DEF OneProducer, OneConsumer, Ordered
<1>b. \A j \in Threads \ {i} :
        /\ pc'[j] = pc[j] /\ node'[j] = node[j] /\ h'[j] = h[j]
        /\ t'[j] = t[j] /\ n'[j] = n[j] /\ res'[j] = res[j]
  BY <1>0 DEF Others
<1>c. \A y \in Nodes : y # x => next'[y] = next[y] /\ data'[y] = data[y]
  BY <1>1, Zenon DEF TypeInv, Types
<1>d. next'[x] = Null /\ data'[x] \in 1..MaxItems /\ node'[i] = x
  <2>1. MaxItems \in Nat
    BY QueueAssumption
  <2>2. items + 1 \in 1..MaxItems
    BY <1>2, <2>1 DEF TypeInv, Types
  <2> QED BY <1>1, <1>2, <2>2 DEF TypeInv, Types
<1>e. \A k \in first..last : c[k] \in alive /\ c[k] # x /\ c[k] \in Nodes
  BY <1>1, <1>3, SMTT(30) DEF Shape, Linked, Places
<1>f. \A j \in Threads : pc[j] \in Pushing => node[j] \in alive /\ node[j] # x /\ node[j] \in Nodes
  BY <1>1, Zenon DEF Shape, Owns, TypeInv, Types
<1>g. \A j \in Threads : pc[j] \in PopPositions \ {"retry"} => h[j] \in alive /\ h[j] # x /\ h[j] \in Nodes
  <2> SUFFICES ASSUME NEW j \in Threads, pc[j] \in PopPositions \ {"retry"}
               PROVE  h[j] \in alive
    BY <1>1, ZenonT(30) DEF TypeInv, Types
  <2>1. h[j] # Null
    BY DEF TypeInv, Callers
  <2>2. OneConsumer
    <3>1. items # MaxItems
      <4>1. MaxItems \in Nat
        BY QueueAssumption
      <4> QED BY <1>2, <4>1 DEF TypeInv, Types
    <3>2. OneProducer
      BY <2>1, <3>1, NoPusherBeside, Zenon
    <3> QED BY <3>2 DEF OneProducer, OneConsumer, Ordered
  <2>3. head_ \in alive
    BY <1>3 DEF Shape, Linked
  <2>4. PopLocal(c, j)
    BY Zenon DEF Shape
  <2> QED BY <2>2, <2>3, <2>4, Zenon DEF PopLocal, PopPositions
<1>4. Linked(c)'
  <2>1. \A k \in first..last : c[k] \in alive' /\ next'[c[k]] = next[c[k]]
    BY <1>1, <1>c, <1>e, SMTT(30)
  <2> QED BY <1>2, <1>3, <2>1, Zenon DEF Shape, Linked
<1>5. TailNear(c)'
  <2>1. \A j \in Threads : pc[j] = "swing" => pc'[j] = "swing" /\ t'[j] = t[j]
    BY <1>2, <1>b, Zenon
  <2> QED BY <1>2, <1>3, <2>1, ZenonT(30) DEF Shape, TailNear
<1>6. Apart'
  <2> SUFFICES ASSUME NEW j \in Threads, NEW m \in Threads, pc'[j] \in Pushing
               PROVE  /\ pc'[m] \in Pushing /\ node'[j] = node'[m] => j = m
                      /\ pc'[m] \in {"discount", "delete"} => node'[j] # h'[m]
    BY Zenon DEF Apart
  <2>1. pc'[m] \in {"discount", "delete"} => pc[m] \in {"discount", "delete"} /\ h'[m] = h[m] /\ h[m] # x
    BY <1>2, <1>b, <1>g, Zenon DEF PopPositions
  <2>2. j # i => pc[j] \in Pushing /\ node'[j] = node[j] /\ node[j] # x
    BY <1>b, <1>f, SMTT(30)
  <2>3. m # i /\ pc'[m] \in Pushing => pc[m] \in Pushing /\ node'[m] = node[m] /\ node[m] # x
    BY <1>b, <1>f, ZenonT(30)
  <2>4. pc[j] \in Pushing => /\ pc[m] \in Pushing /\ node[j] = node[m] => j = m
                             /\ pc[m] \in {"discount", "delete"} => node[j] # h[m]
    BY Zenon DEF Shape, Apart
  <2> QED BY <1>d, <2>1, <2>2, <2>3, <2>4, Zenon
<1>7. InOrder(c)'
  <2> SUFFICES ASSUME Ordered PROVE InOrder(c)'
    BY <1>a, ZenonT(30) DEF InOrder
  <2>1. \A j \in Threads : /\ pc'[j] = "advance" <=> pc[j] = "advance"
                           /\ res'[j] = res[j]
                           /\ pc'[j] \in {"discount", "delete"} => pc[j] \in {"discount", "delete"}
    BY <1>2, <1>b, ZenonT(30)
  <2>2. \A k \in (first + 1)..last : data'[c[k]] = data[c[k]]
    BY <1>3, <1>c, <1>e, SMTT(30)
  <2> QED BY <1>2, <1>3, <2>1, <2>2, Zenon DEF Shape, InOrder
<1>8. \A j \in Threads : Owns(c, j)'
  <2>1. Owns(c, i)'
    BY <1>1, <1>3, <1>d, <1>e, SMTT(30) DEF Owns
  <2> SUFFICES ASSUME NEW j \in Threads \ {i}, pc[j] \in Pushing PROVE Owns(c, j)'
    BY <1>b, <2>1, Zenon DEF Owns
  <2>2. node[j] \in alive' /\ next'[node[j]] = next[node[j]] /\ data'[node[j]] = data[node[j]]
    BY <1>1, <1>c, <1>f, Zenon
  <2>3. Owns(c, j) /\ node'[j] = node[j]
    BY <1>b, Zenon DEF Shape
  <2> QED BY <1>3, <2>2, <2>3, Zenon DEF Owns
<1>9. \A j \in Threads : PushLocal(c, j)'
  <2>1. PushLocal(c, i)'
    BY <1>2 DEF PushLocal, AtTail
  <2> SUFFICES ASSUME NEW j \in Threads \ {i} PROVE PushLocal(c, j)'
    BY <2>1
  <2>2. PushLocal(c, j)
    BY DEF Shape
  <2>3. \A k \in first..last : t[j] = c[k] => next'[t[j]] = next[t[j]]
    BY <1>c, <1>e, ZenonT(30)
  <2> QED BY <1>2, <1>3, <1>a, <1>b, <2>2, <2>3, ZenonT(30) DEF PushLocal, AtTail
<1>10. \A j \in Threads : PopLocal(c, j)'
  <2>1. PopLocal(c, i)'
    BY <1>2, Zenon DEF PopLocal, PopRead
  <2> SUFFICES ASSUME NEW j \in Threads \ {i} PROVE PopLocal(c, j)'
    BY <2>1
  <2>2. PopLocal(c, j)
    BY ZenonT(30) DEF Shape
  <2>3. pc[j] \in PopPositions \ {"retry"} => next'[h[j]] = next[h[j]]
    BY <1>c, <1>g
  <2>4. alive \subseteq alive'
    BY <1>1, Zenon
  <2>5. /\ pc'[j] = pc[j] /\ h'[j] = h[j] /\ t'[j] = t[j] /\ n'[j] = n[j]
        /\ head_' = head_ /\ tail_' = tail_ /\ first' = first /\ last' = last /\ (OneConsumer' <=> OneConsumer)
    BY <1>2, <1>3, <1>a, <1>b, Zenon
  <2>6. pc[j] \in {"pop_check", "pop_help", "move", "advance"} => next'[h[j]] = next[h[j]]
    BY <2>3, Zenon DEF PopPositions, PopRead
  <2> QED BY <2>2, <2>4, <2>5, <2>6, ZenonT(30) DEF PopLocal
<1> QED BY <1>4, <1>5, <1>6, <1>7, <1>8, <1>9, <1>10, ZenonT(30) DEF Shape

\* What is linked or claimed goes to the end of what was before.
LEMMA OneMore ==
  ASSUME NEW s \in Seq(Nat), NEW x \in Nat
  PROVE  /\ Append(s, x) \in Seq(Nat) /\ Len(Append(s, x)) = Len(s) + 1
         /\ Append(s, x)[Len(s) + 1] = x
         /\ \A k \in 1..Len(s) : Append(s, x)[k] = s[k]
  OBVIOUS

\* The cell that a single consumer is about to claim is the next one in the list.
LEMMA HasNext ==
  ASSUME TypeInv, NEW c \in Places, Shape(c), NEW i \in Threads,
         pc[i] \in {"move", "advance"}, h[i] = head_
  PROVE  first < last /\ n[i] = c[first + 1]
<1>0. first \in Nat /\ last \in Nat /\ first <= last /\ c[first] = head_
  BY Ends, Zenon DEF TypeInv, Shape, Linked
<1>1. n[i] # Null /\ n[i] = next[c[first]]
  BY <1>0 DEF TypeInv, Pointers, Shape, PopLocal
<1>2. next[c[first]] = IF first = last THEN Null ELSE c[first + 1]
  BY <1>0 DEF Shape, Linked
<1> QED BY <1>0, <1>1, <1>2

\* The linked node becomes the last place.
LEMMA LinkShape ==
  ASSUME TypeInv, NEW c \in Places, Shape(c), NEW i \in Threads, Link(i),
         next_unchanged(i),
         next' = [next EXCEPT ![t[i]] = node[i]],
         pushed' = Append(pushed, data[node[i]]),
         Deref(i, t[i], "swing")
  PROVE  pc'[i] = "swing" /\ \E d \in Places : Shape(d)'
<1>0. Others(i) /\ usage' = usage
  BY OneThread, Zenon DEF TypeInv, push
<1>1. /\ UNCHANGED <<data, alive, head_, tail_, node, h, t, n, res, popped>>
      /\ pc[i] = "link" /\ node[i] \in Nodes
  BY DEF Link, locals, TypeInv, Types, Callers, PushPositions, Pushing, Cells
<1>2. first' = first /\ first \in Nat /\ last \in Nat /\ first <= last /\ last' = last + 1
  <2>1. first' = first /\ first \in Nat /\ last \in Nat /\ first <= last
    BY <1>1, Ends, Zenon DEF TypeInv, first, Shape, Linked
  <2>2. last' = last + 1
    <3>1. pushed \in Seq(Nat) /\ data[node[i]] \in Nat
      BY <1>1, Zenon DEF TypeInv, Types
    <3> QED BY <3>1, OneMore DEF last
  <2> QED BY <2>1, <2>2
<1>a. (OneProducer' <=> OneProducer) /\ (OneConsumer' <=> OneConsumer) /\ (Ordered' <=> Ordered)
  BY <1>0, Zenon DEF OneProducer, OneConsumer, Ordered
<1>b. \A j \in Threads \ {i} :
        /\ pc'[j] = pc[j] /\ node'[j] = node[j] /\ h'[j] = h[j]
        /\ t'[j] = t[j] /\ n'[j] = n[j] /\ res'[j] = res[j]
  BY <1>0, Zenon DEF Others
<1>c. /\ \A k \in first..last : c[k] \in alive /\ next[c[k]] = IF k = last THEN Null ELSE c[k + 1]
      /\ \A k, l \in first..last : c[k] = c[l] => k = l
  BY Zenon DEF Shape, Linked
<1>d. \A k \in Nat : c[k] \in Nodes /\ c[k] # Null
  BY QueueAssumption, Zenon DEF Places
<1>e. t[i] = c[last] /\ next[c[last]] = Null
  <2>1. PushLocal(c, i)
    BY Zenon DEF Shape
  <2>2. n[i] = Null /\ next[t[i]] = Null
    BY <1>1, <2>1, Zenon DEF PushLocal, next_unchanged
  <2>3. PICK k \in first..last : t[i] = c[k]
    BY <1>1, <2>1, Zenon DEF PushLocal, AtTail
  <2>4. k = last
    BY <1>2, <1>c, <1>d, <2>2, <2>3
  <2> QED BY <2>2, <2>3, <2>4, Zenon
<1>f. tail_ = c[last]
  <2>1. PushLocal(c, i)
    BY DEF Shape
  <2> QED BY <1>1, <1>e, <2>1, Zenon DEF PushLocal, AtTail
<1>g. pc'[i] = "swing"
  BY <1>2, <1>c, <1>e, SMTT(30) DEF Deref, Goto, TypeInv, Types
<1>h. Owns(c, i) /\ pc[i] \in Pushing
  BY <1>1, Zenon DEF Shape, Pushing
<1>i. /\ node[i] \in alive /\ next[node[i]] = Null /\ data[node[i]] \in 1..MaxItems
      /\ \A k \in first..last : c[k] # node[i]
  BY <1>h DEF Owns
<1>j. PICK d \in Places : d[last + 1] = node[i] /\ \A k \in first..last : d[k] = c[k]
  <2>1. [c EXCEPT ![last + 1] = node[i]] \in Places
    BY <1>1, Zenon DEF Places
  <2>2. /\ [c EXCEPT ![last + 1] = node[i]][last + 1] = node[i]
        /\ \A k \in first..last : [c EXCEPT ![last + 1] = node[i]][k] = c[k]
    BY <1>2 DEF Places
  <2> QED BY <2>1, <2>2, Zenon
<1>k. \A y \in Nodes : next'[y] = IF y = c[last] THEN node[i] ELSE next[y]
  BY <1>2, <1>d, <1>e, Zenon DEF TypeInv, Types
<1>l. \A j \in Threads \ {i} : pc[j] \in Pushing => node[j] # node[i] /\ node[j] \in Nodes
  BY <1>h, Zenon DEF Shape, Apart, TypeInv, Types, Owns
<1>m. first'..last' = (first..last) \cup {last + 1}
  BY <1>2
<1>3. Linked(d)'
  <2>1. d[first] = head_' /\ first' <= last'
    BY <1>1, <1>2, <1>j DEF Shape, Linked
  <2>2. \A k \in first'..last' : d[k] \in alive' /\ next'[d[k]] = IF k = last' THEN Null ELSE d[k + 1]
    <3> SUFFICES ASSUME NEW k \in first'..last'
                 PROVE  d[k] \in alive' /\ next'[d[k]] = IF k = last' THEN Null ELSE d[k + 1]
      BY Zenon
    <3>1. CASE k = last + 1
      <4>1. k = last' /\ last \in first..last
        BY <1>2, <3>1
      <4>2. d[k] = node[i] /\ node[i] # c[last]
        BY <1>i, <1>j, <3>1, <4>1, Zenon
      <4>3. next'[node[i]] = Null
        BY <1>1, <1>i, <1>k, <4>2, Zenon
      <4> QED BY <1>1, <1>i, <4>1, <4>2, <4>3, Zenon
    <3>2. CASE k = last
      <4>1. k # last' /\ last \in first..last /\ last \in Nat
        BY <1>2, <3>2
      <4>2. d[k] = c[last] /\ d[k + 1] = node[i]
        BY <1>j, <3>2, <4>1, Zenon
      <4>3. next'[c[last]] = node[i] /\ c[last] \in alive
        BY <1>c, <1>d, <1>k, <4>1, Zenon
      <4> QED BY <1>1, <4>1, <4>2, <4>3, Zenon
    <3>3. CASE k \in first..(last - 1)
      <4>1. k \in first..last /\ k + 1 \in first..last /\ k # last /\ k # last' /\ last \in first..last
        BY <1>2, <3>3
      <4>2. c[k] # c[last] /\ c[k] \in Nodes
        BY <1>2, <1>c, <1>d, <4>1
      <4> QED BY <1>1, <1>c, <1>j, <1>k, <4>1, <4>2
    <3> QED BY <1>2, <3>1, <3>2, <3>3
  <2>3. \A k, l \in first'..last' : d[k] = d[l] => k = l
    BY <1>c, <1>i, <1>j, <1>m, Zenon
  <2> QED BY <1>2, <2>1, <2>2, <2>3, Zenon DEF Linked
<1>4. TailNear(d)'
  <2>1. d[last' - 1] = tail_' /\ first' < last' /\ t'[i] = tail_'
    BY <1>1, <1>2, <1>e, <1>f, <1>j, SMTT(30)
  <2> QED BY <1>g, <2>1, Zenon DEF TailNear
<1>5. Apart'
  <2>1. \A j \in Threads : /\ pc'[j] \in Pushing => pc[j] \in Pushing /\ node'[j] = node[j]
                           /\ pc'[j] \in {"discount", "delete"} => pc[j] \in {"discount", "delete"} /\ h'[j] = h[j]
    BY <1>b, <1>g, Zenon DEF Pushing
  <2> QED BY <2>1, Zenon DEF Shape, Apart
<1>6. InOrder(d)'
  <2> SUFFICES ASSUME Ordered PROVE InOrder(d)'
    BY <1>a, Zenon DEF InOrder
  <2>0. InOrder(c)
    BY DEF Shape
  <2>1. \A j \in Threads : /\ pc'[j] = "advance" <=> pc[j] = "advance"
                           /\ res'[j] = res[j]
                           /\ pc'[j] \in {"discount", "delete"} => pc[j] \in {"discount", "delete"}
    BY <1>1, <1>b, <1>g, Zenon
  <2>2. pushed'[last + 1] = data[node[i]] /\ \A k \in 1..last : pushed'[k] = pushed[k]
    <3>1. pushed \in Seq(Nat) /\ data[node[i]] \in Nat
      BY <1>1 DEF TypeInv, Types
    <3> QED BY <3>1, OneMore, Zenon DEF last
  <2>3. ASSUME NEW k \in (first' + 1)..last'
        PROVE  /\ pushed'[k] \in 1..MaxItems
               /\ data'[d[k]] = pushed'[k] \/ (k = first' + 1 /\ \E j \in Threads : pc'[j] = "advance")
    <3>1. CASE k = last + 1
      BY <1>1, <1>i, <1>j, <2>2, <3>1, Zenon
    <3>2. CASE k \in (first + 1)..last
      <4>1. k \in 1..last /\ k \in first..last
        BY <1>2, <3>2
      <4>2. /\ pushed[k] \in 1..MaxItems
            /\ data[c[k]] = pushed[k] \/ (k = first + 1 /\ \E j \in Threads : pc[j] = "advance")
        BY <2>0, <3>2, Zenon DEF InOrder
      <4> QED BY <1>1, <1>2, <1>j, <2>1, <2>2, <4>1, <4>2, Zenon
    <3>3. k = last + 1 \/ k \in (first + 1)..last
      BY <1>2
    <3> QED BY <3>1, <3>2, <3>3, Zenon
  <2>4. ASSUME NEW j \in Threads
        PROVE  /\ pc'[j] = "advance" => res'[j] = pushed'[first' + 1]
               /\ pc'[j] \in {"discount", "delete"} => res'[j] \in 1..MaxItems
    <3>1. pc[j] = "advance" => first < last
      <4>1. OneConsumer /\ PopLocal(c, j)
        BY ZenonT(30) DEF Shape, OneConsumer
      <4>2. pc[j] = "advance" => h[j] = head_
        BY <4>1 DEF PopLocal, PopRead
      <4> QED BY <4>2, HasNext, Zenon
    <3>2. pc[j] = "advance" => pushed'[first' + 1] = pushed[first + 1]
      <4>1. pc[j] = "advance" => first + 1 \in 1..last
        BY <1>2, <3>1
      <4> QED BY <1>2, <2>2, <4>1, Zenon
    <3> QED BY <2>0, <2>1, <3>2, Zenon DEF InOrder
  <2> QED BY <2>3, <2>4, Zenon DEF InOrder
<1>7. \A j \in Threads : Owns(d, j)'
  <2>1. Owns(d, i)'
    BY <1>g, Zenon DEF Owns, Pushing
  <2> SUFFICES ASSUME NEW j \in Threads \ {i}, pc[j] \in Pushing PROVE Owns(d, j)'
    BY <1>b, <2>1, Zenon DEF Owns
  <2>2. Owns(c, j) /\ node'[j] = node[j] /\ node[j] # node[i] /\ node[j] \in Nodes
    BY <1>b, <1>l, Zenon DEF Shape
  <2>3. \A k \in first..last : c[k] # node[j]
    BY <2>2, Zenon DEF Owns
  <2>4. next'[node[j]] = next[node[j]] /\ \A k \in first'..last' : d[k] # node[j]
    BY <1>2, <1>j, <1>k, <1>m, <2>2, <2>3, SMTT(30)
  <2> QED BY <1>1, <2>2, <2>4, Zenon DEF Owns
<1>8. \A j \in Threads : PushLocal(d, j)'
  <2>1. PushLocal(d, i)'
    <3>1. \E k \in first'..last' : t'[i] = d[k]
      BY <1>1, <1>2, <1>e, <1>j
    <3>2. next'[t'[i]] = node'[i]
      BY <1>1, <1>2, <1>d, <1>e, <1>k, Zenon
    <3> QED BY <1>g, <3>1, <3>2, Zenon DEF PushLocal, AtTail
  <2> SUFFICES ASSUME NEW j \in Threads \ {i} PROVE PushLocal(d, j)'
    BY <2>1, Zenon
  <2>2. PushLocal(c, j)
    BY Zenon DEF Shape
  <2>3. pc[j] \in AtTail \cup {"swing"} => ~OneProducer
    BY <1>1, <1>d, Zenon DEF TypeInv, Callers, PushPositions, Pushing, AtTail
  <2>4. pc[j] \in AtTail \cup {"swing"} => \E k \in first..last : t[j] = c[k]
    BY <2>2, <2>3, Zenon DEF PushLocal
  <2>5. pc[j] \in AtTail =>
          /\ \E k \in first'..last' : t'[j] = d[k]
          /\ t'[j] # d[last']
          /\ ~OneProducer'
    BY <1>2, <1>a, <1>b, <1>i, <1>j, <1>m, <2>3, <2>4, Zenon
  <2>6. pc[j] \in {"check", "link", "help"} => n[j] = Null \/ n[j] = next'[t[j]]
    <3> SUFFICES ASSUME pc[j] \in {"check", "link", "help"}, n[j] # Null PROVE n[j] = next'[t[j]]
      BY Zenon
    <3>1. n[j] = next[t[j]]
      BY <2>2, Zenon DEF PushLocal
    <3>2. PICK k \in first..last : t[j] = c[k]
      BY <2>4 DEF AtTail
    <3>3. k \in Nat
      BY <1>2
    <3> QED BY <1>d, <1>e, <1>k, <3>1, <3>2, <3>3, Zenon
  <2>7. pc[j] = "swing" => /\ next'[t[j]] = node[j]
                           /\ \E k \in first'..last' : t[j] = d[k]
    <3> SUFFICES ASSUME pc[j] = "swing"
                 PROVE  next'[t[j]] = node[j] /\ \E k \in first'..last' : t[j] = d[k]
      OBVIOUS
    <3>1. PICK k \in first..last : t[j] = c[k]
      BY <2>4, Zenon
    <3>2. next[t[j]] = node[j] /\ node[j] # Null
      BY <2>2, <3>1, Zenon DEF PushLocal, TypeInv, Callers, PushPositions
    <3>3. k \in Nat
      BY <1>2
    <3> QED BY <1>d, <1>e, <1>j, <1>k, <1>m, <3>1, <3>2, <3>3, ZenonT(30)
  <2>8. pc[j] = "link" => n[j] = Null
    BY <2>2, Zenon DEF PushLocal
  <2> QED BY <1>1, <1>b, <2>5, <2>6, <2>7, <2>8, Zenon DEF PushLocal
<1>9. \A j \in Threads : PopLocal(d, j)'
  <2>1. PopLocal(d, i)'
    BY <1>g, Zenon DEF PopLocal, PopRead
  <2> SUFFICES ASSUME NEW j \in Threads \ {i} PROVE PopLocal(d, j)'
    BY <2>1
  <2>2. PopLocal(c, j)
    BY Zenon DEF Shape
  <2>3. pc[j] \in {"pop_check", "pop_help", "move", "advance"} => n[j] = Null \/ n[j] = next'[h[j]]
    <3> SUFFICES ASSUME pc[j] \in {"pop_check", "pop_help", "move", "advance"}, n[j] # Null
                 PROVE  n[j] = next'[h[j]]
      BY Zenon
    <3>1. n[j] = next[h[j]]
      BY <2>2, Zenon DEF PopLocal
    <3>2. h[j] \in Nodes
      BY Zenon DEF TypeInv, Types, Callers, PopPositions, PopRead, Cells
    <3> QED BY <1>e, <1>k, <3>1, <3>2, Zenon
  <2>4. pc[j] \in {"discount", "delete"} => \A k \in first'..last' : d[k] # h[j]
    <3>1. pc[j] \in {"discount", "delete"} => node[i] # h[j] /\ \A k \in first..last : c[k] # h[j]
      BY <1>h, <2>2, Zenon DEF Shape, Apart, PopLocal
    <3> QED BY <1>j, <1>m, <3>1, Zenon
  <2> QED BY <1>1, <1>a, <1>b, <2>2, <2>3, <2>4, Zenon DEF PopLocal
<1>10. Shape(d)'
  BY <1>3, <1>4, <1>5, <1>6, <1>7, <1>8, <1>9, Zenon DEF Shape
<1> QED BY <1>10, <1>g

\* An item is moved out of the cell behind the dummy.
LEMMA MoveOutShape ==
  ASSUME TypeInv, NEW c \in Places, Shape(c), NEW i \in Threads, MoveOut(i)
  PROVE  Shape(c)'
<1>0. Others(i) /\ usage' = usage
  BY OneThread, Zenon DEF TypeInv, pop
<1>1. /\ UNCHANGED <<next, alive, head_, tail_, node, h, t, n, pushed, popped>>
      /\ pc[i] = "move" /\ pc'[i] \in {"advance", "undefined"} /\ h[i] # Null
      /\ data' = [data EXCEPT ![n[i]] = Moved] /\ res'[i] = data[n[i]]
      /\ pc'[i] = IF n[i] \in alive THEN "advance" ELSE "undefined"
  BY ZenonT(30) DEF MoveOut, Deref, Goto, past, TypeInv, Types, Callers, PopPositions, PopRead
<1>2. first' = first /\ last' = last /\ first \in Nat /\ last \in Nat /\ first <= last
  BY <1>1, Ends DEF TypeInv, first, last, Shape, Linked
<1>a. (OneProducer' <=> OneProducer) /\ (OneConsumer' <=> OneConsumer) /\ (Ordered' <=> Ordered)
  BY <1>0, Zenon DEF OneProducer, OneConsumer, Ordered
<1>b. \A j \in Threads \ {i} :
        /\ pc'[j] = pc[j] /\ node'[j] = node[j] /\ h'[j] = h[j]
        /\ t'[j] = t[j] /\ n'[j] = n[j] /\ res'[j] = res[j]
  BY <1>0, Zenon DEF Others
<1>c. OneConsumer => first < last /\ n[i] = c[first + 1]
  <2>1. OneConsumer => h[i] = head_
    BY <1>1, Zenon DEF Shape, PopLocal, PopRead
  <2> QED BY <1>1, <2>1, HasNext, Zenon
<1>d. \A y \in Nodes : y # n[i] => data'[y] = data[y]
  BY <1>1, Zenon DEF TypeInv, Types
<1>3. Linked(c)'
  BY <1>1, <1>2, SMTT(30) DEF Shape, Linked
<1>4. TailNear(c)'
  <2>1. \A j \in Threads : pc[j] = "swing" => pc'[j] = "swing" /\ t'[j] = t[j]
    BY <1>1, <1>b, Zenon
  <2> QED BY <1>1, <1>2, <2>1, ZenonT(30) DEF Shape, TailNear
<1>5. Apart'
  <2>1. \A j \in Threads : /\ pc'[j] \in Pushing => pc[j] \in Pushing /\ node'[j] = node[j]
                           /\ pc'[j] \in {"discount", "delete"} => pc[j] \in {"discount", "delete"} /\ h'[j] = h[j]
    BY <1>1, <1>b, Zenon DEF Pushing
  <2> QED BY <2>1, Zenon DEF Shape, Apart
<1>6. InOrder(c)'
  <2> SUFFICES ASSUME Ordered PROVE InOrder(c)'
    BY <1>a DEF InOrder
  <2>0. InOrder(c) /\ OneConsumer
    BY Zenon DEF Shape, OneConsumer
  <2>1. first + 1 \in first..last /\ n[i] = c[first + 1] /\ pc'[i] = "advance"
    <3>1. first + 1 \in first..last /\ n[i] = c[first + 1]
      BY <1>2, <1>c, <2>0, SMTT(30)
    <3> QED BY <1>1, <3>1 DEF Shape, Linked
  <2>2. \A j \in Threads \ {i} : pc[j] \notin PopPositions
    BY <1>1, <2>0, Zenon DEF TypeInv, Callers
  <2>3. res'[i] = pushed[first + 1]
    <3>1. first + 1 \in (first + 1)..last
      BY <1>2, <2>1
    <3>2. \A j \in Threads : pc[j] # "advance"
      BY <1>1, <2>2, Zenon DEF PopPositions, PopRead
    <3>3. data[c[first + 1]] = pushed[first + 1]
      BY <2>0, <3>1, <3>2, Zenon DEF InOrder
    <3> QED BY <1>1, <2>1, <3>3
  <2>4. ASSUME NEW k \in (first + 1)..last
        PROVE  pushed[k] \in 1..MaxItems /\ (data'[c[k]] = pushed[k] \/ k = first + 1)
    <3>1. k \in first..last /\ c[k] \in Nodes
      BY <1>2 DEF Places
    <3>2. k # first + 1 => c[k] # n[i]
      BY <2>1, <3>1, Zenon DEF Shape, Linked
    <3> QED BY <1>d, <2>0, <3>1, <3>2 DEF InOrder
  <2>5. \A j \in Threads \ {i} : pc'[j] \notin {"advance", "discount", "delete"}
    BY <1>b, <2>2, Zenon DEF PopPositions, PopRead
  <2> QED BY <1>1, <1>2, <2>1, <2>3, <2>4, <2>5, ZenonT(30) DEF InOrder
<1>7. \A j \in Threads : Owns(c, j)'
  <2> SUFFICES ASSUME NEW j \in Threads, pc'[j] \in Pushing PROVE Owns(c, j)'
    BY Zenon DEF Owns
  <2>1. pc[j] \in Pushing /\ node'[j] = node[j] /\ Owns(c, j) /\ node[j] \in Nodes
    BY <1>1, <1>b, Zenon DEF Pushing, Shape, Owns, TypeInv, Types
  <2>2. OneConsumer
    BY <1>1, <2>1, NoPusherBeside, ZenonT(30) DEF PushPositions, OneProducer, OneConsumer, Ordered
  <2>3. node[j] # n[i]
    <3>1. first + 1 \in first..last
      BY <1>2, <1>c, <2>2
    <3> QED BY <1>c, <2>1, <2>2, <3>1, Zenon DEF Owns
  <2>4. data'[node[j]] = data[node[j]]
    BY <1>d, <2>1, <2>3, Zenon
  <2> QED BY <1>1, <1>2, <2>1, <2>4, Zenon DEF Owns
<1>8. \A j \in Threads : PushLocal(c, j)'
  <2>1. PushLocal(c, i)'
    BY <1>1, Zenon DEF PushLocal, AtTail
  <2> SUFFICES ASSUME NEW j \in Threads \ {i} PROVE PushLocal(c, j)'
    BY <2>1
  <2>2. PushLocal(c, j)
    BY ZenonT(30) DEF Shape
  <2> QED BY <1>1, <1>2, <1>a, <1>b, <2>2, SMTT(30) DEF PushLocal
<1>9. \A j \in Threads : PopLocal(c, j)'
  <2>1. PopLocal(c, i)'
    <3>1. PopLocal(c, i)
      BY DEF Shape
    <3> QED BY <1>1, <1>a, <3>1, Zenon DEF PopLocal, PopRead
  <2> SUFFICES ASSUME NEW j \in Threads \ {i} PROVE PopLocal(c, j)'
    BY <2>1
  <2>2. PopLocal(c, j)
    BY DEF Shape
  <2> QED BY <1>1, <1>2, <1>a, <1>b, <2>2, SMTT(30) DEF PopLocal
<1> QED BY <1>3, <1>4, <1>5, <1>6, <1>7, <1>8, <1>9, Zenon DEF Shape

\* The dummy leaves the list and the cell behind it becomes the dummy.
LEMMA AdvanceShape ==
  ASSUME TypeInv, NEW c \in Places, Shape(c), NEW i \in Threads, AdvanceHead(i),
         head_ = h[i], head_' = new_head(i), popped' = Append(popped, res[i]), Goto(i, "discount")
  PROVE  Shape(c)'
<1>0. Others(i) /\ usage' = usage
  BY OneThread, Zenon DEF TypeInv, pop
<1>1. /\ UNCHANGED <<next, data, alive, tail_, node, h, t, n, res, pushed>>
      /\ pc[i] = "advance" /\ pc'[i] = "discount" /\ h[i] # Null
  BY ZenonT(30) DEF AdvanceHead, Goto, heap, locals, TypeInv, Types, Callers, PopPositions, PopRead
<1>2. /\ first \in Nat /\ last \in Nat /\ first < last /\ first' = first + 1 /\ last' = last
      /\ n[i] = c[first + 1]
  <2>1. first \in Nat /\ last \in Nat /\ last' = last
    BY <1>1, Ends, Zenon DEF TypeInv, last
  <2>2. first' = first + 1
    <3>1. popped \in Seq(Nat) /\ res[i] \in Nat
      BY DEF TypeInv, Types
    <3> QED BY <3>1, OneMore DEF first
  <2> QED BY <1>1, <2>1, <2>2, HasNext, Zenon
<1>a. (OneProducer' <=> OneProducer) /\ (OneConsumer' <=> OneConsumer) /\ (Ordered' <=> Ordered)
  BY <1>0, Zenon DEF OneProducer, OneConsumer, Ordered
<1>b. \A j \in Threads \ {i} :
        /\ pc'[j] = pc[j] /\ node'[j] = node[j] /\ h'[j] = h[j]
        /\ t'[j] = t[j] /\ n'[j] = n[j] /\ res'[j] = res[j]
  BY <1>0, Zenon DEF Others
<1>c. c[first] = h[i] /\ \A k \in first'..last' : k \in first..last /\ k # first
  BY <1>2, SMTT(30) DEF Shape, Linked
<1>d. OneConsumer => \A j \in Threads \ {i} : pc[j] \notin PopPositions
  BY <1>1, Zenon DEF TypeInv, Callers
<1>e. OneProducer \/ \A j \in Threads : pc[j] \notin PushPositions
  BY <1>1, NoPusherBeside, Zenon
<1>f. \A k \in first'..last' : c[k] # h[i]
  <2>1. first \in first..last
    BY <1>2, SMTT(30)
  <2> QED BY <1>c, <2>1, Zenon DEF Shape, Linked
<1>3. Linked(c)'
  <2>1. head_' = c[first'] /\ first' <= last'
    BY <1>2 DEF new_head
  <2> QED BY <1>1, <1>2, <1>c, <2>1, Zenon DEF Shape, Linked
<1>4. TailNear(c)'
  <2>1. CASE tail_ = c[last]
    BY <1>1, <1>2, <2>1, Zenon DEF TailNear
  <2>2. CASE tail_ # c[last]
    <3>1. PICK j \in Threads : pc[j] = "swing" /\ t[j] = tail_
      BY <2>2, Zenon DEF Shape, TailNear
    <3>2. pc'[j] = "swing" /\ t'[j] = tail_'
      BY <1>1, <1>b, <3>1, Zenon
    <3>3. tail_ = c[last - 1]
      BY <2>2, Zenon DEF Shape, TailNear
    <3>4. tail_ # head_
      <4>1. OneProducer
        BY <1>e, <3>1 DEF PushPositions
      <4>2. PopLocal(c, i) /\ OneConsumer
        BY <4>1, Zenon DEF Shape, OneProducer, OneConsumer, Ordered
      <4> QED BY <1>1, <4>2, Zenon DEF PopLocal
    <3>5. last - 1 # first
      BY <1>c, <3>3, <3>4, Zenon
    <3>6. first' < last' /\ tail_' = c[last' - 1]
      BY <1>1, <1>2, <3>3, <3>5, SMTT(30)
    <3> QED BY <3>2, <3>6, Zenon DEF TailNear
  <2> QED BY <2>1, <2>2, Zenon
<1>5. Apart'
  <2>1. \A j \in Threads : pc'[j] \in Pushing => pc[j] \in Pushing /\ node'[j] = node[j] /\ node[j] # h[i]
    <3> SUFFICES ASSUME NEW j \in Threads, pc'[j] \in Pushing
                 PROVE  pc[j] \in Pushing /\ node'[j] = node[j] /\ node[j] # h[i]
      BY SMTT(30)
    <3>1. pc[j] \in Pushing /\ node'[j] = node[j]
      BY <1>1, <1>b, Zenon DEF Pushing
    <3>2. first \in first..last
      BY <1>2
    <3>3. Owns(c, j)
      BY Zenon DEF Shape
    <3> QED BY <1>c, <3>1, <3>2, <3>3, Zenon DEF Owns
  <2>2. \A j \in Threads : pc'[j] \in {"discount", "delete"} =>
                             j = i \/ (pc[j] \in {"discount", "delete"} /\ h'[j] = h[j])
    BY <1>b, Zenon
  <2>3. h'[i] = h[i]
    BY <1>1, Zenon
  <2> QED BY <2>1, <2>2, <2>3, ZenonT(30) DEF Shape, Apart
<1>6. InOrder(c)'
  <2> SUFFICES ASSUME Ordered PROVE InOrder(c)'
    BY <1>a DEF InOrder
  <2>0. InOrder(c) /\ OneConsumer
    BY Zenon DEF Shape, OneConsumer
  <2>1. \A j \in Threads \ {i} : pc'[j] \notin {"advance", "discount", "delete"}
    BY <1>b, <1>d, <2>0, Zenon DEF PopPositions, PopRead
  <2>2. res[i] \in 1..MaxItems
    <3>1. first + 1 \in (first + 1)..last
      BY <1>2
    <3> QED BY <1>1, <2>0, <3>1, Zenon DEF InOrder
  <2>3. \A k \in (first' + 1)..last' : k \in (first + 1)..last /\ k # first + 1
    BY <1>2, SMTT(30)
  <2>4. \A k \in (first' + 1)..last' : pushed'[k] \in 1..MaxItems /\ data'[c[k]] = pushed'[k]
    BY <1>1, <2>0, <2>3, Zenon DEF InOrder
  <2> QED BY <1>1, <2>1, <2>2, <2>4, Zenon DEF InOrder
<1>7. \A j \in Threads : Owns(c, j)'
  <2> SUFFICES ASSUME NEW j \in Threads, pc'[j] \in Pushing PROVE Owns(c, j)'
    BY SMTT(30) DEF Owns
  <2>1. pc[j] \in Pushing /\ node'[j] = node[j] /\ Owns(c, j)
    BY <1>1, <1>b, ZenonT(30) DEF Pushing, Shape
  <2> QED BY <1>1, <1>c, <2>1, Zenon DEF Owns
<1>8. \A j \in Threads : PushLocal(c, j)'
  <2>1. PushLocal(c, i)'
    BY <1>1, Zenon DEF PushLocal, AtTail
  <2> SUFFICES ASSUME NEW j \in Threads \ {i} PROVE PushLocal(c, j)'
    BY <2>1
  <2>2. PushLocal(c, j)
    BY Zenon DEF Shape
  <2>3. CASE OneProducer
    <3>1. last' \in first'..last'
      BY <1>2
    <3> QED BY <1>1, <1>2, <1>a, <1>b, <1>c, <2>2, <2>3, <3>1, ZenonT(30) DEF PushLocal
  <2>4. CASE pc[j] \notin PushPositions
    BY <1>b, <2>4, Zenon DEF PushLocal, PushPositions, Pushing, AtTail
  <2> QED BY <1>e, <2>3, <2>4, ZenonT(30)
<1>9. \A j \in Threads : PopLocal(c, j)'
  <2>1. PopLocal(c, i)'
    <3>1. h[i] \in alive
      <4>1. first \in first..last
        BY <1>2
      <4> QED BY <1>c, <4>1, Zenon DEF Shape, Linked
    <3> QED BY <1>1, <1>f, <3>1, ZenonT(30) DEF PopLocal, PopRead
  <2> SUFFICES ASSUME NEW j \in Threads \ {i} PROVE PopLocal(c, j)'
    BY <2>1
  <2>2. PopLocal(c, j)
    BY SMTT(30) DEF Shape
  <2>3. CASE OneConsumer
    <3>1. pc'[j] \notin PopPositions
      BY <1>b, <1>d, <2>3, ZenonT(30)
    <3> QED BY <3>1, ZenonT(30) DEF PopLocal, PopPositions, PopRead
  <2>4. CASE ~OneConsumer
    BY <1>1, <1>2, <1>a, <1>b, <1>c, <2>2, <2>4, Zenon DEF PopLocal
  <2> QED BY <2>3, <2>4
<1> QED BY <1>3, <1>4, <1>5, <1>6, <1>7, <1>8, <1>9, Zenon DEF Shape

\* What is deleted is in nobody's way.
LEMMA DeleteShape ==
  ASSUME TypeInv, NEW c \in Places, Shape(c), NEW i \in Threads, Delete(i)
  PROVE  Shape(c)'
<1>0. Others(i) /\ usage' = usage
  BY OneThread, Zenon DEF TypeInv, pop
<1>1. /\ UNCHANGED <<next, data, head_, tail_, node, h, t, n, res, pushed, popped>>
      /\ pc[i] = "delete" /\ pc'[i] \in {"idle", "undefined"} /\ h[i] # Null
      /\ alive' = alive \ {h[i]}
  BY ZenonT(30) DEF Delete, victim, Deref, Goto, locals, past, TypeInv, Types, Callers, PopPositions
<1>2. first' = first /\ last' = last
  BY <1>1, SMTT(30) DEF first, last
<1>a. (OneProducer' <=> OneProducer) /\ (OneConsumer' <=> OneConsumer) /\ (Ordered' <=> Ordered)
  BY <1>0 DEF OneProducer, OneConsumer, Ordered
<1>b. \A j \in Threads \ {i} :
        /\ pc'[j] = pc[j] /\ node'[j] = node[j] /\ h'[j] = h[j]
        /\ t'[j] = t[j] /\ n'[j] = n[j] /\ res'[j] = res[j]
  BY <1>0 DEF Others
<1>c. \A k \in first..last : c[k] # h[i]
  BY <1>1, ZenonT(30) DEF Shape, PopLocal
<1>3. Linked(c)'
  BY <1>1, <1>2, <1>c, Zenon DEF Shape, Linked
<1>4. TailNear(c)'
  <2>1. \A j \in Threads : pc[j] = "swing" => pc'[j] = "swing" /\ t'[j] = t[j]
    BY <1>1, <1>b, ZenonT(30)
  <2> QED BY <1>1, <1>2, <2>1, ZenonT(30) DEF Shape, TailNear
<1>5. \A j \in Threads : /\ pc'[j] \in Pushing => pc[j] \in Pushing /\ node'[j] = node[j] /\ node[j] # h[i]
                         /\ pc'[j] \in {"discount", "delete"} =>
                              pc[j] \in {"discount", "delete"} /\ h'[j] = h[j] /\ res'[j] = res[j]
                         /\ pc'[j] = "advance" <=> pc[j] = "advance"
                         /\ pc'[j] = "advance" => res'[j] = res[j]
  BY <1>1, <1>b, Zenon DEF Pushing, Shape, Apart
<1>6. Apart'
  BY <1>5, ZenonT(30) DEF Shape, Apart
<1>7. InOrder(c)'
  BY <1>1, <1>2, <1>a, <1>5, Zenon DEF Shape, InOrder
<1>8. \A j \in Threads : Owns(c, j)'
  BY <1>1, <1>2, <1>5, ZenonT(30) DEF Shape, Owns
<1>9. \A j \in Threads : PushLocal(c, j)'
  <2>1. PushLocal(c, i)'
    BY <1>1, ZenonT(30) DEF PushLocal, AtTail
  <2> SUFFICES ASSUME NEW j \in Threads \ {i} PROVE PushLocal(c, j)'
    BY <2>1
  <2>2. PushLocal(c, j)
    BY DEF Shape
  <2> QED BY <1>1, <1>2, <1>a, <1>b, <2>2, ZenonT(30) DEF PushLocal
<1>10. \A j \in Threads : PopLocal(c, j)'
  <2>1. PopLocal(c, i)'
    BY <1>1, ZenonT(30) DEF PopLocal, PopRead
  <2> SUFFICES ASSUME NEW j \in Threads \ {i} PROVE PopLocal(c, j)'
    BY <2>1
  <2>2. PopLocal(c, j)
    BY DEF Shape
  <2>3. OneConsumer => pc[j] \notin {"discount", "delete"}
    BY <1>1, ZenonT(30) DEF TypeInv, Callers, PopPositions
  <2> QED BY <1>1, <1>2, <1>a, <1>b, <2>2, <2>3, Zenon DEF PopLocal
<1> QED BY <1>3, <1>4, <1>6, <1>7, <1>8, <1>9, <1>10 DEF Shape

-----------------------------------------------------------------------------
\* Every step keeps the shape, for the places as they are after it.
LEMMA StepShape ==
  ASSUME TypeInv, NEW c \in Places, Shape(c), NEW i \in Threads, push(i) \/ pop(i)
  PROVE  \E d \in Places : Shape(d)'
<1>1. CASE NewNode(i)
  BY <1>1, NewNodeShape
<1>2. CASE PushLoadTail(i) \/ PushLoadNext(i) \/ PushCheck(i) \/ Count(i)
  BY <1>2, PushReads, SMTT(30)
<1>3. CASE Link(i)
  <2>1. CASE /\ next_unchanged(i) /\ next' = [next EXCEPT ![t[i]] = node[i]]
             /\ pushed' = Append(pushed, data[node[i]]) /\ Deref(i, t[i], "swing")
    BY <1>3, <2>1, LinkShape, Zenon
  <2>2. CASE UNCHANGED <<next, pushed>> /\ Deref(i, t[i], "load_tail")
    BY <1>3, <2>2, PushReads, Zenon
  <2> QED BY <1>3, <2>1, <2>2, Zenon DEF Link
<1>4. CASE \/ SwingTail(i, "swing", node[i], "count")
           \/ SwingTail(i, "help", n[i], "load_tail")
           \/ SwingTail(i, "pop_help", n[i], "retry")
  BY <1>4, SwingsKeepShape
<1>5. CASE PopLoadHead(i) \/ PopLoadTail(i) \/ PopLoadNext(i) \/ PopCheck(i) \/ Discount(i)
  BY <1>5, PopReads
<1>6. CASE MoveOut(i)
  BY <1>6, MoveOutShape, Zenon
<1>7. CASE AdvanceHead(i)
  <2>1. CASE /\ head_ = h[i] /\ head_' = new_head(i)
             /\ popped' = Append(popped, res[i]) /\ Goto(i, "discount")
    BY <1>7, <2>1, AdvanceShape, Zenon
  <2>2. CASE (head_ # h[i] \/ fails_spuriously) /\ Goto(i, "retry") /\ UNCHANGED <<head_, popped>>
    <3>1. PopLocal(c, i) /\ pc[i] = "advance"
      BY <1>7, Zenon DEF Shape, AdvanceHead
    <3>2. ~Ordered
      BY <2>2, <3>1 DEF PopLocal, PopRead, OneConsumer, Ordered, fails_spuriously
    <3> QED BY <1>7, <2>2, <3>2, PopReads, Zenon
  <2> QED BY <1>7, <2>1, <2>2, Zenon DEF AdvanceHead
<1>8. CASE Delete(i)
  BY <1>8, DeleteShape
<1> QED BY <1>1, <1>2, <1>3, <1>4, <1>5, <1>6, <1>7, <1>8, Zenon DEF push, pop

-----------------------------------------------------------------------------
(* The types *)

\* A step inside a call keeps the callers apart.
LEMMA CallersKept ==
  ASSUME Callers, NEW i \in Threads, Others(i),
         usage' = usage, items' = items, node'[i] = node[i], h'[i] = h[i],
         pc'[i] \in PushPositions => pc[i] \in PushPositions,
         pc'[i] \in PopPositions => pc[i] \in PopPositions
  PROVE  Callers'
<1>1. \A j \in Threads :
        /\ node'[j] = node[j] /\ h'[j] = h[j]
        /\ pc'[j] \in PushPositions => pc[j] \in PushPositions
        /\ pc'[j] \in PopPositions => pc[j] \in PopPositions
  BY DEF Others
<1>2. (OneProducer' <=> OneProducer) /\ (OneConsumer' <=> OneConsumer)
  BY Zenon DEF OneProducer, OneConsumer, Ordered
<1>3. \A j \in Threads :
       /\ pc'[j] \in PushPositions => node'[j] # Null
       /\ pc'[j] \in PopPositions => h'[j] # Null
       /\ node'[j] # Null => j \in Producers
       /\ h'[j] # Null => j \in Consumers
  BY <1>1, Zenon DEF Callers
<1>4. OneProducer' => \A j, k \in Threads : node'[j] # Null /\ node'[k] # Null => j = k
  BY <1>1, <1>2, ZenonT(30) DEF Callers
<1>5. OneConsumer' => \A j, k \in Threads : h'[j] # Null /\ h'[k] # Null => j = k
  BY <1>1, <1>2, Zenon DEF Callers
<1>6. usage' \in {"producers_first", "consumers_race"} /\ (\E j \in Threads : h'[j] # Null) =>
        items' = MaxItems /\ \A k \in Threads : pc'[k] \notin PushPositions
  BY <1>1 DEF Callers
<1> QED BY <1>3, <1>4, <1>5, <1>6, Zenon DEF Callers, Threads

\* Moving tail_ keeps the types.
LEMMA TailTypes ==
  ASSUME TypeInv, NEW i \in Threads, Others(i), usage' = usage,
         UNCHANGED <<heap, head_, size_, locals, past>>,
         NEW to \in Nodes, tail_' \in {tail_, to}, pc' \in [Threads -> Positions],
         pc'[i] \in PushPositions => pc[i] \in PushPositions,
         pc'[i] \in PopPositions => pc[i] \in PopPositions,
         pc'[i] \in {"load_tail", "count", "retry"}
  PROVE  TypeInv'
<1>1. UNCHANGED <<next, data, alive, node, h, t, n, res, items, pushed, popped>>
  BY Zenon DEF heap, locals, past
<1>2. Types'
  BY <1>1, Zenon DEF TypeInv, Types
<1>3. Callers'
  BY <1>1, CallersKept, ZenonT(30) DEF TypeInv
<1>4. Pointers'
  BY <1>1, ZenonT(30) DEF TypeInv, Pointers, Others
<1> QED BY <1>2, <1>3, <1>4, Zenon DEF TypeInv

\* The steps of push keep the types.
LEMMA PushTypes ==
  ASSUME TypeInv, NEW i \in Producers, push(i)
  PROVE  TypeInv'
<1>0. i \in Threads /\ Others(i) /\ usage' = usage
  BY OneThread DEF TypeInv, Threads
<1>a. Null \notin Nodes /\ MaxItems \in Nat
  BY QueueAssumption
<1>1. CASE NewNode(i)
  <2>0. /\ items' = items + 1 /\ items' \in 0..MaxItems /\ items < MaxItems
        /\ OneProducer => \A j \in Producers : node[j] # Null => j = i
        /\ pc[i] = "idle"
    BY <1>a, <1>1 DEF TypeInv, Types, NewNode
  <2>1. PICK x \in Nodes \ alive :
          /\ alive' = alive \cup {x}
          /\ next' = [next EXCEPT ![x] = Null]
          /\ data' = [data EXCEPT ![x] = items']
          /\ node' = [node EXCEPT ![i] = x]
    BY <1>1, ZenonT(30) DEF NewNode
  <2>2. pc' = [pc EXCEPT ![i] = "load_tail"] /\ UNCHANGED <<head_, tail_, size_, h, t, n, res, usage, pushed, popped>>
    BY <1>1, Zenon DEF NewNode, Goto
  <2>3. Types'
    <3>1. next' \in [Nodes -> Cells] /\ data' \in [Nodes -> Nat] /\ alive' \subseteq Nodes
      BY <2>0, <2>1 DEF TypeInv, Types, Cells
    <3>2. node' \in [Threads -> Cells] /\ pc' \in [Threads -> Positions]
      BY <1>0, <2>1, <2>2, Zenon DEF TypeInv, Types, Cells, Positions, PushPositions, Pushing
    <3> QED BY <2>0, <2>2, <3>1, <3>2, Zenon DEF TypeInv, Types
  <2>4. Callers'
    <3>1. pc'[i] = "load_tail" /\ node'[i] \in Nodes
      BY <1>0, <2>1, <2>2, SMTT(30) DEF TypeInv, Types
    <3>2. \A j \in Threads : h[j] = h'[j] /\ (j # i => node'[j] = node[j] /\ pc'[j] = pc[j])
      BY <1>0, <2>2, Zenon DEF Others
    <3>3. (OneProducer' <=> OneProducer) /\ (OneConsumer' <=> OneConsumer)
      BY <1>0, SMTT(30) DEF OneProducer, OneConsumer, Ordered
    <3>4. \A j \in Threads :
           /\ pc'[j] \in PushPositions => node'[j] # Null
           /\ pc'[j] \in PopPositions => h'[j] # Null
           /\ node'[j] # Null => j \in Producers
           /\ h'[j] # Null => j \in Consumers
      BY <1>a, <3>1, <3>2, ZenonT(30) DEF TypeInv, Callers, PopPositions, PopRead
    <3>5. OneProducer' => \A j, k \in Threads : node'[j] # Null /\ node'[k] # Null => j = k
      BY <2>0, <3>2, <3>3, <3>4, ZenonT(30) DEF TypeInv, Callers
    <3>6. OneConsumer' => \A j, k \in Threads : h'[j] # Null /\ h'[k] # Null => j = k
      BY <3>2, <3>3, ZenonT(30) DEF TypeInv, Callers
    <3>7. usage \in {"producers_first", "consumers_race"} => \A j \in Threads : h'[j] = Null
      <4>1. items # MaxItems
        BY <1>a, <2>0, SMTT(30) DEF TypeInv, Types
      <4>2. usage \in {"producers_first", "consumers_race"} => \A j \in Threads : h[j] = Null
        BY <4>1, Zenon DEF TypeInv, Callers
      <4> QED BY <3>2, <4>2, Zenon
    <3> QED BY <1>0, <3>4, <3>5, <3>6, <3>7, Zenon DEF Callers
  <2>5. Pointers'
    BY <1>0, <2>2 DEF TypeInv, Types, Pointers, Others
  <2> QED BY <2>3, <2>4, <2>5, Zenon DEF TypeInv
<1>2. CASE PushLoadTail(i)
  <2>1. Types'
    BY <1>0, <1>2, Zenon DEF TypeInv, Types, PushLoadTail, Goto, heap, past, Cells, Positions, PushPositions, Pushing
  <2>2. pc[i] = "load_tail" /\ pc'[i] = "load_next" /\ t'[i] = tail_
        /\ UNCHANGED <<node, h, n, items>>
    BY <1>0, <1>2, ZenonT(30) DEF TypeInv, Types, PushLoadTail, Goto, past
  <2>3. Callers'
    BY <1>0, <2>2, CallersKept DEF TypeInv, PushPositions, Pushing, PopPositions, PopRead
  <2>4. Pointers'
    BY <1>0, <1>a, <2>2, ZenonT(30) DEF TypeInv, Types, Pointers, Others
  <2> QED BY <2>1, <2>3, <2>4, Zenon DEF TypeInv
<1>3. CASE PushLoadNext(i)
  <2>1. Types'
    BY <1>0, <1>3, Zenon DEF TypeInv, Types, Pointers, PushLoadNext, Deref, Goto, heap, past, Cells, Positions, PushPositions, Pushing
  <2>2. pc[i] = "load_next" /\ pc'[i] \in {"check", "undefined"} /\ UNCHANGED <<node, h, t, items>>
    BY <1>0, <1>3, ZenonT(30) DEF TypeInv, Types, PushLoadNext, Deref, Goto, past
  <2>3. Callers'
    BY <1>0, <2>2, CallersKept DEF TypeInv, PushPositions, Pushing, PopPositions, PopRead
  <2>4. Pointers'
    BY <1>0, <2>2, Zenon DEF TypeInv, Types, Pointers, Others
  <2> QED BY <2>1, <2>3, <2>4 DEF TypeInv
<1>4. CASE PushCheck(i)
  <2>1. Types'
    BY <1>0, <1>4, Zenon DEF TypeInv, Types, PushCheck, Goto, heap, past, locals, Positions, PushPositions, Pushing
  <2>2. /\ pc[i] = "check" /\ pc'[i] \in {"load_tail", "link", "help"}
        /\ pc'[i] = "help" => n[i] # Null
        /\ UNCHANGED <<node, h, t, n, items>>
    BY <1>0, <1>4, Zenon DEF TypeInv, Types, PushCheck, Goto, past, locals
  <2>3. Callers'
    BY <1>0, <2>2, CallersKept, SMTT(30) DEF TypeInv, PushPositions, Pushing, PopPositions, PopRead
  <2>4. Pointers'
    BY <1>0, <2>2, ZenonT(30) DEF TypeInv, Types, Pointers, Others
  <2> QED BY <2>1, <2>3, <2>4 DEF TypeInv
<1>5. CASE Link(i)
  <2>0. pc[i] = "link" /\ node[i] \in Nodes /\ t[i] \in Nodes
    BY <1>0, <1>5 DEF Link, TypeInv, Types, Pointers, Callers, PushPositions, Pushing, Cells
  <2>2. /\ pc'[i] \in {"load_tail", "swing", "undefined"}
        /\ UNCHANGED <<data, alive, head_, tail_, size_, node, h, t, n, res, items, popped>>
        /\ pc' \in [Threads -> Positions]
    BY <1>0, <1>5, Zenon DEF TypeInv, Types, Link, Deref, Goto, locals, Positions, PushPositions, Pushing
  <2>1. Types'
    <3>1. next' \in [Nodes -> Cells] /\ pushed' \in Seq(Nat)
      <4>1. data[node[i]] \in Nat
        BY <2>0, Zenon DEF TypeInv, Types
      <4>2. CASE UNCHANGED <<next, pushed>>
        BY <4>2, Zenon DEF TypeInv, Types
      <4>3. CASE next' = [next EXCEPT ![t[i]] = node[i]] /\ pushed' = Append(pushed, data[node[i]])
        BY <2>0, <4>1, <4>3, SMTT(30) DEF TypeInv, Types, Cells
      <4> QED BY <1>5, <4>2, <4>3, Zenon DEF Link
    <3> QED BY <1>0, <2>2, <3>1, Zenon DEF TypeInv, Types
  <2>3. Callers'
    BY <1>0, <2>0, <2>2, CallersKept, Zenon DEF TypeInv, PushPositions, Pushing, PopPositions, PopRead
  <2>4. Pointers'
    BY <1>0, <2>0, <2>2, Zenon DEF TypeInv, Types, Pointers, Others
  <2> QED BY <2>1, <2>3, <2>4 DEF TypeInv
<1>6. CASE SwingTail(i, "swing", node[i], "count")
  <2>1. pc[i] = "swing" /\ pc'[i] = "count" /\ UNCHANGED <<heap, head_, size_, locals, past>>
        /\ tail_' \in {tail_, node[i]} /\ pc' \in [Threads -> Positions]
    BY <1>0, <1>6, Zenon DEF TypeInv, Types, SwingTail, Goto, Positions, PushPositions
  <2>2. node[i] \in Nodes
    BY <1>0, <2>1, ZenonT(30) DEF TypeInv, Types, Callers, PushPositions, Cells
  <2> QED BY <1>0, <2>1, <2>2, TailTypes, Zenon DEF PushPositions, PopPositions, PopRead, Pushing
<1>7. CASE SwingTail(i, "help", n[i], "load_tail")
  <2>1. pc[i] = "help" /\ pc'[i] = "load_tail" /\ UNCHANGED <<heap, head_, size_, locals, past>>
        /\ tail_' \in {tail_, n[i]} /\ pc' \in [Threads -> Positions]
    BY <1>0, <1>7, Zenon DEF TypeInv, Types, SwingTail, Goto, Positions, PushPositions, Pushing
  <2>2. n[i] \in Nodes
    BY <1>0, <2>1, Zenon DEF TypeInv, Types, Pointers, Cells
  <2> QED BY <1>0, <2>1, <2>2, TailTypes, Zenon DEF PushPositions, PopPositions, PopRead, Pushing
<1>8. CASE Count(i)
  <2>1. Types'
    <3>1. W \in Nat /\ W > 0
      <4>1. W \in Nat /\ MaxItems < W
        BY QueueAssumption, Zenon
      <4> QED BY <1>a, <4>1
    <3>2. size_' \in Nat
      BY <1>8, <3>1, SMTT(30) DEF TypeInv, Types, Count
    <3> QED BY <1>0, <1>8, <3>2, Zenon DEF TypeInv, Types, Count, Goto, heap, locals, past, Positions
  <2>2. pc[i] = "count" /\ pc'[i] = "idle" /\ UNCHANGED <<node, h, t, n, items>>
    BY <1>0, <1>8, SMTT(30) DEF TypeInv, Types, Count, Goto, past, locals
  <2>3. Callers'
    BY <1>0, <2>2, CallersKept, ZenonT(30) DEF TypeInv, PushPositions, Pushing, PopPositions, PopRead
  <2>4. Pointers'
    BY <1>0, <2>2 DEF TypeInv, Types, Pointers, Others
  <2> QED BY <2>1, <2>3, <2>4 DEF TypeInv
<1> QED BY <1>1, <1>2, <1>3, <1>4, <1>5, <1>6, <1>7, <1>8 DEF push

\* The steps of pop keep the types.
LEMMA PopTypes ==
  ASSUME TypeInv, NEW i \in Consumers, pop(i)
  PROVE  TypeInv'
<1>0. i \in Threads /\ Others(i) /\ usage' = usage
  BY OneThread DEF TypeInv, Threads
<1>a. Null \notin Nodes
  BY QueueAssumption, Zenon
<1>1. CASE PopLoadHead(i)
  <2>1. /\ h' = [h EXCEPT ![i] = head_] /\ pc' = [pc EXCEPT ![i] = "pop_tail"]
        /\ UNCHANGED <<next, data, alive, head_, tail_, size_, node, t, n, res, usage, items, pushed, popped>>
        /\ pc[i] \in {"idle", "retry"}
        /\ usage \in {"producers_first", "consumers_race"} => ProducersDone
        /\ OneConsumer => \A j \in Consumers : h[j] # Null => j = i
    BY <1>1, Zenon DEF PopLoadHead, Goto, heap, past
  <2>2. Types'
    BY <1>0, <2>1, Zenon DEF TypeInv, Types, Cells, Positions, PopPositions, PopRead
  <2>3. Callers'
    <3>1. pc'[i] = "pop_tail" /\ h'[i] \in Nodes /\ \A j \in Threads : node'[j] = node[j]
      BY <1>0, <2>1, Zenon DEF TypeInv, Types
    <3>2. \A j \in Threads \ {i} : h'[j] = h[j] /\ pc'[j] = pc[j]
      BY <1>0 DEF Others
    <3>3. (OneProducer' <=> OneProducer) /\ (OneConsumer' <=> OneConsumer)
      BY <1>0, SMTT(30) DEF OneProducer, OneConsumer, Ordered
    <3>4. \A j \in Threads :
           /\ pc'[j] \in PushPositions => node'[j] # Null
           /\ pc'[j] \in PopPositions => h'[j] # Null
           /\ node'[j] # Null => j \in Producers
           /\ h'[j] # Null => j \in Consumers
      BY <1>a, <3>1, <3>2, ZenonT(30) DEF TypeInv, Callers, PushPositions, Pushing
    <3>5. OneProducer' => \A j, k \in Threads : node'[j] # Null /\ node'[k] # Null => j = k
      BY <3>1, <3>3, ZenonT(30) DEF TypeInv, Callers
    <3>6. OneConsumer' => \A j, k \in Threads : h'[j] # Null /\ h'[k] # Null => j = k
      BY <2>1, <3>2, <3>3, <3>4, SMTT(30) DEF TypeInv, Callers
    <3>7. usage \in {"producers_first", "consumers_race"} =>
            items' = MaxItems /\ \A j \in Threads : pc'[j] \notin PushPositions
      <4> SUFFICES ASSUME usage \in {"producers_first", "consumers_race"}, NEW j \in Threads
                   PROVE  items' = MaxItems /\ pc'[j] \notin PushPositions
        BY <2>1, Zenon DEF ProducersDone
      <4>1. items = MaxItems /\ \A k \in Producers : pc[k] = "idle"
        BY <2>1, Zenon DEF ProducersDone
      <4>2. pc[j] \notin PushPositions
        BY <4>1, Zenon DEF TypeInv, Callers, PushPositions, Pushing
      <4>3. j = i => pc'[j] \notin PushPositions
        BY <3>1, Zenon DEF PushPositions, Pushing
      <4> QED BY <2>1, <3>2, <4>1, <4>2, <4>3, Zenon
    <3> QED BY <1>0, <3>4, <3>5, <3>6, <3>7, ZenonT(30) DEF Callers
  <2>4. Pointers'
    BY <1>0, <2>1, Zenon DEF TypeInv, Types, Pointers, Others
  <2> QED BY <2>2, <2>3, <2>4 DEF TypeInv
<1>2. CASE PopLoadTail(i)
  <2>1. Types'
    BY <1>0, <1>2, Zenon DEF TypeInv, Types, PopLoadTail, Goto, heap, past, Cells, Positions, PopPositions, PopRead
  <2>2. pc[i] = "pop_tail" /\ pc'[i] = "pop_next" /\ UNCHANGED <<node, h, n, items>>
    BY <1>0, <1>2, SMTT(30) DEF TypeInv, Types, PopLoadTail, Goto, past
  <2>3. Callers'
    BY <1>0, <2>2, CallersKept, ZenonT(30) DEF TypeInv, PushPositions, Pushing, PopPositions, PopRead
  <2>4. Pointers'
    BY <1>0, <2>2, Zenon DEF TypeInv, Types, Pointers, Others
  <2> QED BY <2>1, <2>3, <2>4 DEF TypeInv
<1>3. CASE PopLoadNext(i)
  <2>0. pc[i] = "pop_next" /\ h[i] \in Nodes
    BY <1>0, <1>3, Zenon DEF TypeInv, Types, Callers, PopLoadNext, Cells, PopPositions, PopRead
  <2>1. Types'
    BY <1>0, <1>3, <2>0, Zenon DEF TypeInv, Types, PopLoadNext, Deref, Goto, heap, past, Cells, Positions, PopPositions, PopRead
  <2>2. pc'[i] \in {"pop_check", "undefined"} /\ UNCHANGED <<node, h, t, items>>
    BY <1>0, <1>3, Zenon DEF TypeInv, Types, PopLoadNext, Deref, Goto, past
  <2>3. Callers'
    BY <1>0, <2>0, <2>2, CallersKept DEF TypeInv, PushPositions, Pushing, PopPositions, PopRead
  <2>4. Pointers'
    BY <1>0, <2>2, ZenonT(30) DEF TypeInv, Types, Pointers, Others
  <2> QED BY <2>1, <2>3, <2>4 DEF TypeInv
<1>4. CASE PopCheck(i)
  <2>1. /\ pc[i] = "pop_check" /\ pc'[i] \in {"retry", "idle", "pop_help", "move"}
        /\ pc'[i] \in {"pop_help", "move"} => n[i] # Null
        /\ UNCHANGED <<heap, head_, tail_, size_, locals, past>>
    BY <1>0, <1>4, Zenon DEF TypeInv, Types, PopCheck, after_check, Goto
  <2>2. Types'
    BY <1>0, <1>4, <2>1, Zenon DEF TypeInv, Types, PopCheck, Goto, heap, locals, past, Positions, PopPositions, PopRead
  <2>3. UNCHANGED <<node, h, t, n, items>>
    BY <2>1, ZenonT(30) DEF locals, past
  <2>4. Callers'
    BY <1>0, <2>1, <2>3, CallersKept, ZenonT(30) DEF TypeInv, PushPositions, Pushing, PopPositions, PopRead
  <2>5. Pointers'
    BY <1>0, <2>1, <2>3, ZenonT(30) DEF TypeInv, Types, Pointers, Others
  <2> QED BY <2>2, <2>4, <2>5 DEF TypeInv
<1>5. CASE SwingTail(i, "pop_help", n[i], "retry")
  <2>1. pc[i] = "pop_help" /\ pc'[i] = "retry" /\ UNCHANGED <<heap, head_, size_, locals, past>>
        /\ tail_' \in {tail_, n[i]} /\ pc' \in [Threads -> Positions]
    BY <1>0, <1>5, Zenon DEF TypeInv, Types, SwingTail, Goto, Positions, PopPositions
  <2>2. n[i] \in Nodes
    BY <1>0, <2>1, Zenon DEF TypeInv, Types, Pointers, Cells
  <2> QED BY <1>0, <2>1, <2>2, TailTypes, ZenonT(30) DEF PushPositions, PopPositions, PopRead, Pushing
<1>6. CASE MoveOut(i)
  <2>0. pc[i] = "move" /\ n[i] \in Nodes
    BY <1>0, <1>6, Zenon DEF TypeInv, Types, Pointers, MoveOut, Cells
  <2>1. Types'
    BY <1>0, <1>6, <2>0, Zenon DEF TypeInv, Types, MoveOut, Deref, Goto, past, Moved, Positions, PopPositions, PopRead
  <2>2. pc'[i] \in {"advance", "undefined"} /\ UNCHANGED <<node, h, t, n, items>>
    BY <1>0, <1>6, SMTT(30) DEF TypeInv, Types, MoveOut, Deref, Goto, past
  <2>3. Callers'
    BY <1>0, <2>0, <2>2, CallersKept, ZenonT(30) DEF TypeInv, PushPositions, Pushing, PopPositions, PopRead
  <2>4. Pointers'
    BY <1>0, <2>0, <2>2, ZenonT(30) DEF TypeInv, Types, Pointers, Others
  <2> QED BY <2>1, <2>3, <2>4 DEF TypeInv
<1>7. CASE AdvanceHead(i)
  <2>0. pc[i] = "advance" /\ n[i] \in Nodes /\ res[i] \in Nat
    BY <1>0, <1>7 DEF TypeInv, Types, Pointers, AdvanceHead, Cells
  <2>1. /\ pc'[i] \in {"discount", "retry"} /\ UNCHANGED <<heap, tail_, size_, locals, usage, items, pushed>>
        /\ pc' \in [Threads -> Positions]
    BY <1>0, <1>7, ZenonT(30) DEF TypeInv, Types, AdvanceHead, Goto, Positions, PopPositions
  <2>2. head_' \in Nodes /\ popped' \in Seq(Nat)
    <3>1. CASE UNCHANGED <<head_, popped>>
      BY <3>1, Zenon DEF TypeInv, Types
    <3>2. CASE head_' = n[i] /\ popped' = Append(popped, res[i])
      BY <2>0, <3>2, SMTT(30) DEF TypeInv, Types
    <3> QED BY <1>7, <3>1, <3>2, Zenon DEF AdvanceHead, new_head
  <2>3. Types' /\ UNCHANGED <<node, h, t, n, items>>
    BY <2>1, <2>2, Zenon DEF TypeInv, Types, heap, locals
  <2>4. Callers'
    BY <1>0, <2>0, <2>1, <2>3, CallersKept, Zenon DEF TypeInv, PushPositions, Pushing, PopPositions, PopRead
  <2>5. Pointers'
    BY <1>0, <2>1, <2>3, Zenon DEF TypeInv, Types, Pointers, Others
  <2> QED BY <2>3, <2>4, <2>5, Zenon DEF TypeInv
<1>8. CASE Discount(i)
  <2>1. Types'
    <3>1. W \in Nat /\ W > 0
      <4>1. W \in Nat /\ MaxItems \in Nat /\ MaxItems < W
        BY QueueAssumption, Zenon
      <4> QED BY <4>1
    <3>2. size_' \in Nat
      BY <1>8, <3>1 DEF TypeInv, Types, Discount, decremented
    <3> QED BY <1>0, <1>8, <3>2 DEF TypeInv, Types, Discount, Goto, heap, locals, past, Positions, PopPositions
  <2>2. pc[i] = "discount" /\ pc'[i] = "delete" /\ UNCHANGED <<node, h, t, n, items>>
    BY <1>0, <1>8, SMTT(30) DEF TypeInv, Types, Discount, Goto, past, locals
  <2>3. Callers'
    BY <1>0, <2>2, CallersKept, ZenonT(30) DEF TypeInv, PushPositions, Pushing, PopPositions, PopRead
  <2>4. Pointers'
    BY <1>0, <2>2, Zenon DEF TypeInv, Types, Pointers, Others
  <2> QED BY <2>1, <2>3, <2>4 DEF TypeInv
<1>9. CASE Delete(i)
  <2>1. Types'
    BY <1>0, <1>9, Zenon DEF TypeInv, Types, Delete, Deref, Goto, locals, past, Positions
  <2>2. pc[i] = "delete" /\ pc'[i] \in {"idle", "undefined"} /\ UNCHANGED <<node, h, t, n, items>>
    BY <1>0, <1>9, SMTT(30) DEF TypeInv, Types, Delete, Deref, Goto, past, locals
  <2>3. Callers'
    BY <1>0, <2>2, CallersKept, ZenonT(30) DEF TypeInv, PushPositions, Pushing, PopPositions, PopRead
  <2>4. Pointers'
    BY <1>0, <2>2, Zenon DEF TypeInv, Types, Pointers, Others
  <2> QED BY <2>1, <2>3, <2>4 DEF TypeInv
<1> QED BY <1>1, <1>2, <1>3, <1>4, <1>5, <1>6, <1>7, <1>8, <1>9, Zenon DEF pop
=============================================================================
