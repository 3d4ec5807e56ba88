---------------------------- MODULE LockFreeQueue ----------------------------
(***************************************************************************)
(* include/utils/LockFreeQueue.hpp: a linked queue with a dummy node, one  *)
(* step per atomic operation (they are sequentially consistent by          *)
(* default).  pop() moves the item out BEFORE its compare-and-swap of      *)
(* head_, deletes the old dummy at once, and the size is counted after the *)
(* fact.  A node is a cell of Nodes that new may hand out again once it    *)
(* was deleted; a thread that follows a pointer to a deleted cell is in    *)
(* undefined behaviour and the model stops there.                          *)
(***************************************************************************)
EXTENDS Integers, Sequences, FiniteSets

CONSTANTS
  Producers, Consumers,   \* threads calling push, threads calling pop
  Nodes, Null,            \* memory cells, the null pointer
  W,                      \* 2^64, the range of size_t
  MaxItems,               \* bound: calls of push
  Usages                  \* the ways the threads share the queue, see usage

ASSUME QueueAssumption ==
  /\ IsFiniteSet(Producers) /\ IsFiniteSet(Consumers)
  /\ Null \notin Nodes /\ Nodes # {}
  /\ {W, MaxItems} \subseteq Nat /\ MaxItems < W
  /\ Usages \subseteq {"single_producer", "producers_first", "consumers_race", "weak"}

VARIABLES
  next, data, alive,      \* the heap: Node::next, Node::data, allocated cells
  head_, tail_, size_,    \* the three atomics
  pc, node, h, t, n, res, \* each thread's position and locals
  usage,                  \* how the threads share the queue
  items, pushed, popped   \* history: items created, linked and returned, in order

vars == <<next, data, alive, head_, tail_, size_, pc, node, h, t, n, res,
          usage, items, pushed, popped>>
heap == <<next, data, alive>>
locals == <<node, h, t, n, res>>
past == <<usage, items, pushed, popped>>

Threads == Producers \cup Consumers

\* One consumer, with one producer beside it or after all of the producers; or
\* several consumers after the producers.  "weak" is one of each, on a machine
\* whose compare_exchange_weak fails now and then for no reason (ARM).
Ordered == usage \in {"single_producer", "producers_first"}
OneConsumer == Ordered \/ usage = "weak"
OneProducer == usage \in {"single_producer", "weak"}
fails_spuriously == usage = "weak"
ProducersDone == items = MaxItems /\ \A j \in Producers : pc[j] = "idle"
Moved == 0  \* what is left of an item that was moved from

Init ==
  \E dummy \in Nodes :
    /\ next = [x \in Nodes |-> Null]
    /\ data = [x \in Nodes |-> Moved]
    /\ alive = {dummy}
    /\ head_ = dummy /\ tail_ = dummy /\ size_ = 0
    /\ pc = [i \in Threads |-> "idle"]
    /\ node = [i \in Threads |-> Null]
    /\ h = node /\ t = node /\ n = node
    /\ res = [i \in Threads |-> Moved]
    /\ usage \in Usages
    /\ items = 0 /\ pushed = <<>> /\ popped = <<>>

Goto(i, l) == pc' = [pc EXCEPT ![i] = l]

\* Following pointer p: undefined when its node was deleted.
Deref(i, p, l) == Goto(i, IF p \in alive THEN l ELSE "undefined")

-----------------------------------------------------------------------------
(* push *)

NewNode(i) ==
  /\ pc[i] = "idle" /\ items < MaxItems
  /\ OneProducer => \A j \in Producers : node[j] # Null => j = i
  /\ items' = items + 1
  /\ \E x \in Nodes \ alive :
       /\ alive' = alive \cup {x}
       /\ next' = [next EXCEPT ![x] = Null]
       /\ data' = [data EXCEPT ![x] = items']
       /\ node' = [node EXCEPT ![i] = x]
  /\ Goto(i, "load_tail")
  /\ UNCHANGED <<head_, tail_, size_, h, t, n, res, usage, pushed, popped>>

PushLoadTail(i) ==
  /\ pc[i] = "load_tail"
  /\ t' = [t EXCEPT ![i] = tail_]
  /\ Goto(i, "load_next")
  /\ UNCHANGED <<heap, head_, tail_, size_, node, h, n, res, past>>

PushLoadNext(i) ==
  /\ pc[i] = "load_next"
  /\ n' = [n EXCEPT ![i] = next[t[i]]]
  /\ Deref(i, t[i], "check")
  /\ UNCHANGED <<heap, head_, tail_, size_, node, h, t, res, past>>

PushCheck(i) ==
  /\ pc[i] = "check"
  /\ Goto(i, IF t[i] # tail_ THEN "load_tail" ELSE IF n[i] = Null THEN "link" ELSE "help")
  /\ UNCHANGED <<heap, head_, tail_, size_, locals, past>>

next_unchanged(i) == next[t[i]] = n[i]

\* tail->next.compare_exchange_weak(next, new_node_ptr)
Link(i) ==
  /\ pc[i] = "link"
  /\ \/ /\ next_unchanged(i)
        /\ next' = [next EXCEPT ![t[i]] = node[i]]
        /\ pushed' = Append(pushed, data[node[i]])
        /\ Deref(i, t[i], "swing")
     \/ /\ ~next_unchanged(i) \/ fails_spuriously
        /\ Deref(i, t[i], "load_tail")
        /\ UNCHANGED <<next, pushed>>
  /\ UNCHANGED <<data, alive, head_, tail_, size_, locals, usage, items, popped>>

\* tail_.compare_exchange_strong(tail, to)
SwingTail(i, from, to, l) ==
  /\ pc[i] = from
  /\ tail_' = IF tail_ = t[i] THEN to ELSE tail_
  /\ Goto(i, l)
  /\ UNCHANGED <<heap, head_, size_, locals, past>>

Count(i) ==
  /\ pc[i] = "count"
  /\ size_' = (size_ + 1) % W
  /\ Goto(i, "idle")
  /\ UNCHANGED <<heap, head_, tail_, locals, past>>

push(i) ==
  \/ NewNode(i) \/ PushLoadTail(i) \/ PushLoadNext(i) \/ PushCheck(i) \/ Link(i)
  \/ SwingTail(i, "swing", node[i], "count")
  \/ SwingTail(i, "help", n[i], "load_tail")
  \/ Count(i)

-----------------------------------------------------------------------------
(* pop *)

PopLoadHead(i) ==
  /\ pc[i] \in {"idle", "retry"}
  /\ usage \in {"producers_first", "consumers_race"} => ProducersDone
  /\ OneConsumer => \A j \in Consumers : h[j] # Null => j = i
  /\ h' = [h EXCEPT ![i] = head_]
  /\ Goto(i, "pop_tail")
  /\ UNCHANGED <<heap, head_, tail_, size_, node, t, n, res, past>>

PopLoadTail(i) ==
  /\ pc[i] = "pop_tail"
  /\ t' = [t EXCEPT ![i] = tail_]
  /\ Goto(i, "pop_next")
  /\ UNCHANGED <<heap, head_, tail_, size_, node, h, n, res, past>>

PopLoadNext(i) ==
  /\ pc[i] = "pop_next"
  /\ n' = [n EXCEPT ![i] = next[h[i]]]
  /\ Deref(i, h[i], "pop_check")
  /\ UNCHANGED <<heap, head_, tail_, size_, node, h, t, res, past>>

\* Mutant: the test of next is inverted.
inverted_test(i) ==
  IF h[i] = t[i] THEN IF n[i] = Null THEN "idle" ELSE "pop_help"
                 ELSE IF n[i] = Null THEN "move" ELSE "retry"

\* "idle" is the return of nullopt.
after_check(i) ==
  IF h[i] = t[i] THEN IF n[i] = Null THEN "idle" ELSE "pop_help"
                 ELSE IF n[i] = Null THEN "retry" ELSE "move"

PopCheck(i) ==
  /\ pc[i] = "pop_check"
  /\ Goto(i, IF h[i] # head_ THEN "retry" ELSE after_check(i))
  /\ UNCHANGED <<heap, head_, tail_, size_, locals, past>>

\* auto result = std::move(*next->data)
MoveOut(i) ==
  /\ pc[i] = "move"
  /\ res' = [res EXCEPT ![i] = data[n[i]]]
  /\ data' = [data EXCEPT ![n[i]] = Moved]
  /\ Deref(i, n[i], "advance")
  /\ UNCHANGED <<next, alive, head_, tail_, size_, node, h, t, n, past>>

\* Mutant: head_ jumps to the tail.
head_to_tail(i) == t[i]

new_head(i) == n[i]

\* head_.compare_exchange_weak(head, next); on failure the result is dropped.
AdvanceHead(i) ==
  /\ pc[i] = "advance"
  /\ \/ /\ head_ = h[i]
        /\ head_' = new_head(i)
        /\ popped' = Append(popped, res[i])
        /\ Goto(i, "discount")
     \/ /\ head_ # h[i] \/ fails_spuriously
        /\ Goto(i, "retry")
        /\ UNCHANGED <<head_, popped>>
  /\ UNCHANGED <<heap, tail_, size_, locals, usage, items, pushed>>

\* Mutant: a decrement that stops at zero.
saturating == IF size_ = 0 THEN 0 ELSE size_ - 1

decremented == (size_ + W - 1) % W

Discount(i) ==
  /\ pc[i] = "discount"
  /\ size_' = decremented
  /\ Goto(i, "delete")
  /\ UNCHANGED <<heap, head_, tail_, locals, past>>

\* Mutant: the new dummy is deleted instead of the old one.
delete_next(i) == n[i]

victim(i) == h[i]

Delete(i) ==
  /\ pc[i] = "delete"
  /\ alive' = alive \ {victim(i)}
  /\ Deref(i, victim(i), "idle")
  /\ UNCHANGED <<next, data, head_, tail_, size_, locals, past>>

pop(i) ==
  \/ PopLoadHead(i) \/ PopLoadTail(i) \/ PopLoadNext(i) \/ PopCheck(i)
  \/ SwingTail(i, "pop_help", n[i], "retry")
  \/ MoveOut(i) \/ AdvanceHead(i) \/ Discount(i) \/ Delete(i)

-----------------------------------------------------------------------------

Defined == \A i \in Threads : pc[i] # "undefined"

Next == /\ Defined
        /\ \/ \E i \in Producers : push(i)
           \/ \E i \in Consumers : pop(i)

Spec == Init /\ [][Next]_vars

\* Threads are preemptively scheduled, and a consumer polls for ever.
FairSpec ==
  /\ Spec
  /\ \A i \in Producers : WF_vars(Defined /\ push(i))
  /\ \A i \in Consumers : WF_vars(Defined /\ pop(i))

-----------------------------------------------------------------------------
(* Properties *)

\* No thread follows head_, tail_ or a next pointer into a deleted node, if
\* there is one consumer and no second producer beside it, also where the
\* compare-and-swaps fail spuriously.
NoUseAfterDelete == OneConsumer => Defined

AtRest == \A i \in Threads : pc[i] = "idle"

\* A push takes effect when its node is linked, a pop when it advances head_;
\* one that returns nullopt, when it reads the null next of the last node.
CallOf(i) ==
  CASE pc[i] = "idle" -> <<"idle">>
    [] pc[i] \in {"swing", "count"} -> <<"pushed">>
    [] pc[i] \in {"load_tail", "load_next", "check", "link", "help"} -> <<"pushing", data[node[i]]>>
    [] pc[i] \in {"discount", "delete"} -> <<"popped", res[i]>>
    [] pc[i] = "pop_check" /\ h[i] = t[i] /\ n[i] = Null -> <<"empty">>
    [] OTHER -> <<"popping">>

\* Where several consumers race, or one fails to claim an item that it has moved
\* out, nothing is promised and nothing is compared.
Abstract == INSTANCE FifoQueue WITH
  Items <- 1 .. MaxItems,
  queue <- IF Ordered THEN SubSeq(pushed, Len(popped) + 1, Len(pushed)) ELSE <<>>,
  call <- [i \in Threads |-> IF Ordered THEN CallOf(i) ELSE <<"idle">>]

\* With one consumer, and one producer beside it or several before it, the
\* linked nodes implement a linearizable first-in first-out queue: pop returns
\* each pushed item once, whole and in order, and nullopt only when there was
\* none.
ImplementsFifoQueue == Abstract!Spec

\* When no operation is running, size() is the number of items in the queue,
\* whatever order the late counter updates came in and however many consumers
\* raced for them.
SizeAtRest ==
  AtRest => size_ = Len(pushed) - Len(popped)

\* Every linked item is eventually popped by a single polling consumer.
AllDelivered ==
  \A k \in 1 .. MaxItems : (Ordered /\ Len(pushed) >= k) ~> (Len(popped) >= k)
=============================================================================
