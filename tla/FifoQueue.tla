----------------------------- MODULE FifoQueue -----------------------------
(***************************************************************************)
(* What a concurrent first-in first-out queue promises its callers: every  *)
(* push and every pop takes effect in one step between its call and its    *)
(* return (linearizability), and a pop that returns nothing found the      *)
(* queue empty at that step.                                               *)
(***************************************************************************)
EXTENDS Sequences

CONSTANTS
  Threads,
  Items

VARIABLES
  queue,   \* the items pushed and not yet popped, oldest first
  call     \* what each thread is doing: the call, or what it will return

Idle == <<"idle">>
Returning == {<<"pushed">>, <<"empty">>} \cup {<<"popped", x>> : x \in Items}

Init == queue = <<>> /\ call = [i \in Threads |-> Idle]

Become(i, from, to) == call[i] = from /\ call' = [call EXCEPT ![i] = to]

Begin(i) ==
  /\ Become(i, Idle, <<"popping">>) \/ \E x \in Items : Become(i, Idle, <<"pushing", x>>)
  /\ UNCHANGED queue

Push(i) ==
  \E x \in Items : Become(i, <<"pushing", x>>, <<"pushed">>) /\ queue' = Append(queue, x)

Pop(i) ==
  /\ queue # <<>>
  /\ Become(i, <<"popping">>, <<"popped", Head(queue)>>)
  /\ queue' = Tail(queue)

PopNothing(i) ==
  /\ queue = <<>>
  /\ Become(i, <<"popping">>, <<"empty">>)
  /\ UNCHANGED queue

Return(i) == call[i] \in Returning /\ Become(i, call[i], Idle) /\ UNCHANGED queue

Next == \E i \in Threads : Begin(i) \/ Push(i) \/ Pop(i) \/ PopNothing(i) \/ Return(i)

Spec == Init /\ [][Next]_<<queue, call>>
=============================================================================
