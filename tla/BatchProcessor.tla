--------------------------- MODULE BatchProcessor ---------------------------
(***************************************************************************)
(* src/rollup/BatchProcessor.cpp over the state manager it is given: its   *)
(* workers are clients of StateManager, beside any others, that take       *)
(* batches and call apply_transaction for each transaction.                *)
(*                                                                         *)
(* No worker catches what apply_transaction throws, so a worker's call     *)
(* that throws is std::terminate.  should_stop_ is a plain bool written    *)
(* without mutex_; the compiler cannot keep it in a register across the    *)
(* locking of a mutex, so every loop reads it again.                       *)
(***************************************************************************)
EXTENDS StateManager

CONSTANTS
  Workers,           \* worker_threads_
  min_batch_size, max_batch_size,
  MaxSubmits         \* bound: calls of submit_transaction

ASSUME BatchAssumption ==
  /\ Workers \subseteq Clients /\ Workers # {}
  /\ min_batch_size \in Nat /\ max_batch_size \in Nat \ {0} /\ MaxSubmits \in Nat

VARIABLES
  pending_transactions, should_stop,
  at,         \* each worker's position in process_batches
  batch,      \* what is left of its batch
  owner,      \* where the owner of the processor is in stop and the destructor
  submits     \* calls of submit_transaction

queue == <<pending_transactions, should_stop>>
processor == <<queue, at, batch, owner, submits>>

BatchInit ==
  /\ Init
  /\ pending_transactions = <<>> /\ should_stop = FALSE
  /\ at = [w \in Workers |-> "loop"]
  /\ batch = [w \in Workers |-> <<>>]
  /\ owner = "live" /\ submits = 0

\* mutex_ is held from one step to the next only between the predicate of
\* wait_for and the wait.
mutex_free == \A w \in Workers : at[w] # "unlock"

Goto(w, l) == at' = [at EXCEPT ![w] = l]

-----------------------------------------------------------------------------
(* The users and the owner *)

\* Called by any thread while the processor lives, also between the two steps
\* of stop. notify_one wakes one of the workers that wait, if there are any.
submit_transaction(tx) ==
  /\ owner \in {"live", "stopping", "stopped"} /\ submits < MaxSubmits /\ mutex_free
  /\ submits' = submits + 1
  /\ pending_transactions' = Append(pending_transactions, tx)
  /\ \/ \E w \in Workers : at[w] = "wait" /\ Goto(w, "lock")
     \/ (\A w \in Workers : at[w] # "wait") /\ UNCHANGED at
  /\ UNCHANGED <<vars, should_stop, batch, owner>>

\* stop, called by the owner or by the destructor: the flag, then notify_all.
SetStop ==
  /\ \/ owner = "live" /\ owner' = "stopping"
     \/ owner \in {"live", "stopped"} /\ owner' = "destroying"
  /\ should_stop' = TRUE
  /\ UNCHANGED <<vars, pending_transactions, at, batch, submits>>

NotifyAll ==
  /\ \/ owner = "stopping" /\ owner' = "stopped"
     \/ owner = "destroying" /\ owner' = "join"
  /\ at' = [w \in Workers |-> IF at[w] = "wait" THEN "lock" ELSE at[w]]
  /\ UNCHANGED <<vars, queue, batch, submits>>

Join ==
  /\ owner = "join" /\ \A w \in Workers : at[w] = "exit"
  /\ owner' = "destroyed"
  /\ UNCHANGED <<vars, queue, at, batch, submits>>

-----------------------------------------------------------------------------
(* The workers: process_batches, process_batch and create_batch *)

LoopTest(w) ==
  /\ at[w] = "loop"
  /\ Goto(w, IF should_stop THEN "exit" ELSE "lock")
  /\ UNCHANGED <<vars, queue, batch, owner, submits>>

predicate == Len(pending_transactions) >= min_batch_size \/ should_stop

\* Mutant: a batch that is not full is put off.
full_batches_only ==
  ~should_stop /\ Len(pending_transactions) >= min_batch_size /\ pending_transactions # <<>>

something_to_do == ~should_stop /\ pending_transactions # <<>>

\* The end of create_batch: an empty batch sends the worker round the loop.
TakeBatch(w) ==
  LET k == IF Len(pending_transactions) < max_batch_size
             THEN Len(pending_transactions) ELSE max_batch_size IN
  /\ \/ /\ something_to_do
        /\ batch' = [batch EXCEPT ![w] = SubSeq(pending_transactions, 1, k)]
        /\ pending_transactions' = SubSeq(pending_transactions, k + 1, Len(pending_transactions))
        /\ Goto(w, "apply")
     \/ ~something_to_do /\ Goto(w, "loop") /\ UNCHANGED <<batch, pending_transactions>>
  /\ UNCHANGED <<vars, should_stop, owner, submits>>

\* wait_for, entered or woken: the predicate is tested under mutex_.
TestPredicate(w) ==
  /\ at[w] = "lock" /\ mutex_free
  /\ \/ predicate /\ TakeBatch(w)
     \/ ~predicate /\ Goto(w, "unlock") /\ UNCHANGED <<vars, queue, batch, owner, submits>>

Wait(w) ==
  /\ at[w] = "unlock"
  /\ Goto(w, "wait")
  /\ UNCHANGED <<vars, queue, batch, owner, submits>>

\* Mutant: a wait without a timeout.
never == FALSE

max_wait_time_over == TRUE

TimeOut(w) ==
  /\ at[w] = "wait" /\ max_wait_time_over
  /\ Goto(w, "timed_out")
  /\ UNCHANGED <<vars, queue, batch, owner, submits>>

TakeLate(w) == at[w] = "timed_out" /\ mutex_free /\ TakeBatch(w)

\* The next transaction of the batch, or the end of process_batch.
ApplyNext(w) ==
  /\ at[w] = "apply" /\ pc[w] = "idle"
  /\ \/ /\ batch[w] # <<>>
        /\ op' = [op EXCEPT ![w] = [name |-> "apply_transaction", tx |-> Head(batch[w])]]
        /\ pc' = [pc EXCEPT ![w] = "enter"]
        /\ batch' = [batch EXCEPT ![w] = Tail(@)]
        /\ UNCHANGED <<ledger, valid, result, calls, at>>
     \/ batch[w] = <<>> /\ Goto(w, "loop") /\ UNCHANGED <<vars, batch>>
  /\ UNCHANGED <<queue, owner, submits>>

-----------------------------------------------------------------------------

terminated == \E w \in Workers : result[w] = "throw"

Worker(w) ==
  \/ LoopTest(w) \/ TestPredicate(w) \/ Wait(w) \/ TimeOut(w) \/ TakeLate(w) \/ ApplyNext(w)

Manager(c) == Step(c) /\ UNCHANGED processor

Others == Clients \ Workers

BatchNext ==
  /\ ~terminated
  /\ \/ \E tx \in Transactions : submit_transaction(tx)
     \/ SetStop \/ NotifyAll \/ Join
     \/ \E w \in Workers : Worker(w)
     \/ \E c \in Clients : Manager(c)
     \/ \E c \in Others, call \in Calls : Call(c, call) /\ UNCHANGED processor

batch_vars == <<vars, processor>>
BatchSpec == BatchInit /\ [][BatchNext]_batch_vars

\* Threads are scheduled and time passes; a std::mutex promises no turn, and
\* nobody is obliged to submit or to stop.
FairBatchSpec ==
  /\ BatchSpec
  /\ WF_batch_vars(~terminated /\ (NotifyAll \/ Join))
  /\ \A w \in Workers : WF_batch_vars(~terminated /\ Worker(w))
  /\ \A c \in Clients : WF_batch_vars(~terminated /\ Manager(c))

-----------------------------------------------------------------------------
(* Properties *)

\* A batch is worked off even if one of its transactions fails: a worker that has
\* transactions left has neither died of the last one nor got stuck in it.
ContinuesAfterFailure ==
  \A w \in Workers : batch[w] # <<>> => w \notin stuck /\ result[w] # "throw"

\* Every submitted transaction is taken into a batch, however few there are and
\* whatever wake-ups are missed, unless the processor is stopped first, an earlier
\* transaction has ended the process or wedged the state manager, or readers hold
\* up every worker for ever.
PendingIsTaken ==
  \/ (pending_transactions # <<>>)
        ~> (pending_transactions = <<>> \/ should_stop \/ terminated \/ Wedged)
  \/ \A w \in Workers : <>[](pc[w] = "queued")

\* Once it waits for the workers, the destructor returns, whatever batches they
\* have in hand, unless one of them ends the process (Linux) or wedges the state
\* manager (macOS), or waits for readers for ever. A notify_all that comes between
\* a worker's test of should_stop_ and its wait is lost, and only the timeout of
\* the wait makes up for it.
WorkersJoined ==
  \/ (owner = "join") ~> (owner = "destroyed" \/ terminated \/ Wedged)
  \/ \E w \in Workers : <>[](pc[w] = "queued")
=============================================================================
