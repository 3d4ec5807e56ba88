------------------------ MODULE RollupTransactionAPI ------------------------
(***************************************************************************)
(* The rollup's transaction ingress, src/rollup/RollupTransactionAPI.cpp:  *)
(* client threads validate and enqueue batches, a pool of worker threads   *)
(* takes them off the queue under queue_mutex_ and queue_cv_, and one      *)
(* owner thread starts, stops and destroys the object.                     *)
(*                                                                         *)
(* should_stop_ is a plain bool that the owner writes WITHOUT queue_mutex_,*)
(* so its write and the notify_all that follows are separate steps that    *)
(* may fall anywhere inside a worker's critical section.  A critical       *)
(* section that only reads or only pushes is one step; a worker's wait is  *)
(* three: evaluate the predicate, block (releasing the mutex), re-read the *)
(* flag and pop.  Metrics, batch ids and timestamps are left out.          *)
(***************************************************************************)
EXTENDS Naturals, Sequences, FiniteSets

CONSTANTS
  Submitters,      \* client threads calling submitTransaction / submit_batch
  Workers,         \* the threads of worker_threads_
  MAX_QUEUE_SIZE,  \* 1000 in the header
  MaxBatchTxs,     \* bound: transactions per submitted batch
  MaxSubmissions   \* bound: calls of the submission operations

Free == "free"

ASSUME APIAssumption ==
  /\ Free \notin Workers /\ IsFiniteSet(Submitters)
  /\ MAX_QUEUE_SIZE \in Nat \ {0}
  /\ MaxBatchTxs \in Nat /\ MaxSubmissions \in Nat

VARIABLES
  batch_queue,  \* batch_queue_
  should_stop,  \* should_stop_
  mutex,        \* the holder of queue_mutex_ between two steps, or Free
  spc,          \* where each submitter is
  sbatch,       \* the batch each submitter is submitting
  checked,      \* how many of its transactions have passed validation
  wpc,          \* where each worker is
  wbatch,       \* the batch each worker is processing
  owner,        \* where the owner thread is
  submissions,  \* history: number of submissions begun, names the batches
  accepted,     \* history: batches enqueued, in order
  taken,        \* history: batches popped, in order
  restarted,    \* history: start_processing has undone a stop
  late          \* history: workers about to block when the destructor notified

api_vars == <<batch_queue, should_stop, mutex, spc, sbatch, checked, wpc, wbatch,
          owner, submissions, accepted, taken, restarted, late>>
clients == <<spc, sbatch, checked, submissions>>
workers == <<wpc, wbatch>>
history == <<accepted, taken, restarted, late>>

\* A transaction is TRUE when it has a sender, a recipient, a non-zero value
\* and a signature, the four field checks of validate_transaction_with_message.
Transactions == BOOLEAN
TransactionBatch == [id : Nat, txs : Seq(Transactions)]
NoBatch == [id |-> 0, txs |-> <<>>]

TxLists == UNION {[1..n -> Transactions] : n \in 0..MaxBatchTxs}

ApiInit ==
  /\ batch_queue = <<>>
  /\ should_stop = FALSE
  /\ mutex = Free
  /\ spc = [s \in Submitters |-> "idle"]
  /\ sbatch = [s \in Submitters |-> NoBatch]
  /\ checked = [s \in Submitters |-> 0]
  /\ wpc = [w \in Workers |-> "loop"]
  /\ wbatch = [w \in Workers |-> NoBatch]
  /\ owner = "idle"
  /\ submissions = 0
  /\ accepted = <<>>
  /\ taken = <<>>
  /\ restarted = FALSE
  /\ late = {}

-----------------------------------------------------------------------------
(* Submission *)

\* Mutant: the limit itself is let through.
overloaded_above_limit == Len(batch_queue) > MAX_QUEUE_SIZE

is_overloaded == Len(batch_queue) >= MAX_QUEUE_SIZE

\* The field checks come first; only a transaction that passes them takes
\* queue_mutex_ to look at the queue.
validate_transaction(tx) == tx /\ ~is_overloaded

\* std::mutex: it can be taken when no thread holds it.
queue_mutex_free == mutex = Free

\* A caller enters with its list of transactions.  The object must outlive the
\* call, so no call begins once the owner is in the destructor.
Submit(s, txs) ==
  /\ spc[s] = "idle"
  /\ owner \notin {"destroy", "join", "destroyed"}
  /\ submissions < MaxSubmissions
  /\ submissions' = submissions + 1
  /\ sbatch' = [sbatch EXCEPT ![s] = [id |-> submissions + 1, txs |-> txs]]
  /\ spc' = [spc EXCEPT ![s] = "validate"]
  /\ UNCHANGED <<batch_queue, should_stop, mutex, checked, workers, owner, history>>

submitTransaction(s, tx) == Submit(s, <<tx>>)

submit_batch(s, txs) == Submit(s, txs)

ReturnToClient(s) ==
  /\ spc' = [spc EXCEPT ![s] = "idle"]
  /\ sbatch' = [sbatch EXCEPT ![s] = NoBatch]
  /\ checked' = [checked EXCEPT ![s] = 0]

\* One transaction of the batch is validated; the first failure returns false.
Validate(s) ==
  LET tx == sbatch[s].txs[checked[s] + 1] IN
  /\ spc[s] = "validate"
  /\ checked[s] < Len(sbatch[s].txs)
  /\ tx => queue_mutex_free
  /\ IF validate_transaction(tx)
       THEN checked' = [checked EXCEPT ![s] = @ + 1] /\ UNCHANGED <<spc, sbatch>>
       ELSE ReturnToClient(s)
  /\ UNCHANGED <<batch_queue, should_stop, mutex, submissions, workers, owner, history>>

\* Mutant: the notification is forgotten.
notify_nobody == UNCHANGED wpc

\* notify_one: some waiting worker, if there is one, goes back for the mutex.
notify_one ==
  IF \E w \in Workers : wpc[w] = "waiting"
    THEN \E w \in Workers : /\ wpc[w] = "waiting"
                            /\ wpc' = [wpc EXCEPT ![w] = "acquire"]
    ELSE UNCHANGED wpc

\* The batch is pushed and a worker notified in one critical section.
Enqueue(s) ==
  /\ spc[s] = "validate"
  /\ checked[s] = Len(sbatch[s].txs)
  /\ queue_mutex_free
  /\ batch_queue' = Append(batch_queue, sbatch[s])
  /\ accepted' = Append(accepted, sbatch[s])
  /\ notify_one
  /\ ReturnToClient(s)
  /\ UNCHANGED <<should_stop, mutex, submissions, wbatch, owner, taken, restarted, late>>

-----------------------------------------------------------------------------
(* worker_thread *)

WorkerUnchanged == UNCHANGED <<should_stop, clients, owner, accepted, restarted,
                             late>>

\* while (!should_stop_)
WorkerLoop(w) ==
  /\ wpc[w] = "loop"
  /\ wpc' = [wpc EXCEPT ![w] = IF should_stop THEN "exited" ELSE "acquire"]
  /\ UNCHANGED <<batch_queue, mutex, wbatch, taken>> /\ WorkerUnchanged

\* Mutant: wait without a predicate, so that any wake-up is taken for work.
no_predicate == TRUE

\* The predicate given to queue_cv_.wait.
wait_predicate == batch_queue # <<>> \/ should_stop

\* Take queue_mutex_ and evaluate the predicate of queue_cv_.wait.
EvaluatePredicate(w) ==
  /\ wpc[w] = "acquire"
  /\ queue_mutex_free
  /\ mutex' = w
  /\ wpc' = [wpc EXCEPT ![w] =
               IF wait_predicate THEN "woken" ELSE "blocking"]
  /\ UNCHANGED <<batch_queue, wbatch, taken>> /\ WorkerUnchanged

\* Atomically release queue_mutex_ and sleep on queue_cv_.
Block(w) ==
  /\ wpc[w] = "blocking"
  /\ mutex' = Free
  /\ wpc' = [wpc EXCEPT ![w] = "waiting"]
  /\ UNCHANGED <<batch_queue, wbatch, taken>> /\ WorkerUnchanged

SpuriousWakeup(w) ==
  /\ wpc[w] = "waiting"
  /\ wpc' = [wpc EXCEPT ![w] = "acquire"]
  /\ UNCHANGED <<batch_queue, mutex, wbatch, taken>> /\ WorkerUnchanged

\* Mutant: pop() is forgotten after front().
front_without_pop(q) == q

pop(q) == Tail(q)

front(q) == Head(q)

\* The flag is read a second time, then front() and pop().  On an empty queue
\* front() is undefined behaviour: the worker is lost to the model.
TakeBatch(w) ==
  /\ wpc[w] = "woken"
  /\ mutex' = Free
  /\ \/ /\ should_stop
        /\ wpc' = [wpc EXCEPT ![w] = "exited"]
        /\ UNCHANGED <<batch_queue, wbatch, taken>>
     \/ /\ ~should_stop /\ batch_queue = <<>>
        /\ wpc' = [wpc EXCEPT ![w] = "undefined"]
        /\ UNCHANGED <<batch_queue, wbatch, taken>>
     \/ /\ ~should_stop /\ batch_queue # <<>>
        /\ wpc' = [wpc EXCEPT ![w] = "process"]
        /\ wbatch' = [wbatch EXCEPT ![w] = front(batch_queue)]
        /\ taken' = Append(taken, front(batch_queue))
        /\ batch_queue' = pop(batch_queue)
  /\ WorkerUnchanged

\* process_batch validates every transaction again, the load check included,
\* and abandons the rest of the batch at the first failure.
process_batch(w) ==
  /\ wpc[w] = "process"
  /\ wbatch[w].txs # <<>> => queue_mutex_free
  /\ LET txs == wbatch[w].txs IN
     IF txs # <<>> /\ validate_transaction(Head(txs))
       THEN wbatch' = [wbatch EXCEPT ![w] = [id |-> @.id, txs |-> Tail(txs)]] /\ UNCHANGED wpc
       ELSE wpc' = [wpc EXCEPT ![w] = "loop"] /\ wbatch' = [wbatch EXCEPT ![w] = NoBatch]
  /\ UNCHANGED <<batch_queue, mutex, taken>> /\ WorkerUnchanged

-----------------------------------------------------------------------------
(* The owner *)

OwnerUnchanged == UNCHANGED <<batch_queue, mutex, clients, wbatch, accepted, taken>>

start_processing ==
  /\ owner = "idle"
  /\ should_stop' = FALSE
  /\ restarted' = (restarted \/ should_stop)
  /\ UNCHANGED <<owner, wpc, late>> /\ OwnerUnchanged

\* stop_processing's first statement; notify_all is the second.
stop_processing ==
  /\ owner = "idle"
  /\ should_stop' = TRUE
  /\ owner' = "notify"
  /\ UNCHANGED <<wpc, restarted, late>> /\ OwnerUnchanged

\* The destructor calls stop_processing and then joins.
Destroy ==
  /\ owner = "idle"
  /\ \A s \in Submitters : spc[s] = "idle"
  /\ should_stop' = TRUE
  /\ owner' = "destroy"
  /\ UNCHANGED <<wpc, restarted, late>> /\ OwnerUnchanged

\* Mutant: the stop is not announced.
sleep_on(w) == wpc[w]

notified(w) == IF wpc[w] = "waiting" THEN "acquire" ELSE wpc[w]

\* queue_cv_.notify_all() wakes the workers that are waiting now.
NotifyAll ==
  /\ owner \in {"notify", "destroy"}
  /\ wpc' = [w \in Workers |-> notified(w)]
  /\ late' = IF owner = "notify" THEN late ELSE {w \in Workers : wpc[w] = "blocking"}
  /\ owner' = IF owner = "notify" THEN "idle" ELSE "join"
  /\ UNCHANGED <<should_stop, restarted>> /\ OwnerUnchanged

Join ==
  /\ owner = "join"
  /\ \A w \in Workers : wpc[w] = "exited"
  /\ owner' = "destroyed"
  /\ UNCHANGED <<should_stop, wpc, restarted, late>> /\ OwnerUnchanged

-----------------------------------------------------------------------------

WorkerStep(w) == \/ WorkerLoop(w) \/ EvaluatePredicate(w) \/ Block(w)
                 \/ TakeBatch(w) \/ process_batch(w)

ApiNext ==
  \/ \E s \in Submitters : \/ \E tx \in Transactions : submitTransaction(s, tx)
                           \/ \E txs \in TxLists : submit_batch(s, txs)
                           \/ Validate(s) \/ Enqueue(s)
  \/ \E w \in Workers : WorkerStep(w) \/ SpuriousWakeup(w)
  \/ start_processing \/ stop_processing \/ Destroy \/ NotifyAll \/ Join

ApiSpec == ApiInit /\ [][ApiNext]_api_vars

\* Threads are preemptively scheduled: one that stays runnable runs.  Nothing
\* obliges a client to call, the owner to stop, or a wake-up to be spurious.
Fairness ==
  /\ \A w \in Workers : WF_api_vars(WorkerStep(w))
  /\ WF_api_vars(NotifyAll) /\ WF_api_vars(Join)
  /\ \A s \in Submitters : WF_api_vars(Validate(s)) /\ WF_api_vars(Enqueue(s))

ApiFairSpec == ApiSpec /\ Fairness

-----------------------------------------------------------------------------
(* Properties *)

FlagsOK == should_stop \in BOOLEAN /\ restarted \in BOOLEAN

\* Every variable keeps its type.
ApiTypeOK ==
  /\ FlagsOK
  /\ batch_queue \in Seq(TransactionBatch)
  /\ mutex \in Workers \cup {Free}
  /\ spc \in [Submitters -> {"idle", "validate"}]
  /\ sbatch \in [Submitters -> TransactionBatch]
  /\ checked \in [Submitters -> Nat]
  /\ wpc \in [Workers -> {"loop", "acquire", "blocking", "waiting", "woken",
                          "process", "exited", "undefined"}]
  /\ wbatch \in [Workers -> TransactionBatch]
  /\ owner \in {"idle", "notify", "destroy", "join", "destroyed"}
  /\ submissions \in Nat
  /\ accepted \in Seq(TransactionBatch)
  /\ taken \in Seq(TransactionBatch)
  /\ late \subseteq Workers

\* The batches the submission calls returned true for are exactly the ones the
\* workers popped followed by the ones still queued, in submission order: the
\* queue neither loses, duplicates nor reorders a batch under any interleaving.
FifoConservation == accepted = taken \o batch_queue

\* A worker holds queue_mutex_ exactly from evaluating the wait predicate to
\* blocking or popping, so two workers are never both about to pop.
MutexDiscipline ==
  \A w \in Workers : mutex = w <=> wpc[w] \in {"blocking", "woken"}

\* A worker that passed the wait predicate finds a batch or a stop request,
\* and calls front() on an empty queue only if start_processing cleared a stop
\* between its two reads of should_stop_.
EmptyPopNeedsRestart ==
  \A w \in Workers :
    /\ wpc[w] = "woken" => batch_queue # <<>> \/ should_stop \/ restarted
    /\ wpc[w] = "undefined" => restarted

\* Submitters past their last load check (a batch with no transactions is
\* never checked).
Admitted == {s \in Submitters : /\ spc[s] = "validate"
                                /\ sbatch[s].txs # <<>>
                                /\ checked[s] = Len(sbatch[s].txs)}
NonEmptyQueued == {i \in DOMAIN batch_queue : batch_queue[i].txs # <<>>}

\* is_overloaded is checked under one acquisition of the mutex and the push
\* happens under another, so the limit can be overrun, but by at most one
\* batch per concurrent submitter beyond the first.
BoundedOverrun ==
  Cardinality(NonEmptyQueued) + Cardinality(Admitted)
    <= MAX_QUEUE_SIZE - 1 + Cardinality(Submitters)

\* While nobody asks the workers to stop, a queued batch is eventually taken:
\* notify_one happens inside the critical section that pushes, so no wake-up
\* is lost.
QueueDrains ==
  (batch_queue # <<>>) ~>
    (batch_queue = <<>> \/ should_stop \/ \E w \in Workers : wpc[w] \in {"exited", "undefined"})

\* The destructor returns if, when it notified, no worker stood between its
\* predicate check and its sleep, and none is lost in front() of an empty queue.
DestructorReturns ==
  (owner = "join" /\ late = {} /\ ~restarted) ~> (owner = "destroyed")
=============================================================================
