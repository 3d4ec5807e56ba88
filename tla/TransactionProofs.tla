------------------------- MODULE TransactionProofs --------------------------
(***************************************************************************)
(* The queue of the transaction API and the executor of contract code.     *)
(*                                                                         *)
(* The queue loses, repeats and reorders no batch, a worker finds it empty *)
(* only after a restart, and its limit is overrun by at most one batch for *)
(* every submitter but the first: for any number of submitters, workers and*)
(* submissions.                                                            *)
(*                                                                         *)
(* For every set of programs, every gas limit, every stack limit and every *)
(* sequence of calls: the stack stays within its limit, gas within that of *)
(* the call, storage is isolated, and no transfer creates a balance.       *)
(***************************************************************************)
EXTENDS RollupTransactionAPI, EVMExecutor, FiniteSetTheorems, TLAPS

-----------------------------------------------------------------------------
(* The queue *)

\* Pushing at the back of the queue commutes with the history before it.
LEMMA AppendConcat ==
  ASSUME NEW S, NEW s \in Seq(S), NEW t \in Seq(S), NEW e \in S
  PROVE  Append(s \o t, e) = s \o Append(t, e)
  OBVIOUS

\* Popping the front of the queue moves it to the end of the history.
LEMMA MoveHead ==
  ASSUME NEW S, NEW s \in Seq(S), NEW t \in Seq(S), t # <<>>
  PROVE  Append(s, Head(t)) \o Tail(t) = s \o t
  OBVIOUS

\* What the queue discipline needs to be inductive.
QueueInv == ApiTypeOK /\ MutexDiscipline /\ EmptyPopNeedsRestart /\ FifoConservation

LEMMA InitQueueInv == ApiInit => QueueInv
  <1> SUFFICES ASSUME ApiInit PROVE QueueInv
    OBVIOUS
  <1>1. NoBatch \in TransactionBatch
    BY DEF NoBatch, TransactionBatch
  <1>2. ApiTypeOK
    <2>1. FlagsOK
      BY Zenon DEF ApiInit, FlagsOK
    <2> QED BY <1>1, <2>1 DEF ApiInit, ApiTypeOK
  <1>3. MutexDiscipline /\ EmptyPopNeedsRestart
    BY APIAssumption DEF ApiInit, MutexDiscipline, EmptyPopNeedsRestart
  <1>4. FifoConservation
    BY DEF ApiInit, FifoConservation
  <1> QED BY <1>2, <1>3, <1>4 DEF QueueInv

\* The two Boolean flags stay Boolean.
LEMMA FlagsStep == FlagsOK /\ [ApiNext]_api_vars => FlagsOK'
  <1> USE DEF FlagsOK
  <1> SUFFICES ASSUME FlagsOK, [ApiNext]_api_vars PROVE FlagsOK'
    OBVIOUS
  <1>1. CASE UNCHANGED <<should_stop, restarted>>
    BY <1>1
  <1>2. CASE start_processing
    BY <1>2, Zenon DEF start_processing
  <1>3. CASE stop_processing \/ Destroy
    BY <1>3, Zenon DEF stop_processing, Destroy
  <1>4. UNCHANGED <<should_stop, restarted>> \/ start_processing \/ stop_processing \/ Destroy
    BY ZenonT(30) DEF ApiNext, api_vars, submitTransaction, submit_batch, Submit, Validate, Enqueue, WorkerStep,
       WorkerLoop, EvaluatePredicate, Block, TakeBatch, process_batch, SpuriousWakeup,
       WorkerUnchanged, NotifyAll, Join, history
  <1> QED BY <1>1, <1>2, <1>3, <1>4

LEMMA TxListsAreSequences == \A txs \in TxLists : txs \in Seq(Transactions)
  BY APIAssumption DEF TxLists

\* Returning to the client resets its locals to values of their types.
LEMMA ReturnTypes ==
  ASSUME ApiTypeOK, NEW s \in Submitters, ReturnToClient(s)
  PROVE  /\ spc' \in [Submitters -> {"idle", "validate"}]
         /\ sbatch' \in [Submitters -> TransactionBatch]
         /\ checked' \in [Submitters -> Nat]
  <1>1. NoBatch \in TransactionBatch
    BY DEF NoBatch, TransactionBatch
  <1> QED BY <1>1 DEF ApiTypeOK, ReturnToClient

LEMMA SubmitQueueInv ==
  ASSUME QueueInv, FlagsOK', NEW s \in Submitters, NEW txs \in Seq(Transactions), Submit(s, txs)
  PROVE  QueueInv'
  <1>1. ApiTypeOK'
    BY SMTT(30) DEF Submit, QueueInv, ApiTypeOK, TransactionBatch, workers, history
  <1>2. (MutexDiscipline /\ EmptyPopNeedsRestart /\ FifoConservation)'
    BY DEF Submit, QueueInv, MutexDiscipline, EmptyPopNeedsRestart, FifoConservation,
       workers, history
  <1> QED BY <1>1, <1>2 DEF QueueInv

LEMMA ValidateQueueInv ==
  ASSUME QueueInv, FlagsOK', NEW s \in Submitters, Validate(s)
  PROVE  QueueInv'
  <1>1. ApiTypeOK'
    <2>1. \/ checked' = [checked EXCEPT ![s] = @ + 1] /\ UNCHANGED <<spc, sbatch>>
          \/ ReturnToClient(s)
      BY DEF Validate
    <2>2. UNCHANGED <<batch_queue, mutex, submissions, wpc, wbatch, owner, accepted, taken, late>>
      BY DEF Validate, workers, history
    <2>3. /\ spc \in [Submitters -> {"idle", "validate"}]
          /\ sbatch \in [Submitters -> TransactionBatch]
          /\ checked \in [Submitters -> Nat]
      BY DEF QueueInv, ApiTypeOK
    <2>4. /\ spc' \in [Submitters -> {"idle", "validate"}]
          /\ sbatch' \in [Submitters -> TransactionBatch]
          /\ checked' \in [Submitters -> Nat]
      BY <2>1, <2>3, ReturnTypes DEF QueueInv
    <2> QED BY <2>2, <2>4 DEF QueueInv, ApiTypeOK
  <1>2. (MutexDiscipline /\ EmptyPopNeedsRestart /\ FifoConservation)'
    BY DEF Validate, QueueInv, MutexDiscipline, EmptyPopNeedsRestart, FifoConservation,
       workers, history
  <1> QED BY <1>1, <1>2 DEF QueueInv

LEMMA EnqueueQueueInv ==
  ASSUME QueueInv, FlagsOK', NEW s \in Submitters, Enqueue(s)
  PROVE  QueueInv'
  <1> USE DEF QueueInv
  <1>0. \/ UNCHANGED wpc
        \/ \E w \in Workers : wpc[w] = "waiting" /\ wpc' = [wpc EXCEPT ![w] = "acquire"]
    BY DEF Enqueue, notify_one
  <1>1. ApiTypeOK'
    <2>1. wpc' \in [Workers -> {"loop", "acquire", "blocking", "waiting", "woken",
                                "process", "exited", "undefined"}]
      BY <1>0, Zenon DEF ApiTypeOK
    <2>2. sbatch[s] \in TransactionBatch
      BY DEF ApiTypeOK
    <2>3. ReturnToClient(s)
      BY DEF Enqueue
    <2> QED BY <2>1, <2>2, <2>3, ReturnTypes DEF Enqueue, ApiTypeOK
  <1>2. MutexDiscipline' /\ EmptyPopNeedsRestart'
    <2>1. \A w \in Workers : /\ wpc'[w] # "woken" /\ wpc'[w] # "blocking"
                             /\ wpc'[w] = "undefined" => wpc[w] = "undefined"
      BY <1>0, APIAssumption DEF Enqueue, queue_mutex_free, ApiTypeOK, MutexDiscipline
    <2> QED
      BY <2>1, APIAssumption DEF Enqueue, queue_mutex_free, MutexDiscipline, EmptyPopNeedsRestart
  <1>3. FifoConservation'
    <2>1. /\ taken \in Seq(TransactionBatch) /\ batch_queue \in Seq(TransactionBatch)
          /\ sbatch[s] \in TransactionBatch
      BY DEF ApiTypeOK
    <2>2. Append(taken \o batch_queue, sbatch[s]) = taken \o Append(batch_queue, sbatch[s])
      BY <2>1, AppendConcat, SMTT(30)
    <2> QED BY <2>2 DEF Enqueue, FifoConservation
  <1> QED BY <1>1, <1>2, <1>3

LEMMA WorkerQueueInv ==
  ASSUME QueueInv, FlagsOK', NEW w \in Workers, WorkerStep(w) \/ SpuriousWakeup(w)
  PROVE  QueueInv'
  <1> USE DEF QueueInv, WorkerUnchanged, clients
  <1>1. CASE WorkerLoop(w)
    BY <1>1, APIAssumption, Zenon
       DEF WorkerLoop, ApiTypeOK, MutexDiscipline, EmptyPopNeedsRestart, FifoConservation
  <1>2. CASE EvaluatePredicate(w)
    BY <1>2, APIAssumption
       DEF EvaluatePredicate, queue_mutex_free, wait_predicate, ApiTypeOK,
           MutexDiscipline, EmptyPopNeedsRestart, FifoConservation
  <1>3. CASE Block(w)
    BY <1>3, APIAssumption
       DEF Block, ApiTypeOK, MutexDiscipline, EmptyPopNeedsRestart, FifoConservation
  <1>4. CASE SpuriousWakeup(w)
    BY <1>4, APIAssumption
       DEF SpuriousWakeup, ApiTypeOK, MutexDiscipline, EmptyPopNeedsRestart, FifoConservation
  <1>5. CASE TakeBatch(w)
    <2> USE <1>5 DEF TakeBatch, front, pop
    <2>1. ApiTypeOK'
      <3>1. CASE batch_queue = <<>> \/ should_stop
        BY <3>1, ZenonT(30) DEF ApiTypeOK
      <3>2. CASE batch_queue # <<>> /\ ~should_stop
        <4>1. Head(batch_queue) \in TransactionBatch /\ Tail(batch_queue) \in Seq(TransactionBatch)
          BY <3>2 DEF ApiTypeOK
        <4>2. wpc' \in [Workers -> {"loop", "acquire", "blocking", "waiting", "woken",
                                    "process", "exited", "undefined"}]
          BY <3>2, Zenon DEF ApiTypeOK
        <4>3. /\ wbatch' \in [Workers -> TransactionBatch] /\ mutex' \in Workers \cup {Free}
          BY <3>2, <4>1, Zenon DEF ApiTypeOK
        <4>4. taken' \in Seq(TransactionBatch) /\ batch_queue' \in Seq(TransactionBatch)
          <5>1. taken' = Append(taken, Head(batch_queue)) /\ batch_queue' = Tail(batch_queue)
            BY <3>2
          <5>2. taken \in Seq(TransactionBatch)
            BY DEF ApiTypeOK
          <5> HIDE <1>5 DEF QueueInv
          <5> QED BY <4>1, <5>1, <5>2
        <4> QED BY <4>2, <4>3, <4>4 DEF ApiTypeOK
      <3> QED BY <3>1, <3>2
    <2>2. MutexDiscipline' /\ EmptyPopNeedsRestart'
      BY APIAssumption, ZenonT(30) DEF ApiTypeOK, MutexDiscipline, EmptyPopNeedsRestart
    <2>3. FifoConservation'
      <3>1. CASE UNCHANGED <<batch_queue, taken>>
        BY <3>1 DEF FifoConservation
      <3>2. CASE /\ batch_queue # <<>>
                 /\ taken' = Append(taken, Head(batch_queue))
                 /\ batch_queue' = Tail(batch_queue)
        <4>1. Append(taken, Head(batch_queue)) \o Tail(batch_queue) = taken \o batch_queue
          BY <3>2, MoveHead DEF ApiTypeOK
        <4> QED BY <3>2, <4>1 DEF FifoConservation
      <3> QED BY <3>1, <3>2
    <2> QED BY <2>1, <2>2, <2>3
  <1>6. CASE process_batch(w)
    <2> USE <1>6 DEF process_batch
    <2>1. ApiTypeOK'
      <3>1. \/ /\ wbatch[w].txs # <<>> /\ UNCHANGED wpc
               /\ wbatch' = [wbatch EXCEPT ![w] = [id |-> @.id, txs |-> Tail(wbatch[w].txs)]]
            \/ wpc' = [wpc EXCEPT ![w] = "loop"] /\ wbatch' = [wbatch EXCEPT ![w] = NoBatch]
        OBVIOUS
      <3>2. wbatch[w].txs # <<>> =>
              [id |-> wbatch[w].id, txs |-> Tail(wbatch[w].txs)] \in TransactionBatch
        BY DEF ApiTypeOK, TransactionBatch
      <3>3. NoBatch \in TransactionBatch
        BY DEF NoBatch, TransactionBatch
      <3> QED BY <3>1, <3>2, <3>3, Zenon DEF ApiTypeOK
    <2>2. (MutexDiscipline /\ EmptyPopNeedsRestart /\ FifoConservation)'
      BY APIAssumption, Zenon DEF ApiTypeOK, MutexDiscipline, EmptyPopNeedsRestart, FifoConservation
    <2> QED BY <2>1, <2>2
  <1> QED BY <1>1, <1>2, <1>3, <1>4, <1>5, <1>6 DEF WorkerStep

LEMMA OwnerQueueInv ==
  ASSUME QueueInv, FlagsOK', start_processing \/ stop_processing \/ Destroy \/ NotifyAll \/ Join
  PROVE  QueueInv'
  <1> USE DEF QueueInv, OwnerUnchanged, clients
  <1>1. CASE start_processing
    BY <1>1, Zenon DEF start_processing, ApiTypeOK, MutexDiscipline, EmptyPopNeedsRestart, FifoConservation
  <1>2. CASE stop_processing
    BY <1>2 DEF stop_processing, ApiTypeOK, MutexDiscipline, EmptyPopNeedsRestart, FifoConservation
  <1>3. CASE Destroy
    BY <1>3 DEF Destroy, ApiTypeOK, MutexDiscipline, EmptyPopNeedsRestart, FifoConservation
  <1>4. CASE NotifyAll
    BY <1>4 DEF NotifyAll, notified, ApiTypeOK, MutexDiscipline, EmptyPopNeedsRestart, FifoConservation
  <1>5. CASE Join
    BY <1>5 DEF Join, ApiTypeOK, MutexDiscipline, EmptyPopNeedsRestart, FifoConservation
  <1> QED BY <1>1, <1>2, <1>3, <1>4, <1>5

\* In every reachable state the queue discipline holds.
THEOREM QueueInvariance == ApiSpec => []QueueInv
  <1>1. ApiInit => QueueInv
    BY InitQueueInv
  <1>2. QueueInv /\ [ApiNext]_api_vars => QueueInv'
    <2> SUFFICES ASSUME QueueInv, [ApiNext]_api_vars PROVE QueueInv'
      OBVIOUS
    <2>0. FlagsOK'
      BY FlagsStep DEF QueueInv, ApiTypeOK
    <2>1. ASSUME NEW s \in Submitters, NEW tx \in Transactions, submitTransaction(s, tx)
          PROVE  QueueInv'
      <3>1. <<tx>> \in Seq(Transactions)
        OBVIOUS
      <3> QED BY <2>0, <2>1, <3>1, SubmitQueueInv, Zenon DEF submitTransaction
    <2>2. ASSUME NEW s \in Submitters, NEW txs \in TxLists, submit_batch(s, txs)
          PROVE  QueueInv'
      BY <2>0, <2>2, SubmitQueueInv, TxListsAreSequences DEF submit_batch
    <2>3. CASE UNCHANGED api_vars
      BY <2>0, <2>3 DEF api_vars, QueueInv, ApiTypeOK, MutexDiscipline, EmptyPopNeedsRestart, FifoConservation
    <2> QED
      BY <2>0, <2>1, <2>2, <2>3, ValidateQueueInv, EnqueueQueueInv, WorkerQueueInv, OwnerQueueInv
         DEF ApiNext
  <1> QED BY <1>1, <1>2, PTL DEF ApiSpec

\* Whatever the number of threads and the order of their steps, the workers
\* take exactly the accepted batches, each once and in submission order.
THEOREM AcceptedBatchesConserved == ApiSpec => []FifoConservation
  BY QueueInvariance, PTL DEF QueueInv

\* A worker reads the front of an empty queue only after start_processing has
\* cleared a stop request.
THEOREM NoEmptyPopWithoutRestart == ApiSpec => []EmptyPopNeedsRestart
  BY QueueInvariance, PTL DEF QueueInv
-----------------------------------------------------------------------------
(* The overrun of the queue's limit *)

\* A submitter between two calls starts its next one with no transaction
\* checked.
FreshCalls == \A s \in Submitters : spc[s] = "idle" => checked[s] = 0

OverrunInv == QueueInv /\ FreshCalls /\ BoundedOverrun

\* The sets BoundedOverrun counts are finite.
LEMMA CountsAreFinite ==
  ASSUME QueueInv
  PROVE  /\ IsFiniteSet(Submitters) /\ Cardinality(Submitters) \in Nat
         /\ IsFiniteSet(Admitted) /\ Cardinality(Admitted) \in Nat
         /\ Cardinality(Admitted) <= Cardinality(Submitters)
         /\ IsFiniteSet(NonEmptyQueued) /\ Cardinality(NonEmptyQueued) \in Nat
         /\ Cardinality(NonEmptyQueued) <= Len(batch_queue)
<1>1. Admitted \in SUBSET Submitters
  BY DEF Admitted
<1>2. NonEmptyQueued \in SUBSET (1 .. Len(batch_queue)) /\ Len(batch_queue) \in Nat
  BY DEF NonEmptyQueued, QueueInv, ApiTypeOK
<1>3. IsFiniteSet(1 .. Len(batch_queue)) /\ Cardinality(1 .. Len(batch_queue)) = Len(batch_queue)
  BY <1>2, FS_Interval, SMTT(30)
<1>4. IsFiniteSet(Submitters)
  BY APIAssumption
<1>5. IsFiniteSet(Admitted) /\ Cardinality(Admitted) <= Cardinality(Submitters)
  BY <1>1, <1>4, FS_Subset
<1>6. IsFiniteSet(NonEmptyQueued) /\ Cardinality(NonEmptyQueued) <= Len(batch_queue)
  BY <1>2, <1>3, FS_Subset, Zenon
<1> QED BY <1>4, <1>5, <1>6, FS_CardinalityType

\* A step after which fewer submitters are admitted and no more batches that
\* count are queued.
LEMMA NoMore ==
  ASSUME QueueInv, BoundedOverrun, Admitted' \subseteq Admitted,
         IsFiniteSet(NonEmptyQueued'), Cardinality(NonEmptyQueued') <= Cardinality(NonEmptyQueued)
  PROVE  BoundedOverrun'
<1>1. IsFiniteSet(Admitted') /\ Cardinality(Admitted') <= Cardinality(Admitted)
  BY CountsAreFinite, FS_Subset
<1>2. Cardinality(Admitted') \in Nat /\ Cardinality(NonEmptyQueued') \in Nat
  BY <1>1, FS_CardinalityType
<1> QED BY <1>1, <1>2, CountsAreFinite, APIAssumption DEF BoundedOverrun

\* In particular one that leaves the queue alone.
LEMMA NoMoreAdmitted ==
  ASSUME QueueInv, BoundedOverrun, Admitted' \subseteq Admitted, UNCHANGED batch_queue
  PROVE  BoundedOverrun'
<1>1. NonEmptyQueued' = NonEmptyQueued
  BY DEF NonEmptyQueued
<1> QED BY <1>1, NoMore, CountsAreFinite

\* A call begins with none of its transactions checked.
LEMMA SubmitOverrun ==
  ASSUME OverrunInv, NEW s \in Submitters, NEW txs \in Seq(Transactions), Submit(s, txs)
  PROVE  FreshCalls' /\ BoundedOverrun'
<1>1. /\ spc' = [spc EXCEPT ![s] = "validate"] /\ UNCHANGED <<checked, batch_queue>>
      /\ sbatch' = [sbatch EXCEPT ![s] = [id |-> submissions + 1, txs |-> txs]]
      /\ checked[s] = 0
  BY DEF Submit, OverrunInv, FreshCalls
<1>2. /\ spc \in [Submitters -> {"idle", "validate"}]
      /\ sbatch \in [Submitters -> TransactionBatch]
  BY DEF OverrunInv, QueueInv, ApiTypeOK
<1>3. FreshCalls'
  BY <1>1, <1>2 DEF OverrunInv, FreshCalls
<1>4. s \notin Admitted'
  BY <1>1, <1>2 DEF Admitted
<1>5. Admitted' \subseteq Admitted
  BY <1>1, <1>2, <1>4 DEF Admitted
<1> QED BY <1>1, <1>3, <1>5, NoMoreAdmitted DEF OverrunInv

\* A return leaves the set of the admitted submitters, if it changes it at all.
LEMMA ReturnLeaves ==
  ASSUME OverrunInv, NEW s \in Submitters, ReturnToClient(s)
  PROVE  FreshCalls' /\ Admitted' = Admitted \ {s}
<1>1. /\ spc \in [Submitters -> {"idle", "validate"}]
      /\ sbatch \in [Submitters -> TransactionBatch]
      /\ checked \in [Submitters -> Nat]
  BY DEF OverrunInv, QueueInv, ApiTypeOK
<1> QED BY <1>1 DEF ReturnToClient, OverrunInv, FreshCalls, Admitted

\* The load check passes only below the limit, so whoever is admitted by it,
\* the bound holds for all submitters at once.
LEMMA ValidateOverrun ==
  ASSUME OverrunInv, NEW s \in Submitters, Validate(s)
  PROVE  FreshCalls' /\ BoundedOverrun'
<1>0. UNCHANGED batch_queue /\ spc[s] = "validate"
  BY DEF Validate
<1>1. CASE ReturnToClient(s)
  BY <1>0, <1>1, ReturnLeaves, NoMoreAdmitted DEF OverrunInv
<1>2. CASE ~is_overloaded /\ checked' = [checked EXCEPT ![s] = @ + 1] /\ UNCHANGED <<spc, sbatch>>
  <2>1. FreshCalls'
    <3>1. checked \in [Submitters -> Nat]
      BY DEF OverrunInv, QueueInv, ApiTypeOK
    <3> QED BY <1>0, <1>2, <3>1 DEF OverrunInv, FreshCalls
  <2>2. Admitted' \in SUBSET Submitters
    BY DEF Admitted
  <2>3. IsFiniteSet(Admitted') /\ Cardinality(Admitted') <= Cardinality(Submitters)
    BY <2>2, CountsAreFinite, FS_Subset DEF OverrunInv
  <2>4. Cardinality(Admitted') \in Nat
    BY <2>3, FS_CardinalityType
  <2>5. NonEmptyQueued' = NonEmptyQueued
    BY <1>0 DEF NonEmptyQueued
  <2>6. Len(batch_queue) \in Nat /\ Len(batch_queue) < MAX_QUEUE_SIZE
    BY <1>2, APIAssumption DEF is_overloaded, OverrunInv, QueueInv, ApiTypeOK
  <2>7. BoundedOverrun'
    BY <2>3, <2>4, <2>5, <2>6, CountsAreFinite, APIAssumption DEF OverrunInv, BoundedOverrun
  <2> QED BY <2>1, <2>7
<1> QED BY <1>1, <1>2 DEF Validate, validate_transaction

\* A batch that counts takes the place its submitter was admitted for.
LEMMA EnqueueOverrun ==
  ASSUME OverrunInv, NEW s \in Submitters, Enqueue(s)
  PROVE  FreshCalls' /\ BoundedOverrun'
<1>0. /\ ReturnToClient(s) /\ spc[s] = "validate" /\ checked[s] = Len(sbatch[s].txs)
      /\ batch_queue' = Append(batch_queue, sbatch[s])
  BY DEF Enqueue
<1>1. batch_queue \in Seq(TransactionBatch) /\ sbatch[s] \in TransactionBatch
  BY DEF OverrunInv, QueueInv, ApiTypeOK
<1>2. FreshCalls' /\ Admitted' = Admitted \ {s}
  BY <1>0, ReturnLeaves
<1>3. CASE sbatch[s].txs = <<>>
  <2>1. NonEmptyQueued' = NonEmptyQueued
    BY <1>0, <1>1, <1>3 DEF NonEmptyQueued
  <2> QED BY <1>2, <2>1, NoMore, CountsAreFinite DEF OverrunInv
<1>4. CASE sbatch[s].txs # <<>>
  <2>1. s \in Admitted
    BY <1>0, <1>4 DEF Admitted
  <2>2. NonEmptyQueued' = NonEmptyQueued \cup {Len(batch_queue) + 1}
    BY <1>0, <1>1, <1>4 DEF NonEmptyQueued
  <2>3. Cardinality(Admitted') = Cardinality(Admitted) - 1
    BY <1>2, <2>1, CountsAreFinite, FS_RemoveElement, Zenon DEF OverrunInv
  <2>4. Len(batch_queue) + 1 \notin NonEmptyQueued
    BY <1>1 DEF NonEmptyQueued
  <2>5. Cardinality(NonEmptyQueued') = Cardinality(NonEmptyQueued) + 1
    BY <2>2, <2>4, CountsAreFinite, FS_AddElement, Zenon DEF OverrunInv
  <2> QED BY <1>2, <2>3, <2>5, CountsAreFinite, APIAssumption DEF OverrunInv, BoundedOverrun
<1> QED BY <1>3, <1>4

\* A pop shifts the batches that count, and may take one of them.
LEMMA PopOverrun ==
  ASSUME OverrunInv, batch_queue # <<>>, batch_queue' = Tail(batch_queue),
         UNCHANGED <<spc, sbatch, checked>>
  PROVE  BoundedOverrun'
<1> DEFINE before == NonEmptyQueued
           after == NonEmptyQueued'
           shift == [i \in after |-> i + 1]
<1>1. batch_queue \in Seq(TransactionBatch)
  BY DEF OverrunInv, QueueInv, ApiTypeOK
<1>2. \A i \in after : i \in Nat /\ i + 1 \in before
  BY <1>1 DEF NonEmptyQueued
<1>3. IsFiniteSet(before)
  BY CountsAreFinite DEF OverrunInv
<1>4. Admitted' \subseteq Admitted
  BY DEF Admitted
<1> HIDE DEF before, after
<1>5. shift \in Injection(after, before)
  BY <1>2 DEF Injection, IsInjective
<1>6. IsFiniteSet(after) /\ Cardinality(after) <= Cardinality(before)
  BY <1>3, <1>5, FS_Injection
<1> QED BY <1>4, <1>6, NoMore DEF OverrunInv, before, after

\* Every step keeps the bound.
LEMMA OverrunStep == OverrunInv /\ [ApiNext]_api_vars => FreshCalls' /\ BoundedOverrun'
<1> SUFFICES ASSUME OverrunInv, [ApiNext]_api_vars PROVE FreshCalls' /\ BoundedOverrun'
  OBVIOUS
<1>1. CASE UNCHANGED <<spc, sbatch, checked, batch_queue>>
  <2>1. Admitted' = Admitted
    BY <1>1 DEF Admitted
  <2> QED BY <1>1, <2>1, NoMoreAdmitted DEF OverrunInv, FreshCalls
<1>2. ASSUME NEW s \in Submitters, NEW tx \in Transactions, submitTransaction(s, tx)
      PROVE  FreshCalls' /\ BoundedOverrun'
  <2>1. <<tx>> \in Seq(Transactions)
    OBVIOUS
  <2> QED BY <1>2, <2>1, SubmitOverrun, ZenonT(30) DEF submitTransaction
<1>3. ASSUME NEW s \in Submitters, NEW txs \in TxLists, submit_batch(s, txs)
      PROVE  FreshCalls' /\ BoundedOverrun'
  BY <1>3, SubmitOverrun, TxListsAreSequences DEF submit_batch
<1>4. ASSUME NEW w \in Workers, WorkerStep(w) \/ SpuriousWakeup(w), ~UNCHANGED batch_queue
      PROVE  FreshCalls' /\ BoundedOverrun'
  <2>1. /\ batch_queue # <<>> /\ batch_queue' = Tail(batch_queue)
        /\ UNCHANGED <<spc, sbatch, checked>>
    BY <1>4, ZenonT(30) DEF WorkerStep, WorkerLoop, EvaluatePredicate, Block, TakeBatch, process_batch,
                SpuriousWakeup, WorkerUnchanged, clients, pop
  <2> QED BY <2>1, PopOverrun, Zenon DEF OverrunInv, FreshCalls
<1>5. ASSUME NEW w \in Workers, WorkerStep(w) \/ SpuriousWakeup(w)
      PROVE  UNCHANGED <<spc, sbatch, checked>>
  BY <1>5 DEF WorkerStep, WorkerLoop, EvaluatePredicate, Block, TakeBatch, process_batch,
              SpuriousWakeup, WorkerUnchanged, clients
<1>6. CASE start_processing \/ stop_processing \/ Destroy \/ NotifyAll \/ Join
  BY <1>1, <1>6 DEF start_processing, stop_processing, Destroy, NotifyAll, Join, OwnerUnchanged, clients
<1> QED BY <1>1, <1>2, <1>3, <1>4, <1>5, <1>6, ValidateOverrun, EnqueueOverrun DEF ApiNext, api_vars

\* For any number of submitters and workers, the batches queued beyond the
\* limit and those that have passed the load check are fewer than the
\* submitters.
THEOREM OverrunIsBounded == ApiSpec => []BoundedOverrun
<1>1. ApiInit => FreshCalls /\ BoundedOverrun
  <2> SUFFICES ASSUME ApiInit PROVE FreshCalls /\ BoundedOverrun
    OBVIOUS
  <2>1. Admitted = {} /\ NonEmptyQueued = {}
    BY DEF ApiInit, Admitted, NonEmptyQueued
  <2>2. Cardinality(Submitters) \in Nat
    BY APIAssumption, FS_CardinalityType
  <2> QED BY <2>1, <2>2, FS_EmptySet, APIAssumption DEF ApiInit, FreshCalls, BoundedOverrun
<1>2. QueueInv /\ FreshCalls /\ BoundedOverrun /\ [ApiNext]_api_vars => FreshCalls' /\ BoundedOverrun'
  BY OverrunStep, SMTT(30) DEF OverrunInv
<1> QED BY <1>1, <1>2, QueueInvariance, PTL DEF ApiSpec

-----------------------------------------------------------------------------
(* The executor *)

\* The inductive invariant.
IInv == TypeOK /\ GasWithinLimit /\ NoMoney

\* Every opcode of the gas table costs a natural number.
LEMMA GasNat == \A op \in DOMAIN Gas : Gas[op] \in Nat
  BY DEF Gas

\* The opcodes that the loop names are in the table, and the unknown ones are not.
LEMMA GasTable ==
  /\ "STOP" \in DOMAIN Gas /\ "SLOAD" \in DOMAIN Gas /\ "SSTORE" \in DOMAIN Gas
  /\ "PUSH0" \in DOMAIN Gas /\ "PUSH1" \in DOMAIN Gas /\ "PUSH_CUT" \in DOMAIN Gas
  /\ "UNKNOWN" \notin DOMAIN Gas
<1>1. "STOP" \in DOMAIN Gas /\ "SLOAD" \in DOMAIN Gas /\ "SSTORE" \in DOMAIN Gas
  BY DEF Gas
<1>2. "PUSH0" \in DOMAIN Gas /\ "PUSH1" \in DOMAIN Gas /\ "PUSH_CUT" \in DOMAIN Gas
  BY DEF Gas
<1>3. "UNKNOWN" \notin DOMAIN Gas
  BY DEF Gas
<1> QED BY <1>1, <1>2, <1>3, Zenon

\* A call that is running has a contract, a program and a place in it.
LEMMA RunningType ==
  ASSUME TypeOK, call # Idle
  PROVE  /\ call \in Running
         /\ call.pc \in Nat \ {0}
         /\ call.address \in Contracts
         /\ call.code \in Programs
         /\ call.code \in Seq(Instruction)
         /\ call.storage \in [Contracts -> [Words -> Words]]
<1>1. call \in Running
  BY Zenon DEF TypeOK
<1>2. /\ call.pc \in Nat \ {0} /\ call.address \in Contracts /\ call.code \in Programs
      /\ call.storage \in [Contracts -> [Words -> Words]]
  BY <1>1, SMTT(30) DEF Running
<1> QED
  BY <1>1, <1>2, EVMAssumption, Zenon

\* The instruction at its place is one of the opcodes asked for.
LEMMA FetchedType ==
  ASSUME TypeOK, NEW ops, Fetched(ops)
  PROVE  /\ call # Idle
         /\ call.code[call.pc] \in Instruction
         /\ call.code[call.pc].op \in ops
         /\ call.code[call.pc].arg \in Words
<1>1. call # Idle /\ call.pc <= Len(call.code) /\ call.code[call.pc].op \in ops
  BY DEF Fetched
<1>2. call.code \in Seq(Instruction) /\ call.pc \in Nat \ {0}
  BY <1>1, RunningType
<1>3. call.code[call.pc] \in Instruction
  BY <1>1, <1>2
<1>4. call.code[call.pc].arg \in Words
  BY <1>3, SMTT(30) DEF Instruction
<1> QED
  BY <1>1, <1>3, <1>4

\* The next instruction of the same call.
LEMMA AdvanceType ==
  ASSUME TypeOK, call # Idle
  PROVE  Advance \in Running
  BY RunningType DEF Advance, Running, TypeOK

\* require_gas keeps the gas natural and within the limit.
LEMMA ChargeType ==
  ASSUME TypeOK, GasWithinLimit, NEW ops \in SUBSET DOMAIN Gas, Charge(ops)
  PROVE  gas_used_' \in Nat /\ gas_used_' <= gas_limit_
<1>1. cost \in Nat
  BY FetchedType, GasNat DEF Charge, cost
<1> QED
  BY <1>1, SMTT(30) DEF Charge, charged, affordable, TypeOK

\* What a return leaves.
LEMMA ReturnType ==
  ASSUME NEW success, Return(success)
  PROVE  call' = Idle /\ result' \in {NoResult, "success", "failure"}
  BY DEF Return

\* The stack operations: push, pop and the items they move.
LEMMA StackTypes ==
  ASSUME TypeOK
  PROVE  /\ \A w \in Words : Append(stack_, w) \in Seq(Words) /\ Len(Append(stack_, w)) = Len(stack_) + 1
         /\ \A n \in 0 .. Len(stack_) : below(n) \in Seq(Words) /\ Len(below(n)) = Len(stack_) - n
         /\ stack_ # <<>> => Len(stack_) > 0 /\ top \in Words
         /\ Len(stack_) \in Nat
  BY DEF TypeOK, below, top

\* What the storage returns is a word.
LEMMA LoadType ==
  ASSUME TypeOK, NEW c \in Contracts, NEW k \in Words
  PROVE  storage_[c][k] \in Words
  BY DEF TypeOK

\* A store keeps the type of the storage, and every other contract's part of it.
LEMMA StoreType ==
  ASSUME TypeOK, NEW c \in Contracts, NEW k \in Words, NEW v \in Words
  PROVE  /\ store(c, k, v) \in [Contracts -> [Words -> Words]]
         /\ \A d \in Contracts \ {c} : store(c, k, v)[d] = storage_[d]
<1> DEFINE part == [storage_[c] EXCEPT ![k] = v]
<1>1. part \in [Words -> Words]
  BY DEF TypeOK
<1> HIDE DEF part
<1>2. store(c, k, v) = [storage_ EXCEPT ![c] = part]
  BY SMTT(30) DEF store, part
<1> QED
  BY <1>1, <1>2 DEF TypeOK

-----------------------------------------------------------------------------
\* One step of the loop keeps the invariant.
LEMMA StepInvariant ==
  ASSUME IInv, Step
  PROVE  IInv'
<1>1. SUFFICES /\ stack_' \in Seq(Words) /\ Len(stack_') <= StackLimit
               /\ storage_' \in [Contracts -> [Words -> Words]]
               /\ gas_used_' \in Nat /\ gas_used_' <= gas_limit_
               /\ call' \in Running \cup {Idle}
               /\ result' \in {NoResult, "success", "failure"}
  BY DEF IInv, TypeOK, GasWithinLimit, NoMoney, Step
<1>2. TypeOK /\ GasWithinLimit
  BY DEF IInv
<1>3. CASE OutOfGas
  BY <1>2, <1>3, ReturnType, Zenon DEF OutOfGas, charged, TypeOK, GasWithinLimit
<1>4. CASE Stop
  <2>1. {"STOP"} \in SUBSET DOMAIN Gas
    BY GasTable, Zenon
  <2> QED
    BY <1>2, <1>4, <2>1, ChargeType, ReturnType, ZenonT(30) DEF Stop, TypeOK
<1>5. CASE PayOnly
  <2>1. Plain \in SUBSET DOMAIN Gas /\ Charge(Plain)
    BY <1>5 DEF PayOnly, Plain
  <2>2. gas_used_' \in Nat /\ gas_used_' <= gas_limit_
    BY <1>2, <2>1, ChargeType, SMTT(30)
  <2>3. call' \in Running
    BY <1>2, <1>5, <2>1, FetchedType, AdvanceType, SMTT(30) DEF PayOnly, Charge
  <2> QED
    BY <1>2, <1>5, <2>2, <2>3, SMTT(30) DEF PayOnly, TypeOK
<1>6. CASE Push
  <2> DEFINE ops == {"PUSH0", "PUSH1", "PUSH_CUT"}
             item == IF call.code[call.pc].op = "PUSH0" THEN 0 ELSE call.code[call.pc].arg
  <2>1. ops \in SUBSET DOMAIN Gas /\ Charge(ops)
    BY <1>6, GasTable, Zenon DEF Push
  <2>2. gas_used_' \in Nat /\ gas_used_' <= gas_limit_
    BY <1>2, <2>1, ChargeType
  <2>3. item \in Words /\ call # Idle
    BY <1>2, <2>1, FetchedType, EVMAssumption DEF Charge
  <2> HIDE DEF item
  <2>4. CASE Throw
    BY <1>2, <2>2, <2>4, ReturnType, Zenon DEF Throw, TypeOK
  <2>5. CASE /\ room /\ stack_' = Append(stack_, item)
             /\ call' = Advance /\ UNCHANGED <<storage_, result>>
    <3>1. stack_' \in Seq(Words) /\ Len(stack_') <= StackLimit
      BY <1>2, <2>3, <2>5, StackTypes, EVMAssumption DEF room
    <3>2. call' \in Running
      BY <1>2, <2>3, <2>5, AdvanceType
    <3> QED
      BY <1>2, <2>2, <2>5, <3>1, <3>2 DEF TypeOK
  <2> QED
    BY <1>6, <2>4, <2>5, ZenonT(30) DEF Push, item
<1>7. CASE Sload
  <2>1. {"SLOAD"} \in SUBSET DOMAIN Gas /\ Charge({"SLOAD"})
    BY <1>7, GasTable, Zenon DEF Sload
  <2>2. gas_used_' \in Nat /\ gas_used_' <= gas_limit_
    BY <1>2, <2>1, ChargeType
  <2>3. call # Idle
    BY <1>2, <2>1, FetchedType DEF Charge
  <2>4. CASE stack_ = <<>>
    <3>1. Throw
      BY <1>7, <2>4 DEF Sload
    <3> QED
      BY <1>2, <2>2, <3>1, ReturnType, Zenon DEF Throw, TypeOK
  <2>5. CASE stack_ # <<>>
    <3>1. storage_[call.address][top] \in Words
      BY <1>2, <2>3, <2>5, RunningType, StackTypes, LoadType
    <3>2. below(1) \in Seq(Words) /\ Len(below(1)) = Len(stack_) - 1
      BY <1>2, <2>5, StackTypes
    <3>3. stack_' = Append(below(1), storage_[call.address][top])
      BY <1>7, <2>5 DEF Sload
    <3>4. stack_' \in Seq(Words) /\ Len(stack_') <= StackLimit
      <4> HIDE DEF below, top
      <4> QED BY <1>2, <3>1, <3>2, <3>3 DEF TypeOK
    <3>5. call' \in Running
      BY <1>2, <1>7, <2>3, <2>5, AdvanceType DEF Sload
    <3> QED
      BY <1>2, <1>7, <2>2, <2>5, <3>4, <3>5 DEF Sload, TypeOK
  <2> QED
    BY <2>4, <2>5, SMTT(30)
<1>8. CASE Sstore
  <2>1. {"SSTORE"} \in SUBSET DOMAIN Gas /\ Charge({"SSTORE"})
    BY <1>8, GasTable, Zenon DEF Sstore
  <2>2. gas_used_' \in Nat /\ gas_used_' <= gas_limit_
    BY <1>2, <2>1, ChargeType
  <2>3. call # Idle
    BY <1>2, <2>1, FetchedType DEF Charge
  <2>4. CASE Len(stack_) < 2
    <3>1. Return(FALSE) /\ stack_' = <<>> /\ storage_' = storage_
      BY <1>8, <2>4, Zenon DEF Sstore
    <3>2. stack_' \in Seq(Words) /\ Len(stack_') <= StackLimit
      BY <3>1, EVMAssumption
    <3> QED
      BY <1>2, <2>2, <3>1, <3>2, ReturnType, Zenon DEF TypeOK
  <2>5. CASE ~(Len(stack_) < 2)
    <3>1. stack_[Len(stack_) - 1] \in Words /\ top \in Words
      BY <1>2, <2>5 DEF TypeOK, top
    <3>2. storage_' \in [Contracts -> [Words -> Words]]
      BY <1>2, <1>8, <2>3, <2>5, <3>1, RunningType, StoreType, SMTT(30) DEF Sstore
    <3>3. stack_' \in Seq(Words) /\ Len(stack_') <= StackLimit
      <4>1. stack_' = below(2) /\ 2 \in 0 .. Len(stack_)
        BY <1>2, <1>8, <2>5 DEF Sstore, TypeOK
      <4>2. stack_' \in Seq(Words) /\ Len(stack_') = Len(stack_) - 2 /\ Len(stack_) \in Nat
        BY <1>2, <4>1, StackTypes, Zenon
      <4> QED BY <1>2, <4>2, EVMAssumption DEF TypeOK
    <3>4. call' \in Running
      BY <1>2, <1>8, <2>3, <2>5, AdvanceType DEF Sstore
    <3> QED
      BY <1>2, <1>8, <2>2, <2>5, <3>2, <3>3, <3>4 DEF Sstore, TypeOK
  <2> QED
    BY <2>4, <2>5, SMTT(30)
<1>9. CASE Unknown
  BY <1>2, <1>9, ReturnType, Zenon DEF Unknown, TypeOK, GasWithinLimit
<1>10. CASE EndOfCode
  BY <1>2, <1>10, ReturnType, Zenon DEF EndOfCode, TypeOK, GasWithinLimit
<1> QED
  BY <1>3, <1>4, <1>5, <1>6, <1>7, <1>8, <1>9, <1>10, SMTT(30) DEF Step

\* The initial state satisfies the invariant.
LEMMA InitInvariant == Init => IInv
<1> SUFFICES ASSUME Init PROVE IInv
  OBVIOUS
<1>1. stack_ \in Seq(Words) /\ Len(stack_) <= StackLimit
  BY EVMAssumption DEF Init
<1>2. storage_ \in [Contracts -> [Words -> Words]]
  BY EVMAssumption DEF Init
<1>3. balances \in [Accounts -> 0 .. W - 1] /\ NoMoney
  BY EVMAssumption DEF Init, NoMoney
<1> QED
  BY <1>1, <1>2, <1>3 DEF Init, IInv, TypeOK, GasWithinLimit

\* A new call keeps it: the gas of earlier calls is forgotten.
LEMMA CallInvariant ==
  ASSUME IInv, NEW c \in Contracts, NEW code \in Programs, NEW limit \in Limits,
         execute_contract(c, code, limit)
  PROVE  IInv'
<1>1. TypeOK /\ NoMoney /\ Len(stack_) \in Nat
  BY DEF IInv, TypeOK
<1>2. call' \in Running
  <2>1. /\ c \in Contracts /\ code \in Programs /\ 1 \in Nat \ {0} /\ Len(stack_) \in Nat
        /\ storage_ \in [Contracts -> [Words -> Words]]
    BY <1>1 DEF TypeOK
  <2>2. call' = [running |-> "yes", address |-> c, code |-> code, pc |-> 1, depth |-> Len(stack_),
                 storage |-> storage_]
    BY DEF execute_contract
  <2> QED BY <2>1, <2>2, Zenon DEF Running
<1>3. limit \in Nat
  BY EVMAssumption
<1>4. gas_used_' = 0 /\ gas_limit_' = limit /\ UNCHANGED <<stack_, storage_, balances, result>>
  BY DEF execute_contract
<1> QED
  BY <1>1, <1>2, <1>3, <1>4 DEF IInv, TypeOK, GasWithinLimit, NoMoney

\* A transfer keeps it: no balance covers more than nothing.
LEMMA TransferInvariant ==
  ASSUME IInv, NEW from \in Accounts, NEW to \in Accounts, NEW value \in Values,
         execute(from, to, value)
  PROVE  IInv'
<1>1. TypeOK /\ NoMoney /\ GasWithinLimit
  BY DEF IInv
<1>2. UNCHANGED <<stack_, storage_, gas_used_, gas_limit_, call>>
  BY DEF execute
<1>3. result' \in {NoResult, "success", "failure"}
  BY DEF execute
<1>4. balances' = balances
  <2>1. CASE covered(from, value)
    <3>1. value = 0
      BY <1>1, <2>1, EVMAssumption DEF covered, NoMoney
    <3>2. (0 + W - 0) % W = 0 /\ (0 + 0) % W = 0
      BY EVMAssumption
    <3> DEFINE debited == [balances EXCEPT ![from] = (@ + W - value) % W]
    <3>3. debited = balances
      BY <1>1, <3>1, <3>2 DEF TypeOK, NoMoney
    <3>4. balances' = [debited EXCEPT ![to] = (@ + value) % W]
      BY <2>1 DEF execute
    <3> HIDE DEF debited
    <3> QED
      BY <1>1, <3>1, <3>2, <3>3, <3>4 DEF TypeOK, NoMoney
  <2>2. CASE ~covered(from, value)
    BY <2>2 DEF execute
  <2> QED
    BY <2>1, <2>2
<1> QED
  BY <1>1, <1>2, <1>3, <1>4 DEF IInv, TypeOK, GasWithinLimit, NoMoney

\* Every step of the executor keeps the invariant.
LEMMA NextInvariant == IInv /\ [Next]_vars => IInv'
<1> SUFFICES ASSUME IInv, [Next]_vars PROVE IInv'
  OBVIOUS
<1>1. CASE Step
  BY <1>1, StepInvariant
<1>2. CASE \E c \in Contracts, code \in Programs, limit \in Limits : execute_contract(c, code, limit)
  BY <1>2, CallInvariant
<1>3. CASE \E from, to \in Accounts, v \in Values : execute(from, to, v)
  BY <1>3, TransferInvariant
<1>4. CASE UNCHANGED vars
  BY <1>4 DEF vars, IInv, TypeOK, GasWithinLimit, NoMoney
<1> QED
  BY <1>1, <1>2, <1>3, <1>4 DEF Next

-----------------------------------------------------------------------------
\* The executor keeps its types, and the stack its limit, over any sequence of
\* calls, although no call clears what the ones before it left.
THEOREM StackBounded == Spec => []TypeOK
<1>1. IInv => TypeOK
  BY DEF IInv
<1> QED
  BY <1>1, InitInvariant, NextInvariant, PTL DEF Spec

\* require_gas keeps each call within its own gas limit.
THEOREM GasBounded == Spec => []GasWithinLimit
<1>1. IInv => GasWithinLimit
  BY DEF IInv
<1> QED
  BY <1>1, InitInvariant, NextInvariant, PTL DEF Spec

\* execute never gives an account a balance, for any word size.
THEOREM NothingFromNothing == Spec => []NoMoney
<1>1. IInv => NoMoney
  BY DEF IInv
<1> QED
  BY <1>1, InitInvariant, NextInvariant, PTL DEF Spec

-----------------------------------------------------------------------------
(* The outcome of a call.  Reached is a recursive function of the program; *)
(* the lemmas say what it computes, by an induction stated over sets.      *)

\* Induction over the natural numbers for a set: were m left out, adding one
\* would map the members up to m into themselves without 0.
LEMMA InductionOverSets ==
  ASSUME NEW S, 0 \in S, \A n \in Nat : n \in S => n + 1 \in S
  PROVE  \A m \in Nat : m \in S
<1> SUFFICES ASSUME NEW m \in Nat, m \notin S PROVE FALSE
  OBVIOUS
<1> DEFINE T == {x \in 0..m : x \in S}
           f == [x \in T |-> x + 1]
<1>1. IsFiniteSet(T)
  <2>1. IsFiniteSet(0..m) /\ T \in SUBSET (0..m)
    BY FS_Interval
  <2> QED BY <2>1, FS_Subset, ZenonT(30)
<1>2. \A x \in T : x + 1 \in T \ {0}
  OBVIOUS
<1>3. f \in Injection(T, T \ {0})
  BY <1>2 DEF Injection, IsInjective
<1>4. IsFiniteSet(T \ {0}) /\ Cardinality(T \ {0}) = Cardinality(T) - 1
  BY <1>1, FS_RemoveElement, 0 \in T, Zenon
<1>5. Cardinality(T) <= Cardinality(T \ {0})
  BY <1>3, <1>4, FS_Injection, ZenonT(30)
<1> QED BY <1>1, <1>4, <1>5, FS_CardinalityType

\* g reads the first m instructions as Reached does.
Reads(code, limit, depth, m, g) ==
  g = [i \in 0 .. m |-> IF i = 0 THEN Entered(depth) ELSE After(g[i - 1], code[i].op, limit)]

\* Such a function exists for every number of instructions.
LEMMA ReadsExist ==
  ASSUME NEW code, NEW limit, NEW depth
  PROVE  \A m \in Nat : \E g : Reads(code, limit, depth, m, g)
<1> DEFINE B == {k \in Nat : \E g : Reads(code, limit, depth, k, g)}
<1>1. 0 \in B
  <2> DEFINE g == [i \in 0 .. 0 |-> Entered(depth)]
  <2>1. \A i \in 0 .. 0 : i = 0
    OBVIOUS
  <2>2. Reads(code, limit, depth, 0, g)
    BY <2>1, Zenon DEF Reads
  <2> QED BY <2>2, Zenon
<1>2. ASSUME NEW k \in Nat, k \in B PROVE k + 1 \in B
  <2>1. PICK g : Reads(code, limit, depth, k, g)
    BY <1>2
  <2> DEFINE d == [i \in 0 .. k + 1 |-> IF i = 0 THEN Entered(depth) ELSE After(g[i - 1], code[i].op, limit)]
  <2>2. \A i \in 0 .. k : i \in 0 .. k + 1
    OBVIOUS
  <2>3. \A i \in 0 .. k : d[i] = g[i]
    BY <2>1, <2>2, Zenon DEF Reads
  <2>4. \A i \in 0 .. k + 1 : i # 0 => i - 1 \in 0 .. k
    OBVIOUS
  <2>5. \A i \in 0 .. k + 1 : d[i] = IF i = 0 THEN Entered(depth) ELSE After(d[i - 1], code[i].op, limit)
    BY <2>3, <2>4, Zenon
  <2>6. Reads(code, limit, depth, k + 1, d)
    <3>1. d = [i \in 0 .. k + 1 |-> d[i]]
      OBVIOUS
    <3> HIDE DEF d
    <3> QED BY <2>5, <3>1, Zenon DEF Reads
  <2>7. k + 1 \in Nat
    OBVIOUS
  <2> QED BY <2>6, <2>7, Zenon
<1> HIDE DEF B
<1>3. \A m \in Nat : m \in B
  BY <1>1, <1>2, InductionOverSets, Zenon
<1> QED BY <1>3, Zenon DEF B

\* So Reached starts with nothing used and takes one instruction at a time.
LEMMA ReachedSteps ==
  ASSUME NEW code, Len(code) \in Nat, NEW limit, NEW depth
  PROVE  /\ Reached(code, limit, depth, 0) = Entered(depth)
         /\ \A n \in 1 .. Len(code) :
              Reached(code, limit, depth, n) = After(Reached(code, limit, depth, n - 1), code[n].op, limit)
<1> DEFINE g == CHOOSE g : Reads(code, limit, depth, Len(code), g)
<1>1. Reads(code, limit, depth, Len(code), g)
  BY ReadsExist, Zenon
<1>2. ASSUME NEW n PROVE Reached(code, limit, depth, n) = g[n]
  BY Zenon DEF Reached, Reads
<1> HIDE DEF g
<1>3. 0 \in 0 .. Len(code) /\ \A n \in 1 .. Len(code) : n \in 0 .. Len(code) /\ n # 0
  OBVIOUS
<1>4. g[0] = Entered(depth)
  BY <1>1, <1>3, Zenon DEF Reads
<1>5. \A n \in 1 .. Len(code) : g[n] = After(g[n - 1], code[n].op, limit)
  BY <1>1, <1>3, Zenon DEF Reads
<1> QED BY <1>2, <1>4, <1>5, Zenon

\* What has stopped or failed stays as it is to the end of the program.
LEMMA ReachedEnd ==
  ASSUME NEW code, Len(code) \in Nat, NEW limit, NEW depth, NEW n \in 0 .. Len(code),
         \/ Reached(code, limit, depth, n).done
         \/ Reached(code, limit, depth, n).fail
  PROVE  Reached(code, limit, depth, Len(code)) = Reached(code, limit, depth, n)
<1> DEFINE R(i) == Reached(code, limit, depth, i)
           B == {k \in Nat : n + k <= Len(code) => R(n + k) = R(n)}
<1> HIDE DEF R
<1>0. R(n).done \/ R(n).fail
  BY Zenon DEF R
<1>1. 0 \in B
  <2>1. n + 0 = n
    OBVIOUS
  <2> QED BY <2>1, Zenon
<1>2. ASSUME NEW k \in Nat, k \in B PROVE k + 1 \in B
  <2> SUFFICES ASSUME n + (k + 1) <= Len(code) PROVE R(n + (k + 1)) = R(n)
    OBVIOUS
  <2>1. n + k <= Len(code)
    OBVIOUS
  <2>2. R(n + k) = R(n)
    BY <1>2, <2>1, Zenon
  <2>3. PICK p \in 1 .. Len(code) : p = n + (k + 1) /\ p - 1 = n + k
    OBVIOUS
  <2>4. R(p) = After(R(p - 1), code[p].op, limit)
    BY ReachedSteps, Zenon DEF R
  <2>5. R(p) = After(R(n), code[p].op, limit)
    BY <2>2, <2>3, <2>4, Zenon
  <2>6. R(p) = R(n)
    BY <1>0, <2>5, Zenon DEF After
  <2> QED BY <2>3, <2>6, Zenon
<1> HIDE DEF B
<1>3. \A m \in Nat : m \in B
  BY <1>1, <1>2, InductionOverSets, Zenon
<1>4. PICK k \in Nat : n + k = Len(code) /\ n + k <= Len(code)
  <2>1. Len(code) - n \in Nat /\ n + (Len(code) - n) = Len(code) /\ n + (Len(code) - n) <= Len(code)
    OBVIOUS
  <2> QED BY <2>1, Zenon
<1>5. R(n + k) = R(n)
  BY <1>3, <1>4, Zenon DEF B
<1>6. R(Len(code)) = R(n)
  BY <1>4, <1>5, Zenon
<1> QED BY <1>6, Zenon DEF R

\* Where a call stands: so much gas, such a stack, neither stopped nor failed.
Here(b) == [gas |-> gas_used_, depth |-> Len(stack_), stored |-> b, done |-> FALSE, fail |-> FALSE]

\* The storage differs from what the call found only after an SSTORE of its own.
Touched(b) == \A c \in Contracts : storage_[c] # call.storage[c] => b /\ c = call.address

Foreseen(n) == Reached(call.code, gas_limit_, call.depth, n)

\* Between two instructions the executor is where the reading of the program
\* up to there says.
Predicted ==
  call # Idle =>
    /\ call.pc <= Len(call.code) + 1
    /\ \E b \in BOOLEAN : Foreseen(call.pc - 1) = Here(b) /\ Touched(b)

price(op) == IF op \in DOMAIN Gas THEN Gas[op] ELSE 0

Fails(op) ==
  \/ op \in {"UNKNOWN", "PUSH_CUT"}
  \/ gas_used_ + price(op) > gas_limit_
  \/ Len(stack_) < Pops(op)
  \/ Len(stack_) + Pushes(op) - Pops(op) > StackLimit

\* The gas, the depth and the stores after an instruction, as they are read.
GasLeft(op) == IF gas_used_ + price(op) > gas_limit_ THEN gas_used_ ELSE gas_used_ + price(op)
DepthLeft(op) ==
  IF ~Fails(op) THEN Len(stack_) + Pushes(op) - Pops(op)
  ELSE IF op = "SSTORE" /\ ~(gas_used_ + price(op) > gas_limit_) THEN 0 ELSE Len(stack_)
StoredBy(op, b) == b \/ (op = "SSTORE" /\ ~Fails(op))

\* The steps and the end of the reading, for the call being executed.
LEMMA ForeseenSteps ==
  ASSUME Len(call.code) \in Nat
  PROVE  /\ \A n \in 1 .. Len(call.code) :
              Foreseen(n) = After(Foreseen(n - 1), call.code[n].op, gas_limit_)
         /\ \A n \in 0 .. Len(call.code) :
              Foreseen(n).done \/ Foreseen(n).fail => Foreseen(Len(call.code)) = Foreseen(n)
<1>1. ASSUME NEW n \in 1 .. Len(call.code)
      PROVE  Foreseen(n) = After(Foreseen(n - 1), call.code[n].op, gas_limit_)
  BY <1>1, ReachedSteps, Zenon DEF Foreseen
<1>2. ASSUME NEW n \in 0 .. Len(call.code), Foreseen(n).done \/ Foreseen(n).fail
      PROVE  Foreseen(Len(call.code)) = Foreseen(n)
  BY <1>2, ReachedEnd, Zenon DEF Foreseen
<1> QED BY <1>1, <1>2, Zenon

\* What the reading says of the instruction about to be executed.
LEMMA ForeseenNext ==
  ASSUME TypeOK, NEW ops, Fetched(ops), NEW op, op = call.code[call.pc].op,
         NEW b \in BOOLEAN, Foreseen(call.pc - 1) = Here(b)
  PROVE  /\ call.pc \in 0 .. Len(call.code) /\ Len(call.code) \in Nat
         /\ Foreseen(call.pc).gas = GasLeft(op)
         /\ Foreseen(call.pc).depth = DepthLeft(op)
         /\ Foreseen(call.pc).stored = StoredBy(op, b)
         /\ Foreseen(call.pc).done = (op = "STOP")
         /\ Foreseen(call.pc).fail = Fails(op)
         /\ op # "STOP" /\ ~Fails(op) =>
              Foreseen(call.pc) = [gas |-> GasLeft(op), depth |-> DepthLeft(op),
                                   stored |-> StoredBy(op, b), done |-> FALSE, fail |-> FALSE]
<1>1. call # Idle /\ call.pc <= Len(call.code)
  BY Zenon DEF Fetched
<1>2. call.code \in Seq(Instruction) /\ call.pc \in Nat \ {0}
  BY <1>1, RunningType, ZenonT(30)
<1>3. Len(call.code) \in Nat
  BY <1>2
<1>4. call.pc \in 1 .. Len(call.code) /\ call.pc \in 0 .. Len(call.code)
  BY <1>1, <1>2, <1>3
<1>5. Foreseen(call.pc) = After(Here(b), op, gas_limit_)
  BY <1>3, <1>4, ForeseenSteps, Zenon
<1> DEFINE stops == op = "STOP"
           fails == Fails(op)
           kept == StoredBy(op, b)
<1>6. Foreseen(call.pc) = [gas |-> GasLeft(op), depth |-> DepthLeft(op), stored |-> kept,
                           done |-> stops, fail |-> fails]
  <2>1. Here(b).gas = gas_used_ /\ Here(b).depth = Len(stack_) /\ Here(b).stored = b
    BY Zenon DEF Here
  <2>2. ~Here(b).done /\ ~Here(b).fail
    BY Zenon DEF Here
  <2> QED BY <1>5, <2>1, <2>2, Zenon DEF After, Fails, GasLeft, DepthLeft, StoredBy, price
<1>7. stops \in BOOLEAN /\ fails \in BOOLEAN /\ kept \in BOOLEAN
  BY Zenon DEF Fails, StoredBy
<1>8. op # "STOP" /\ ~Fails(op) => stops = FALSE /\ fails = FALSE
  BY <1>7, Zenon
<1> HIDE DEF stops, fails, kept
<1>9. /\ Foreseen(call.pc).gas = GasLeft(op) /\ Foreseen(call.pc).depth = DepthLeft(op)
      /\ Foreseen(call.pc).stored = kept
      /\ Foreseen(call.pc).done = stops /\ Foreseen(call.pc).fail = fails
  BY <1>6
<1> QED BY <1>3, <1>4, <1>6, <1>8, <1>9, Zenon DEF stops, fails, kept

\* What a step that ends the call owes.
EndsAsRead ==
  call # Idle /\ call' = Idle =>
    LET end == Reached(call.code, gas_limit_, call.depth, Len(call.code))
    IN  /\ result' = IF end.fail THEN "failure" ELSE "success"
        /\ gas_used_' = end.gas /\ Len(stack_') = end.depth
        /\ \A c \in Contracts :
             storage_'[c] # call.storage[c] => end.stored /\ c = call.address

\* An instruction that the reading fails may only fail, with what the reading
\* says is left.
LEMMA FailsAsRead ==
  ASSUME TypeOK, Predicted, NEW ops, Fetched(ops), NEW op, op = call.code[call.pc].op,
         Fails(op), Return(FALSE), gas_used_' = GasLeft(op), Len(stack_') = DepthLeft(op),
         storage_' = storage_
  PROVE  EndsAsRead /\ Predicted'
<1>0. PICK b \in BOOLEAN : Foreseen(call.pc - 1) = Here(b) /\ Touched(b)
  BY Zenon DEF Predicted, Fetched
<1>1. /\ call.pc \in 0 .. Len(call.code) /\ Len(call.code) \in Nat
      /\ Foreseen(call.pc).fail /\ Foreseen(call.pc).gas = GasLeft(op)
      /\ Foreseen(call.pc).depth = DepthLeft(op) /\ (b => Foreseen(call.pc).stored)
  BY <1>0, ForeseenNext, Zenon DEF StoredBy
<1>2. Foreseen(Len(call.code)) = Foreseen(call.pc)
  BY <1>1, ForeseenSteps, Zenon
<1>3. result' = "failure" /\ call' = Idle
  BY Zenon DEF Return
<1>4. \A c \in Contracts : storage_'[c] # call.storage[c] => b /\ c = call.address
  BY <1>0, Zenon DEF Touched
<1> QED BY <1>1, <1>2, <1>3, <1>4, Zenon DEF EndsAsRead, Predicted, Foreseen

\* One that the reading passes goes on to where the reading is.
LEMMA GoesOnAsRead ==
  ASSUME TypeOK, Predicted, NEW ops \in SUBSET DOMAIN Gas, Charge(ops), gas_limit_' = gas_limit_,
         NEW op, op = call.code[call.pc].op, op # "STOP", ~Fails(op),
         call' = Advance, Len(stack_') = Len(stack_) + Pushes(op) - Pops(op),
         \A c \in Contracts : storage_'[c] # storage_[c] => op = "SSTORE" /\ c = call.address
  PROVE  EndsAsRead /\ Predicted'
<1>0. Fetched(ops) /\ op \in DOMAIN Gas
  BY Zenon DEF Charge, Fetched
<1>1. PICK b \in BOOLEAN : Foreseen(call.pc - 1) = Here(b) /\ Touched(b)
  BY <1>0, Zenon DEF Predicted, Fetched
<1>2. PICK d \in BOOLEAN : d = StoredBy(op, b) /\ (op = "SSTORE" => d) /\ (b => d)
  BY Zenon DEF StoredBy
<1>3. gas_used_' = gas_used_ + Gas[op] /\ price(op) = Gas[op]
  BY <1>0, Zenon DEF Charge, charged, cost, price
<1>4. GasLeft(op) = gas_used_' /\ DepthLeft(op) = Len(stack_')
  BY <1>3, Zenon DEF GasLeft, DepthLeft, Fails
<1>5. call.pc \in 0 .. Len(call.code) /\ Len(call.code) \in Nat
  BY <1>0, <1>1, ForeseenNext, Zenon
<1>6. Foreseen(call.pc) = Here(d)'
  <2>1. Foreseen(call.pc) = [gas |-> GasLeft(op), depth |-> DepthLeft(op), stored |-> StoredBy(op, b),
                             done |-> FALSE, fail |-> FALSE]
    BY <1>0, <1>1, ForeseenNext, Zenon
  <2>2. Here(d)' = [gas |-> gas_used_', depth |-> Len(stack_'), stored |-> StoredBy(op, b),
                    done |-> FALSE, fail |-> FALSE]
    BY <1>2, Zenon DEF Here
  <2> QED BY <1>4, <2>1, <2>2, Zenon
<1>7. /\ call'.code = call.code /\ call'.depth = call.depth /\ call'.pc = call.pc + 1
      /\ call'.storage = call.storage /\ call'.address = call.address /\ call' # Idle
  <2>1. call'.running = "yes" /\ Idle.running = "no" /\ "yes" # "no"
    BY Zenon DEF Advance, Idle
  <2>2. call' # Idle
    BY <2>1, Zenon
  <2> QED BY <2>2, Zenon DEF Advance
<1>8. call'.pc <= Len(call'.code) + 1 /\ call'.pc - 1 = call.pc
  BY <1>5, <1>7
<1>9. \A c \in Contracts : storage_'[c] # call'.storage[c] => d /\ c = call'.address
  BY <1>1, <1>2, <1>7, Zenon DEF Touched
<1>10. Predicted'
  <2>1. Foreseen(call.pc - 1)' = Here(d)' /\ Touched(d)'
    BY <1>6, <1>7, <1>8, <1>9, Zenon DEF Foreseen, Touched
  <2> QED BY <1>8, <2>1, Zenon DEF Predicted
<1> QED BY <1>7, <1>10, Zenon DEF EndsAsRead

\* How many operands each instruction takes and leaves.
LEMMA Operands ==
  /\ \A op \in Plain \cup {"STOP", "PUSH_CUT", "UNKNOWN"} : Pops(op) = 0 /\ Pushes(op) = 0
  /\ \A op \in {"PUSH0", "PUSH1"} : Pops(op) = 0 /\ Pushes(op) = 1
  /\ Pops("SLOAD") = 1 /\ Pushes("SLOAD") = 1
  /\ Pops("SSTORE") = 2 /\ Pushes("SSTORE") = 0
<1>1. ASSUME NEW op \in Plain \cup {"STOP", "PUSH_CUT", "UNKNOWN"}
      PROVE  Pops(op) = 0 /\ Pushes(op) = 0
  <2>1. op \notin {"SLOAD", "SSTORE", "PUSH0", "PUSH1"}
    BY <1>1 DEF Plain
  <2> QED BY <2>1 DEF Pops, Pushes
<1>2. \A op \in {"PUSH0", "PUSH1"} : Pops(op) = 0 /\ Pushes(op) = 1
  BY DEF Pops, Pushes
<1>3. Pops("SLOAD") = 1 /\ Pushes("SLOAD") = 1 /\ Pops("SSTORE") = 2 /\ Pushes("SSTORE") = 0
  BY DEF Pops, Pushes
<1> QED BY <1>1, <1>2, <1>3, Zenon

\* What has been charged for does not fail for want of gas.
LEMMA PaidFor ==
  ASSUME NEW ops \in SUBSET DOMAIN Gas, Charge(ops), NEW op, op = call.code[call.pc].op, TypeOK,
         Fails(op)
  PROVE  \/ op \in {"UNKNOWN", "PUSH_CUT"}
         \/ Len(stack_) < Pops(op)
         \/ Len(stack_) + Pushes(op) - Pops(op) > StackLimit
<1>1. op \in DOMAIN Gas /\ gas_used_ + Gas[op] <= gas_limit_ /\ price(op) = Gas[op]
  BY Zenon DEF Charge, Fetched, affordable, cost, price
<1>2. Gas[op] \in Nat /\ gas_used_ \in Nat /\ gas_limit_ \in Nat
  BY <1>1, GasNat, Zenon DEF TypeOK
<1>3. ~(gas_used_ + Gas[op] > gas_limit_)
  BY <1>1, <1>2
<1> QED BY <1>1, <1>3, Zenon DEF Fails

\* What a failing instruction leaves when it has been charged for.
LEMMA LeftAfterCharge ==
  ASSUME NEW ops \in SUBSET DOMAIN Gas, Charge(ops), NEW op, op = call.code[call.pc].op, TypeOK,
         Fails(op)
  PROVE  /\ gas_used_' = GasLeft(op)
         /\ DepthLeft(op) = IF op = "SSTORE" THEN 0 ELSE Len(stack_)
<1>1. /\ op \in DOMAIN Gas /\ gas_used_ + Gas[op] <= gas_limit_ /\ price(op) = Gas[op]
      /\ gas_used_' = gas_used_ + Gas[op]
  BY Zenon DEF Charge, Fetched, affordable, charged, cost, price
<1>2. Gas[op] \in Nat /\ gas_used_ \in Nat /\ gas_limit_ \in Nat
  BY <1>1, GasNat, Zenon DEF TypeOK
<1>3. ~(gas_used_ + Gas[op] > gas_limit_)
  BY <1>1, <1>2
<1> QED BY <1>1, <1>3, Zenon DEF GasLeft, DepthLeft

\* The loop of execute_contract follows the reading, and returns what it says.
LEMMA StepAsRead ==
  ASSUME TypeOK, Predicted, Step
  PROVE  EndsAsRead /\ Predicted'
<1> DEFINE op == call.code[call.pc].op
<1>0. gas_limit_' = gas_limit_ /\ Len(stack_) \in Nat /\ Len(stack_) <= StackLimit /\ StackLimit \in Nat
  BY EVMAssumption DEF Step, TypeOK
<1>1. CASE OutOfGas
  <2>1. /\ Fetched(DOMAIN Gas) /\ ~affordable(cost) /\ Return(FALSE)
        /\ gas_used_' = gas_used_ /\ stack_' = stack_ /\ storage_' = storage_
    BY <1>1, Zenon DEF OutOfGas, charged
  <2>2. op \in DOMAIN Gas /\ ~(gas_used_ + Gas[op] <= gas_limit_)
    BY <2>1, Zenon DEF Fetched, affordable, cost
  <2>3. Gas[op] \in Nat /\ gas_used_ \in Nat /\ gas_limit_ \in Nat
    BY <2>2, GasNat, Zenon DEF TypeOK
  <2> HIDE DEF op
  <2>4. gas_used_ + Gas[op] > gas_limit_
    BY <2>2, <2>3
  <2>5. gas_used_ + price(op) > gas_limit_
    BY <2>2, <2>4, Zenon DEF price
  <2>6. Fails(op) /\ GasLeft(op) = gas_used_ /\ DepthLeft(op) = Len(stack_)
    BY <2>5, Zenon DEF Fails, GasLeft, DepthLeft
  <2> QED BY <2>1, <2>6, FailsAsRead, Zenon DEF op
<1>2. CASE Stop
  <2>1. Charge({"STOP"}) /\ Return(TRUE) /\ stack_' = stack_ /\ storage_' = storage_
    BY <1>2, Zenon DEF Stop
  <2>2. op = "STOP" /\ Fetched({"STOP"}) /\ {"STOP"} \in SUBSET DOMAIN Gas
    <3>1. {"STOP"} \in SUBSET DOMAIN Gas
      BY GasTable, Zenon
    <3> QED BY <2>1, <3>1, Zenon DEF Charge, Fetched
  <2>3. Pops(op) = 0 /\ Pushes(op) = 0
    BY <2>2, Operands, Zenon
  <2>4. ~(op \in {"UNKNOWN", "PUSH_CUT"})
    BY <2>2
  <2>5. Len(stack_) + Pushes(op) - Pops(op) = Len(stack_) /\ ~(Len(stack_) < 0) /\ ~(Len(stack_) > StackLimit)
    <3> HIDE DEF op
    <3> QED BY <1>0, <2>3
  <2>6. ~Fails(op)
    BY <2>1, <2>2, <2>3, <2>4, <2>5, PaidFor, Zenon
  <2>7. gas_used_' = gas_used_ + Gas[op] /\ price(op) = Gas[op]
    BY <2>1, <2>2, Zenon DEF Charge, charged, cost, price
  <2>8. GasLeft(op) = gas_used_' /\ DepthLeft(op) = Len(stack_')
    BY <2>1, <2>5, <2>6, <2>7, Zenon DEF GasLeft, DepthLeft, Fails
  <2>9. PICK b \in BOOLEAN : Foreseen(call.pc - 1) = Here(b) /\ Touched(b)
    BY <2>2, Zenon DEF Predicted, Fetched
  <2>10. /\ call.pc \in 0 .. Len(call.code) /\ Len(call.code) \in Nat
         /\ Foreseen(call.pc).gas = GasLeft(op) /\ Foreseen(call.pc).depth = DepthLeft(op)
         /\ Foreseen(call.pc).done /\ ~Foreseen(call.pc).fail /\ (b => Foreseen(call.pc).stored)
    BY <2>2, <2>6, <2>9, ForeseenNext, Zenon DEF StoredBy
  <2>11. Foreseen(Len(call.code)) = Foreseen(call.pc)
    BY <2>10, ForeseenSteps, Zenon
  <2>12. result' = "success" /\ call' = Idle
    BY <2>1, Zenon DEF Return
  <2>13. \A c \in Contracts : storage_'[c] # call.storage[c] => b /\ c = call.address
    BY <2>1, <2>9, Zenon DEF Touched
  <2> QED BY <2>8, <2>10, <2>11, <2>12, <2>13, Zenon DEF EndsAsRead, Predicted, Foreseen
<1>3. CASE PayOnly
  <2>1. /\ Charge(Plain) /\ call' = Advance /\ stack_' = stack_ /\ storage_' = storage_
        /\ Plain \in SUBSET DOMAIN Gas
    BY <1>3, Zenon DEF PayOnly, Plain
  <2>2. op \in Plain
    BY <2>1, Zenon DEF Charge, Fetched
  <2>3. op # "STOP" /\ op \notin {"UNKNOWN", "PUSH_CUT"}
    <3>1. "UNKNOWN" \notin DOMAIN Gas
      BY GasTable, Zenon
    <3> QED BY <2>2, <3>1, Zenon DEF Plain
  <2>4. Pops(op) = 0 /\ Pushes(op) = 0
    BY <2>2, Operands, Zenon
  <2> HIDE DEF op
  <2>5. Len(stack_) + Pushes(op) - Pops(op) = Len(stack_) /\ ~(Len(stack_) < 0) /\ ~(Len(stack_) > StackLimit)
    BY <1>0, <2>4
  <2>6. ~Fails(op)
    BY <2>1, <2>3, <2>4, <2>5, PaidFor, Zenon DEF op
  <2> QED BY <1>0, <2>1, <2>3, <2>5, <2>6, GoesOnAsRead, Zenon DEF op
<1>4. CASE Push
  <2> DEFINE ops == {"PUSH0", "PUSH1", "PUSH_CUT"}
  <2>1. Charge(ops) /\ ops \in SUBSET DOMAIN Gas
    <3>1. ops \in SUBSET DOMAIN Gas
      BY GasTable, Zenon
    <3> QED BY <1>4, <3>1, Zenon DEF Push
  <2>2. op \in ops /\ Fetched(ops)
    BY <2>1, Zenon DEF Charge, Fetched
  <2>3. CASE ~room \/ op = "PUSH_CUT"
    <3>1. Return(FALSE) /\ stack_' = stack_ /\ storage_' = storage_
      BY <1>4, <2>3, Zenon DEF Push, Throw
    <3>2. Fails(op)
      <4>1. CASE op = "PUSH_CUT"
        BY <4>1, Zenon DEF Fails
      <4>2. CASE ~room /\ op # "PUSH_CUT"
        <5>1. Pops(op) = 0 /\ Pushes(op) = 1
          BY <2>2, <4>2, Operands, Zenon
        <5> HIDE DEF op
        <5>2. Len(stack_) + Pushes(op) - Pops(op) > StackLimit
          BY <1>0, <4>2, <5>1 DEF room
        <5> QED BY <5>2, Zenon DEF Fails
      <4> QED BY <2>3, <4>1, <4>2, Zenon
    <3>3. gas_used_' = GasLeft(op) /\ DepthLeft(op) = Len(stack_)
      <4>1. op # "SSTORE"
        BY <2>2, Zenon
      <4> QED BY <2>1, <3>2, <4>1, LeftAfterCharge, Zenon
    <3> QED BY <2>2, <3>1, <3>2, <3>3, FailsAsRead, Zenon
  <2>4. CASE room /\ op # "PUSH_CUT"
    <3> DEFINE item == IF op = "PUSH0" THEN 0 ELSE call.code[call.pc].arg
    <3>1. stack_' = Append(stack_, item) /\ call' = Advance /\ storage_' = storage_
      BY <1>4, <2>4, Zenon DEF Push
    <3>2. item \in Words
      BY <2>2, FetchedType, EVMAssumption, Zenon
    <3> HIDE DEF item
    <3>3. Len(stack_') = Len(stack_) + 1
      BY <3>1, <3>2, StackTypes, Zenon
    <3>4. Pops(op) = 0 /\ Pushes(op) = 1 /\ op # "STOP" /\ op \notin {"UNKNOWN", "PUSH_CUT"}
      BY <2>2, <2>4, Operands, Zenon
    <3> HIDE DEF op
    <3>5. /\ Len(stack_) + Pushes(op) - Pops(op) = Len(stack_) + 1
          /\ ~(Len(stack_) < 0) /\ ~(Len(stack_) + 1 > StackLimit)
      BY <1>0, <2>4, <3>4 DEF room
    <3>6. ~Fails(op)
      BY <2>1, <3>4, <3>5, PaidFor, Zenon DEF op
    <3> QED BY <1>0, <2>1, <3>1, <3>3, <3>4, <3>5, <3>6, GoesOnAsRead, Zenon DEF op
  <2> QED BY <2>3, <2>4, Zenon
<1>5. CASE Sload
  <2>1. Charge({"SLOAD"}) /\ {"SLOAD"} \in SUBSET DOMAIN Gas
    <3>1. {"SLOAD"} \in SUBSET DOMAIN Gas
      BY GasTable, Zenon
    <3> QED BY <1>5, <3>1, Zenon DEF Sload
  <2>2. op = "SLOAD" /\ Fetched({"SLOAD"})
    BY <2>1, Zenon DEF Charge, Fetched
  <2>3. Pops(op) = 1 /\ Pushes(op) = 1 /\ op # "STOP" /\ op \notin {"UNKNOWN", "PUSH_CUT"}
    BY <2>2, Operands, Zenon
  <2>4. CASE stack_ = <<>>
    <3>1. Return(FALSE) /\ stack_' = stack_ /\ storage_' = storage_
      BY <1>5, <2>4, Zenon DEF Sload, Throw
    <3> HIDE DEF op
    <3>2. Len(stack_) < Pops(op)
      BY <2>3, <2>4
    <3>3. Fails(op)
      BY <3>2, Zenon DEF Fails
    <3>4. gas_used_' = GasLeft(op) /\ DepthLeft(op) = Len(stack_)
      <4>1. op # "SSTORE"
        BY <2>2, Zenon DEF op
      <4> QED BY <2>1, <3>3, <4>1, LeftAfterCharge, Zenon DEF op
    <3> QED BY <2>2, <3>1, <3>3, <3>4, FailsAsRead, Zenon DEF op
  <2>5. CASE stack_ # <<>>
    <3>1. /\ stack_' = Append(below(1), storage_[call.address][top])
          /\ call' = Advance /\ storage_' = storage_
      BY <1>5, <2>5, Zenon DEF Sload
    <3>2. Len(stack_) > 0
      BY <2>5, StackTypes, Zenon
    <3>3. 1 \in 0 .. Len(stack_)
      BY <1>0, <3>2
    <3>4. below(1) \in Seq(Words) /\ Len(below(1)) = Len(stack_) - 1
      BY <3>3, StackTypes, Zenon
    <3>5. Len(stack_') = Len(stack_)
      <4> DEFINE v == storage_[call.address][top]
      <4>1. stack_' = Append(below(1), v)
        BY <3>1, Zenon
      <4> HIDE DEF v
      <4> QED BY <1>0, <3>4, <4>1
    <3> HIDE DEF op
    <3>6. /\ Len(stack_) + Pushes(op) - Pops(op) = Len(stack_)
          /\ ~(Len(stack_) < 1) /\ ~(Len(stack_) > StackLimit)
      BY <1>0, <2>3, <3>2
    <3>7. ~Fails(op)
      BY <2>1, <2>3, <3>6, PaidFor, Zenon DEF op
    <3> QED BY <1>0, <2>1, <2>3, <3>1, <3>5, <3>6, <3>7, GoesOnAsRead, Zenon DEF op
  <2> QED BY <2>4, <2>5, Zenon
<1>6. CASE Sstore
  <2>1. Charge({"SSTORE"}) /\ {"SSTORE"} \in SUBSET DOMAIN Gas
    <3>1. {"SSTORE"} \in SUBSET DOMAIN Gas
      BY GasTable, Zenon
    <3> QED BY <1>6, <3>1, Zenon DEF Sstore
  <2>2. op = "SSTORE" /\ Fetched({"SSTORE"})
    BY <2>1, Zenon DEF Charge, Fetched
  <2>3. Pops(op) = 2 /\ Pushes(op) = 0 /\ op # "STOP" /\ op \notin {"UNKNOWN", "PUSH_CUT"}
    BY <2>2, Operands, Zenon
  <2>4. CASE Len(stack_) < 2
    <3>1. Return(FALSE) /\ stack_' = <<>> /\ storage_' = storage_
      BY <1>6, <2>4, Zenon DEF Sstore
    <3>2. Fails(op)
      BY <2>3, <2>4, Zenon DEF Fails
    <3>3. Len(stack_') = 0
      BY <3>1
    <3>4. gas_used_' = GasLeft(op) /\ DepthLeft(op) = 0
      BY <2>1, <2>2, <3>2, LeftAfterCharge, Zenon
    <3> QED BY <2>2, <3>1, <3>2, <3>3, <3>4, FailsAsRead, Zenon
  <2>5. CASE ~(Len(stack_) < 2)
    <3>1. stack_' = below(2) /\ call' = Advance
      BY <1>6, <2>5, Zenon DEF Sstore
    <3>2. 2 \in 0 .. Len(stack_)
      BY <1>0, <2>5
    <3>3. Len(stack_') = Len(stack_) - 2
      BY <3>1, <3>2, StackTypes, Zenon
    <3> HIDE DEF op
    <3>4. Len(stack_) + Pushes(op) - Pops(op) = Len(stack_) - 2 /\ ~(Len(stack_) - 2 > StackLimit)
      BY <1>0, <2>3
    <3>5. ~Fails(op)
      BY <2>1, <2>3, <2>5, <3>4, PaidFor, Zenon DEF op
    <3>6. \A c \in Contracts : storage_'[c] # storage_[c] => op = "SSTORE" /\ c = call.address
      <4>1. storage_' = store(call.address, stack_[Len(stack_) - 1], top)
        BY <1>6, <2>5, Zenon DEF Sstore
      <4>2. stack_[Len(stack_) - 1] \in Words /\ top \in Words
        BY <2>5 DEF TypeOK, top
      <4>3. call.address \in Contracts
        BY <2>2, RunningType, Zenon DEF Fetched
      <4>4. \A c \in Contracts \ {call.address} : storage_'[c] = storage_[c]
        <5> DEFINE k == stack_[Len(stack_) - 1]
        <5>1. storage_' = store(call.address, k, top) /\ k \in Words
          BY <4>1, <4>2, Zenon
        <5> HIDE DEF k
        <5>2. \A d \in Contracts \ {call.address} : store(call.address, k, top)[d] = storage_[d]
          BY <4>2, <4>3, <5>1, StoreType, SMTT(30)
        <5> QED BY <5>1, <5>2, Zenon
      <4> QED BY <2>2, <4>4, Zenon DEF op
    <3> QED BY <1>0, <2>1, <2>3, <3>1, <3>3, <3>4, <3>5, <3>6, GoesOnAsRead, Zenon DEF op
  <2> QED BY <2>4, <2>5, Zenon
<1>7. CASE Unknown
  <2>1. /\ Fetched({"UNKNOWN"}) /\ Return(FALSE) /\ op = "UNKNOWN"
        /\ stack_' = stack_ /\ storage_' = storage_ /\ gas_used_' = gas_used_
    BY <1>7, Zenon DEF Unknown, Fetched
  <2>2. Fails(op)
    BY <2>1, Zenon DEF Fails
  <2>3. price(op) = 0 /\ op # "SSTORE"
    BY <2>1, GasTable, Zenon DEF price
  <2>4. gas_used_ + 0 = gas_used_
    BY DEF TypeOK
  <2>5. GasLeft(op) = gas_used_ /\ DepthLeft(op) = Len(stack_)
    BY <2>2, <2>3, <2>4, Zenon DEF GasLeft, DepthLeft
  <2> QED BY <2>1, <2>2, <2>5, FailsAsRead, Zenon
<1>8. CASE EndOfCode
  <2>1. /\ call # Idle /\ call.pc > Len(call.code) /\ result' = "success" /\ call' = Idle
        /\ stack_' = stack_ /\ gas_used_' = gas_used_ /\ storage_' = storage_
    BY <1>8, Zenon DEF EndOfCode, Return
  <2>2. call.pc \in Nat /\ Len(call.code) \in Nat
    BY <2>1, RunningType
  <2>3. call.pc <= Len(call.code) + 1
    BY <2>1, Zenon DEF Predicted
  <2>4. call.pc - 1 = Len(call.code)
    BY <2>1, <2>2, <2>3
  <2>5. PICK b \in BOOLEAN : Foreseen(call.pc - 1) = Here(b) /\ Touched(b)
    BY <2>1, Zenon DEF Predicted
  <2>6. Reached(call.code, gas_limit_, call.depth, Len(call.code)) = Here(b)
    BY <2>4, <2>5, Zenon DEF Foreseen
  <2>7. Here(b).gas = gas_used_ /\ Here(b).depth = Len(stack_) /\ Here(b).stored = b /\ ~Here(b).fail
    BY Zenon DEF Here
  <2>8. \A c \in Contracts : storage_'[c] # call.storage[c] => b /\ c = call.address
    BY <2>1, <2>5, Zenon DEF Touched
  <2> QED BY <2>1, <2>6, <2>7, <2>8, Zenon DEF EndsAsRead, Predicted
<1> QED BY <1>1, <1>2, <1>3, <1>4, <1>5, <1>6, <1>7, <1>8, Zenon DEF Step

\* So does every other step: a call starts where the reading does.
LEMMA NextAsRead ==
  ASSUME TypeOK, Predicted, [Next]_vars
  PROVE  [EndsAsRead]_vars /\ Predicted'
<1>1. CASE Step
  BY <1>1, StepAsRead, Zenon
<1>2. ASSUME NEW c \in Contracts, NEW code \in Programs, NEW limit \in Limits,
             execute_contract(c, code, limit)
      PROVE  EndsAsRead /\ Predicted'
  <2>1. /\ call = Idle /\ gas_used_' = 0 /\ gas_limit_' = limit /\ stack_' = stack_
        /\ storage_' = storage_
        /\ call' = [running |-> "yes", address |-> c, code |-> code, pc |-> 1, depth |-> Len(stack_),
                    storage |-> storage_]
    BY <1>2, Zenon DEF execute_contract
  <2>2. call'.code = code /\ call'.pc = 1 /\ call'.depth = Len(stack_) /\ call'.storage = storage_
    BY <2>1, Zenon
  <2>3. code \in Seq(Instruction)
    BY EVMAssumption, Zenon
  <2>4. Len(code) \in Nat /\ 1 <= Len(code) + 1 /\ 1 - 1 = 0
    BY <2>3
  <2>5. Reached(code, limit, Len(stack_), 0) = Here(FALSE)'
    BY <2>1, <2>4, ReachedSteps, Zenon DEF Here, Entered
  <2>6. call'.pc - 1 = 0 /\ call'.pc <= Len(call'.code) + 1
    BY <2>2, <2>4, Zenon
  <2>7. Foreseen(call.pc - 1)' = Here(FALSE)' /\ Touched(FALSE)'
    BY <2>1, <2>2, <2>5, <2>6, Zenon DEF Foreseen, Touched
  <2>8. Predicted'
    BY <2>6, <2>7, Zenon DEF Predicted
  <2> QED BY <2>1, <2>8, Zenon DEF EndsAsRead
<1>3. CASE \E from, to \in Accounts, v \in Values : execute(from, to, v)
  <2>1. call = Idle /\ call' = call
    BY <1>3, Zenon DEF execute
  <2> QED BY <2>1, Zenon DEF EndsAsRead, Predicted
<1>4. CASE UNCHANGED vars
  BY <1>4, Zenon DEF vars, Predicted, Here, Foreseen, Touched
<1> QED BY <1>1, <1>2, <1>3, <1>4, Zenon DEF Next

\* For every program, gas limit and depth of the inherited stack, and every stack
\* limit, execute_contract succeeds exactly when the reading of the program
\* says so, and leaves, also when it fails, the gas, the depth and the storage of
\* other contracts as it says.
THEOREM OutcomeAsRead == Spec => OutcomeDetermined
<1>1. Init => Predicted
  BY Zenon DEF Init, Predicted
<1>2. TypeOK /\ Predicted /\ [Next]_vars => [EndsAsRead]_vars /\ Predicted'
  BY NextAsRead, Zenon
<1>3. Spec => [][EndsAsRead]_vars
  BY <1>1, <1>2, StackBounded, PTL DEF Spec
<1> QED BY <1>3 DEF EndsAsRead, OutcomeDetermined
=============================================================================
