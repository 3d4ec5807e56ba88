# QUIDS: a TLA+ verification project

QUIDS is a C++ rollup node (with a Solidity token contract) that consists of
components with little coupling. This project models the ones that hold shared
state, run threads or move money, checks them with TLC on small instances, and
proves the main safety properties with TLAPS for every value of the constants.
Paths below are relative to the repository. `PROJECT.json` maps every definition
to the lines it models.

## 1. The system and its parts

| Part | State and operations | What is hard about it | Module |
|---|---|---|---|
| Transaction ingress, `src/rollup/RollupTransactionAPI.cpp` | a batch queue under a mutex and a condition variable; submit, start, stop, destroy, worker threads | a stop flag written outside the mutex, a limit tested in one critical section and used in another | `RollupTransactionAPI` |
| Account state, `src/rollup/StateManager.cpp` | accounts, roots and history under a `shared_mutex`; account updates, verification, application, commit, rollback | methods that lock again what their thread already holds | `StateManager` |
| Lock-free queue, `include/utils/LockFreeQueue.hpp` | a linked list, three atomics | every interleaving of its loads and compare-and-swaps, immediate reclamation | `LockFreeQueue` |
| Token and bridge, `contracts/Quids.sol` | balances, supply, nonces, used signatures, one deployment per chain | a relayer that repeats and reorders, pausing between the two halves of a transfer | `Quids` |
| Peer node, `src/network/P2PNode.cpp` | a socket, connections, three threads | two readers of one socket, joining threads blocked in it | `P2PNode` |
| Node, controller, command line, `src/node`, `src/control`, `src/cli` | who owns a peer node | starts that fail half-way with threads running, restarts, destruction | `NodeLifecycle` |
| Batch proof consensus, `src/consensus/POBPC.cpp` | a pool, witnesses, signatures per proof | duplicated votes, a moving average against a threshold, the pool's limit | `POBPC` |
| Contract executor, `src/evm/EVMExecutor.cpp`, `Stack.cpp`, `Storage.cpp` | stack, storage, gas, balances | one stack for all calls, no rollback, limits | `EVMExecutor` |
| Network layer, `src/network/P2PNetwork.cpp` | a flag, the main connection, detached discovery threads | the flag is under no mutex, a mutex is held through a sleep of 30 seconds | `P2PNetwork` |
| Port mapping, `src/network/NATPMP.cpp` | what the client believes of its mapping, what the gateway holds | late and lost datagrams, a timer nobody runs, a lifetime cut to 16 bits | `NATPMP` |
| Batch processor, `src/rollup/BatchProcessor.cpp` | a queue, worker threads, over a `StateManager` | a missed notification, a call that throws or never returns inside a worker | `BatchProcessor` |
| Accounts; chain and block producers; parallel processor, state transitions, fraud proofs, exits, rollup bridges; optimised consensus and network layers; hash table; quantum simulation; learning; cryptography; HTTP | | | not modelled, section 5 |

How they interact: the command line owns a `QuidsControl`, which owns a
`QuidsNode`, which brings up a `P2PNode`: `NodeLifecycle` extends `P2PNode` and adds its
owners. Clients reach the rollup through `RollupTransactionAPI`; its workers validate the batches and keep metrics, and do
not call `StateManager`. The workers of `BatchProcessor` do: that module extends
`StateManager`, and its workers are clients of it beside any others.
`P2PNetwork::connect_to_peer` and `P2PNode` ask the gateway for a mapping, which each
takes as a choice of outcome; `NATPMP` models the mapping itself. `OptimizedPOBPC` and
the optimised network layer use `LockFreeQueue`.
`EVMExecutor` is called by the chain and the parallel processor. The build
(`src/CMakeLists.txt`) leaves out `network`, `consensus`, `node`, `core`, `api`
and `rl`; they are modelled from their source nevertheless.

`PROJECT.json` lists every part, the ones that are left out with the reason, and
the hazards of each at the line where they bite.

## 2. Modules, state and actions

A module names its variables and actions after the members and methods of its
class. Small operators such as `full`, `affordable` or `wait_predicate` stand for
one condition or assignment each. The operator in front of one, with the comment
`Mutant`, is a plausible wrong version of it: used in its place, TLC finds the
property violated that the mutant is for. No specification uses a mutant.

**RollupTransactionAPI.** One step per critical section, except that a worker's
wait is split where the mutex is released: `EvaluatePredicate`, `Block`,
`TakeBatch`. `stop_processing` and the destructor set the flag in one step and
notify in another (`NotifyAll`), as the code does outside the mutex. A worker that
takes the front of an empty queue is in undefined behaviour and stays in
`"undefined"`. A transaction is a Boolean: whether it passes the field checks. A
client's and a worker's locals are reset when they are dead. Metrics are left out.

**StateManager.** Each thread's call goes through the lock: `Call`, `QueueWriter`
(a writer waits), `LockShared`, then the operation. A second lock by the same thread is a
step of its own (`LockNested`, `VerifyNext`, `Relock`), since something may queue in
between. `build` is chosen in `Init`: the standard leaves a second lock by the same thread
undefined, libstdc++ (Linux) throws when the first was exclusive and prefers readers, libc++
(macOS) blocks and keeps new readers out once a writer waits. So `apply_transaction` and
`revert_transaction` never get past their first `get_account` in either build, and what
follows it there has no action. A root is the injective image of the serialized accounts,
the storage in the iteration order of the hash map. `uint64_t` wraps at `W`.

**LockFreeQueue.** One step per atomic access, over a heap of cells that `new` may
hand out again. Following a pointer to a deleted cell ends in `"undefined"`. `usage`
is how the callers share the queue; the code does not say which uses it supports.

With one producer beside one consumer, or several producers before one consumer, it is
a queue. With several consumers only its size is right. In the usage `"weak"`
`compare_exchange_weak` fails spuriously, as it may on ARM: `pop` has then moved the
item out already and loses it, and what is left to check is that no deleted cell is
followed and that the size is right.

**FifoQueue** is what callers of a queue expect: every push and pop takes effect in one
step between call and return. `LockFreeQueue!ImplementsFifoQueue` is the refinement: the
abstract queue is the list of items behind the dummy node (an item that a consumer
moved out and has not claimed counts as still there); a push takes effect when its node
is linked, a pop when it moves `head_`, and a pop that finds nothing when it reads the
null pointer of the last node.

**Quids.** A blockchain transaction is atomic, so every external function is one
action with its requires as guards. ERC20's `_mint`, `_burn` and `transfer` and the
relayer are external: they are modelled from how the contract uses them. Roles are
left out: callers are the role holders. `TokensBridged` carries no nonce, and
`bridgeReceive` asks for one: the relayer is taken to know which nonce the source gave a
transfer, from `chainBridges` or by counting the events. Were it wrong about that, the
contract could not tell. `bridgeTo` accepts any recipient; a transfer to the zero address is
burned, and `_mint` reverts for it ever after, so it stays in flight.

**P2PNode.** `Loop`, `Call`, `Receive`, `Register` are the readers' steps; the owner's
`stop` is a sequence of five (flag, close, three joins). A `start` may fail with the socket
bound and one or two threads made. `close_wakes`, chosen in `Init`, is whether closing a
socket wakes a thread blocked in it: on Linux it does not. `P2PConnection` never sets
`connected_`, so a connection is its key, and every round of `manage_connections` erases all
of them. `register_message_handler` has no definition in the repository; a handler is
registered before `start`, or not at all.

**NodeLifecycle** composes it with its owners: a program, a controller, or the command
`quids start`, whose node is a local variable and is destroyed when `start` returns. A
`QuidsNode` constructs its `P2PNode` in `start` (`StartNetwork`, `AddPeers`) and leaves it
running until it is destroyed itself (`StopNetwork`, `Destroyed`). Each command of the
command line runs in a process of its own, so `quids stop` never finds the node that
`quids start` created.

**POBPC.** The reliability score, a `double` in the code, is kept in units of 1/`Scale`: up
to eight updates divide without remainder, later ones are cut off downwards. The rounding
of the `double` is not modelled; it is far smaller than the distance between the threshold
and the nearest score that six failures can lead to. Hashes and quantum proofs are left out,
except that a vote carries a signature of the proof it is for, or not. `submitWitnessVote`
appends to a vector of a `const` reference, which no compiler accepts: the model does what
the statement asks for.

**EVMExecutor.** One step per instruction, with one opcode for each case of the switch;
a `PUSHn` and its bytes are one instruction, or the instruction `PUSH_CUT` when the
bytes run past the end. Jumps, `RETURN` and `REVERT` only pay for themselves, as in the
code. A failure keeps the stack, the storage and the gas. `call` also remembers the depth
of the stack and the storage the call found.

**P2PNetwork.** A step per read or write of `running` and per critical section. `rest`
is what `start` has left of its bootstrap nodes; with a node in hand it is inside
`connect_to_peer`. `connected_peers` and the handlers are never read and are left out,
but not the locks taken around them. Two unprotected `push_back`s that overlap can end
in `"undefined"`. `register_message_handler` waits for `connections_mutex` with
`handlers_mutex` held (`LockHandlers`, `Install`).

**NATPMP.** A call is split at `receive_from`. Gateway, network and clocks are external:
`Serve` grants a lifetime up to the one asked for or refuses, `LoseRequest` and
`LoseReply` lose, `Tick` is a second. `Rejected` is any answer `map_port` turns down: cut
short, of the wrong version or opcode, or with a result code; the gateway may have served
the request all the same, and `unheard` remembers that it has. After a loss the client stays
in `receive_from` for good: the timer belongs to an `io_context` that nobody runs. A gateway
that restarts, which the `epoch` of an answer would show, is not modelled: the code ignores that field.

**BatchProcessor** extends `StateManager`. A worker's `wait_for` is split where the mutex
is released (`TestPredicate`, `Wait`, `TimeOut`, `TakeLate`); `ApplyNext` enters
`apply_transaction` of the state manager as a client. An exception in a worker is the
end of the process (`terminated`). A spurious wake-up only repeats the test and is left
out.

## 3. Runs

| Run | Instance | What it shows |
|---|---|---|
| `txapi` | 2 submitters, 2 workers, queue limit 1, 3 submissions | accepted batches are conserved in order; the limit is overrun by at most one batch per further submitter; the front of an empty queue is read only after a restart undid a stop; a queued batch is taken while nobody stops the workers; the destructor returns if no worker stood between its check and its sleep |
| `state` | 2 threads, 2 accounts, both builds, 3 calls and any number of verifications, `W` = 2 | history is the most recent suffix; on Linux the only call that may not return is a writer's while others verify again and again; on macOS the first applied transaction, or a writer that queues behind a nested reader, freezes the ledger for good |
| `lfq` | 2 producers, 2 consumers, 3 cells, 2 items, four usages | it implements `FifoQueue`, no deleted cell is followed, everything linked is delivered; the size is right at rest even when consumers race |
| `quids_bridge` | 2 chains, 2 accounts, 2 valid and 1 invalid signature, 2 transfers | minted at most once, a nonce refused only once its transfer is minted, conservation over chains, each growth of supply consumes a fresh signature |
| `node` | a peer node owned by a program, a controller or a command; 1 peer, 1 client, 2 datagrams, 3 configurations, 3 commands, both kinds of `close` | the handler is done when `stop` returns; no thread and no connection outlives its node; a failed start blocks its controller until destruction; `stop` returns unless a reader waits in a closed socket that wakes nobody |
| `pobpc` | 2 nodes, pool of 1, 2 batches, 7 votes | each accepted transaction is in exactly one batch; exclusion takes seven failures; a quorum is of votes whose signatures are of that very proof |
| `pobpc_majority` | 3 nodes, 4 votes | **violated**: a quorum is of two thirds of the witnesses |
| `evm` | 2 contracts, 10 programs, 4 gas limits, stack of 3, 4 calls | gas within the call's own limit; how a call ends and what it leaves, when it fails too, is what a static reading of the program predicts |
| `network` | 3 callers, 2 bootstrap nodes, 5 calls | a network left running has a live discovery thread; only such a thread can keep a call waiting for ever; they all end once the network stays stopped |
| `nat` | `W16` = 8, lifetimes 5, 8 and 9, any number of calls | what the client believes fresh is leased; a live lease is cut short only on purpose, or by a lifetime that did not fit |
| `batch` | 2 workers and 1 client, both builds, batches of 2, 3 submissions | a submitted transaction is taken into a batch; the destructor returns though a worker misses the notification; both unless a batch in hand ends the process, wedges the state manager or waits for readers for ever |
| `batch_continues` | the same | **violated**: a batch is worked off even if one of its transactions fails |

Some of these properties hold only with an exception that the code makes necessary, and
state it: `EmptyPopNeedsRestart` says nothing once a restart has undone a stop;
`DestructorReturns` of `txapi` excuses a worker between its check and its sleep, since
`stop_processing` sets its flag outside the mutex and that worker misses the notification;
`lfq` checks the queue only in the usages it supports; `FreshMeansLeased` allows an answer a
quarter of the lifetime and no rejected answer that was served; `CutShortOnPurpose` excuses
truncation; `StopReturns`, `OnlyReadersStarve`, `OnlyDiscoveryStarves` and both properties
of `batch` name who may keep a call waiting. In each, dropping the exception makes TLC find
a violation.

**Where the code and its documents disagree.** Two runs are findings. `pobpc_majority`:
`include/consensus/POBPC.hpp:21` calls the threshold a "2/3 majority", and one witness
voting often enough reaches it. `batch_continues`: `src/rollup/BatchProcessor.cpp:55` says
"we continue processing the batch even if one transaction fails", and `apply_transaction`
ends the process or never returns; `tests/rollup/RollupTests.cpp:203` asserts that it
returns true. The others follow from a statement or two, are modelled as the code has them,
and have no run of their own:

| Document | It says | The code |
|---|---|---|
| `src/network/P2PNetwork.cpp:235`, `docs/P2P.md:24,66-71` | `start` connects to the bootstrap nodes | it does so before it sets `running`, and `connect_to_peer` refuses until then, unless another call overlaps; `add_bootstrap_peer` and `discover_peers` of `P2PNode` have no definition |
| `src/network/NATPMP.cpp:80-89` | a timer ends the wait for an answer | nobody runs its `io_context`; after a loss the call never returns |
| `src/network/NATPMP.cpp:162` | a refresh asks for the same lifetime | it asks for what 16 bits kept of it |
| `src/rollup/StateManager.cpp:34` | the root is deterministic | accounts are sorted, their storage is hashed in iteration order |
| `docs/P2P.md:34` | a maximum of connections | `validate_peer`, which tests it, is never called |
| `docs/P2P.md:38`, `tests/network/P2PConnectionTests.cpp` | a connection times out after 60 seconds, is connected, is notified of a disconnection | `connected_` is never set: every connection is erased in the next round |
| `docs/P2P.md:74-82` | the handler gets the messages | two threads read one socket, and the accept thread drops what it reads |
| `docs/P2P.md:135-137` | public methods and message queues are thread-safe | two `connect_to_peer` race on a vector; the lock-free queue needs one consumer and no second producer beside it |
| `docs/evm_flow.md:127,135` | a failed update is reverted | nothing is rolled back |
| `tests/evm/EVMExecutorTest.cpp:99-110` | one JUMPDEST runs out of 100 gas | it succeeds with 1 gas used: jumps do not loop |
| `README.md:67` | `./quids stop` stops the node | it asks a new controller, which has none, and exits with 1 |

**Bounds.** Every bound is a constant named `Max...`. They are chosen so that each
limit is met and passed: the queue limit is 1 with two submitters, histories hold one
entry, the pool one transaction, the EVM stack three items with four calls that each
may leave one, seven votes are what exclusion takes. `W` stands for 2^64 and is small
so that wrapping happens; `W16` stands for 2^16, and the lifetimes are one below it, one
that truncates to 0 and one that truncates to 1. `Cap` is not a bound on behaviours:
durations past it are not told apart, and every lifetime the client can store is below
it. Two transfers are enough for one to overtake the other on a bridge, for two bridges in
opposite directions, and for a repeated one beside another. Three callers allow a start, a
stop and a call caught between them. Cells of the lock-free queue are fewer than the nodes
allocated over time, so that cells are reused. Symmetry is used only without liveness.

**Deadlock** is checked for `quids_bridge` and `nat`. The other systems stop when the bound
on calls is used up, when the object was destroyed, or in undefined behaviour.

**Fairness** is weak and covers only steps that a preemptive scheduler gives to a
runnable thread: a worker's or reader's next step, a client inside a call, the owner
inside `stop`, a discovery thread, a batch worker with its timed
wait. Sleeps and timed waits end. No client has to call, no owner to stop, no
datagram to arrive, no wake-up to be spurious. No lock is assumed fair.

## 4. Proofs

Eight modules hold theorems. Components that share an argument or are small share a
module; a specification that shares one with another has names of its own for `Init`,
`Next` and `vars` (`ApiSpec`, `NodeSpec`, `ConsensusSpec`, `MappingSpec`).

| Module | Theorem | Statement |
|---|---|---|
| `TransactionProofs` (transaction API, executor) | `QueueInvariance` | the inductive invariant below always holds |
| | `AcceptedBatchesConserved` | `[]FifoConservation` |
| | `NoEmptyPopWithoutRestart` | `[]EmptyPopNeedsRestart` |
| | `OverrunIsBounded` | `[]BoundedOverrun` |
| | `StackBounded` | `[]TypeOK`, the bound of the stack included |
| | `GasBounded` | `[]GasWithinLimit` |
| | `NothingFromNothing` | `[]NoMoney` |
| | `OutcomeAsRead` | `OutcomeDetermined` |
| `LockFreeQueueProofs`, on `LockFreeQueueList` | `DeletingAtOnceIsSafe` | `[]NoUseAfterDelete` |
| | `SizeIsExactAtRest` | `[]SizeAtRest` |
| | `QueueIsLinearizable` | `ImplementsFifoQueue`, the refinement |
| `QuidsProofs` | `BridgeMintsOnce` | `[]MintedAtMostOnce` |
| | `RefusedMeansMinted` | `[]RefusedOnlyIfMinted` |
| | `PausedChainsFrozen` | `PauseFreezes` |
| | `SignaturesMint` | `SupplyGrowsBySignature` |
| | `TokensConserved` | `[]BridgeConserves` |
| `ConsensusProofs` | `SevenFailuresExclude` | `[]ExclusionNeedsSevenFailures` |
| | `NothingLostInBatches` | `[]TransactionsConserved` |
| | `QuorumOfValidVotes` | `[]ConsensusNeedsValidVotes` |
| `StateManagerProofs` | `WedgeIsForGood` | `WedgedForGood` |
| | `HistoryIsRecent` | `[]HistoryIsRecentSuffix` |
| `NodeProofs` (peer node and its owners) | `StopEndsTheHandler` | `[]HandlerDoneAfterStop` |
| | `ThreadsEndWithTheNode` | `[]ThreadsOnlyWhileOwned` |
| | `FailedNodeBlocks` | `StuckUntilDestroyed` |
| `NetworkProofs` (network layer, port mapping) | `DiscoveryIsAlive` | `[]DiscoveryWhileRunning` |
| | `FreshIsLeased` | `[]FreshMeansLeased` |
| | `OnlyTruncationCuts` | `CutShortOnPurpose` |

They hold for every set of threads, chains, accounts, programs, peers, limits and
lifetimes that satisfies the assumption of the module (the `ASSUME` of the component):
limits are natural numbers, programs are sequences of instructions, `Cap` is at least
`W16`, `Free` is not a worker, fewer items are pushed than `size_` can count, and the sets
that are counted or summed over (chains, submitters, the threads of the queue) are finite.
`PausedChainsFrozen`, `StackBounded` and `NothingFromNothing` are proved and have no run.

*Transaction API.* `QueueInv` is `ApiTypeOK`, `MutexDiscipline`, `EmptyPopNeedsRestart`
and `FifoConservation`. The last is inductive only with the first three: a pop keeps
it because the worker that pops holds the mutex since it saw the queue non-empty, and
`MutexDiscipline` says that no other worker can have popped in between. `OverrunInv` adds
`FreshCalls` (a submitter outside a call has checked nothing) and `BoundedOverrun` itself:
passing the check below the limit adds a submitter to `Admitted`, and enqueueing moves it
from there to the queue.

*Executor.* `IInv` is `TypeOK`, `GasWithinLimit` and `NoMoney`. `TypeOK` gives that
what is pushed or loaded is a word and that the address of a running call is a
contract; `NoMoney` is inductive since a balance of zero covers a value of zero only.
For `OutcomeDetermined` the invariant is `Predicted`: between two instructions the gas and
the depth of the stack are what `Reached`, the reading of the program up to there, says,
and the storage differs from what the call found only after an SSTORE of its own contract
(`Touched`). Each instruction then takes both one step further, or fails in both; what has
stopped or failed stays so to the end of the reading (`ReachedEnd`).

*Lock-free queue.* The cells are reused, so a pointer says little about the list. `Shape`
names the linked cells by place instead: there is a function `c` with `c[k]` the cell of
the k-th item ever linked. A push extends `c` and a pop moves the first place, and
neither moves a cell. `tail_` is the last cell or the one before it (`TailNear`), a node
not yet linked belongs to one producer (`Owns`, `Apart`), and what a thread has read is a
statement about places (`PushLocal`, `PopLocal`). `ListInv` asserts that some such `c`
exists; each lemma of `LockFreeQueueList` says which `c` a step leads to. `SizeInv` relates
`size_` modulo `W` to `balance`, which counts the items linked and popped without the
threads that have yet to update the counter; it needs no list, and so holds with racing
consumers. For the refinement, `Effect` says what a step does to the waiting items and to
the caller's own call, and each of its cases is a step of `FifoQueue` or a stutter.

*Bridge.* `BridgeInv` adds to `MintedAtMostOnce` that nonces a source has assigned are
distinct and at most its counter, and that a target's processed nonces are exactly those
of the receipts. Without the first, two transfers could share a nonce, and marking one
would strand the other. That a mint has a recipient with a balance comes from the guard of
`_mint`. `Conserved` adds that finitely many transfers were sent; bridging
moves an amount from one summand to the set in flight, and receiving moves it back, once,
by `BridgeInv`.

*Consensus.* A score does not tell how many votes failed. `Scored` gives a floor for each
number of failures up to six, `Scale` times a power of nine tenths: a failure leads from
one floor to the next, a valid vote or a new registration never below one. The floors are
multiples of ten, so cutting a score off never takes it under its floor, after however many
votes. `Counted` says that the batches and the pool make up what was accepted, and that a
proof holds as many signatures as there were votes on it that a registered witness signed.

*Node.* `Joined` lists which threads have finished after each join of `stop`. It is
inductive because a finished thread takes no step. `Owned` relates the peer node to its
owner: a `QuidsNode` is given up or replaced only when its peer node has gone through all of
`stop`, and holds no connection then.

*State manager.* `WedgedForGood` is an action property that follows from the lock: an
operation that changes the ledger needs `free_for_writer`, which a stuck or nested reader
denies, and no step of another thread moves one that is stuck. For `HistoryIsRecentSuffix`
the step is that appending to a full history and dropping its head keeps it a suffix, argued
position by position.

*Network layer.* `DiscoveryWhileRunning` speaks of callers that have returned; in between,
a caller that has set `running` and not yet spawned its thread stands in for the thread
(`SomeDiscovery`).

*Port mapping.* `StoredIsCovered`: what is left of the lease, plus the age of the stored
answer, plus the time since, is at least the stored lifetime, until the gateway serves
another request of the client; `AnswerIsCovered` says the same of an answer on its way,
and hands over when it is received. Truncation only shortens. For `CutShortOnPurpose`,
`LeaseIsGranted` says that no more than the last grant is left of the lease, and
`KeptOfGrant` that a refresh asks for that grant modulo `W16`, which is the grant if it fits.

**Induction.** The library's induction theorems take a predicate as a parameter, which the
installed provers cannot instantiate. `SetInduction` and `InductionOverSets` state induction
for a set of natural numbers, and follow from a fact about finite sets: a set has no
injection into a smaller one. From it come the existence of the recursive functions behind
`MapThenSumSet`, `FlattenSeq` and `Reached`, and what they compute.

A leaf names a prover (`Zenon`, `SMTT(30)`) where the default is slow on it.

**Only model-checked:** liveness (`QueueDrains`, `DestructorReturns`, `OnlyReadersStarve`,
`AllDelivered`, `StopReturns`, `OnlyDiscoveryStarves`, `DiscoveryEnds`, `PendingIsTaken`,
`WorkersJoined`): fairness and
`ENABLED` are out of this prover's reach. Every safety property of a passing run is proved.
The refinement is of `FifoQueue`'s safety; it has no fairness of its own.

## 5. What is not modelled

`PROJECT.json` gives the reason for each part. They are of five kinds.

- *No build of it can run.* `Chain.cpp`, `core/BlockProducer.cpp`, `OptimizedPOBPC.cpp` and
  `OptimizedNetworkLayer.cpp` use members that their headers, or the queue, do not
  declare. `ParallelProcessor` never constructs its `impl_`, which its threads
  dereference. `QDHT` and `EmergencyExit` ask for quantum states of more amplitudes than
  can be indexed. `ExternalLink` refuses every fetch.
- *Floating point.* Quantum simulation, quantum consensus, proofs as complex vectors, neural
  networks and learning, location shares: out of TLC's reach, and no control of what
  is modelled depends on them.
- *Values without state.* Transactions, encodings, compression, orderings, EVM memory and
  parser. `AddressManager` has state, but its operations are a test and an
  assignment each, on one thread, and nothing else calls it.
- *Libraries.* Cryptography (a signature verifies or not), STUN, UPnP, QUIC, HTTP, RocksDB, and
  the third-party headers under `vendors/`, which are most of the lines of the
  repository. Where a modelled component calls one, its outcome is a choice.
- *Parts of modelled components* that nothing calls or that have no definition: the
  routing table of `P2PNetwork`, the constructor of `NATPMP`,
  `process_incoming_connections` of `P2PNode`, the destructor, moves and `clear` of the
  lock-free queue (single-threaded by contract). Getters change no state.

Hazards that no run states a property for: `StateManager.cpp:212`, `P2PNetwork.cpp:237`,
`NATPMP.cpp:105` and `P2PNode.cpp:222`, which are rows of the table in section 3; and, not
listed in `PROJECT.json`, `StateManager.cpp:113` (a batch that applies nothing overwrites the
previous root), `P2PNode.cpp:80` (a connection stored after `stop`) and `Quids.sol:75` (a
transfer to the zero address), which are modelled as the code has them.
