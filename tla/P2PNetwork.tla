---------------------------- MODULE P2PNetwork ----------------------------
(***************************************************************************)
(* src/network/P2PNetwork.cpp: the life cycle of the network, called by    *)
(* several threads, and its detached discovery threads.  One step per read *)
(* or write of running, which no mutex protects, and per critical section. *)
(* A discovery thread keeps connections_mutex through its sleep of 30      *)
(* seconds; every other critical section on it is one step.                *)
(*                                                                         *)
(* connections holds "main" or nothing: ping_node, the only other place    *)
(* that inserts one, serves the routing table, which nothing calls.  The   *)
(* handlers and the list connected_peers are written and never read, so    *)
(* they are left out; the locks their writers take, or do not, are not.    *)
(***************************************************************************)
EXTENDS Naturals, Sequences

CONSTANTS
  Callers,      \* threads that call the network
  Peers,        \* well-formed peer addresses
  Malformed,    \* an address connect_to_peer cannot parse
  Bootstrap,    \* config_.bootstrap_nodes
  MaxCalls      \* bound: calls of the operations below

ASSUME NetworkAssumption ==
  /\ Bootstrap \in Seq(Peers \cup {Malformed}) /\ Malformed \notin Peers
  /\ MaxCalls \in Nat

VARIABLES
  running,          \* Impl::running
  main,             \* whether connections holds "main"
  pc, rest,         \* each caller's position, and its bootstrap nodes to go
  discovery,        \* the discovery threads, in the order they were started
  holder,           \* the discovery thread that holds connections_mutex, or 0
  calls             \* calls begun

network == <<running, main>>
threads == <<discovery, holder>>
vars == <<network, pc, rest, threads, calls>>

Init ==
  /\ running = FALSE /\ main = FALSE
  /\ pc = [c \in Callers |-> "idle"]
  /\ rest = [c \in Callers |-> <<>>]
  /\ discovery = <<>> /\ holder = 0
  /\ calls = 0

Goto(c, l) == pc' = [pc EXCEPT ![c] = l]

connections_free == holder = 0
handlers_free == \A c \in Callers : pc[c] # "install"

Starting(c) == pc[c] \in {"store", "bootstrap", "set_running", "spawn"} \/ rest[c] # <<>>
Stopping(c) == pc[c] \in {"clear", "unset_running"}
Quiet == \A c \in Callers : ~Starting(c) /\ ~Stopping(c)

Called(c) == pc[c] = "idle" /\ calls < MaxCalls /\ calls' = calls + 1

-----------------------------------------------------------------------------
(* start and stop *)

\* Mutant: the discovery thread is started before running is set.
spawn_first(l) ==
  CASE l = "store" -> "bootstrap" [] l = "bootstrap" -> "spawn"
    [] l = "spawn" -> "set_running" [] l = "set_running" -> "idle"

\* The order of the statements of start.
after(l) ==
  CASE l = "store" -> "bootstrap" [] l = "bootstrap" -> "set_running"
    [] l = "set_running" -> "spawn" [] l = "spawn" -> "idle"

\* Returns at once while running, and when the connection does not start.
start(c) ==
  /\ Called(c)
  /\ \/ Goto(c, "idle")
     \/ ~running /\ Goto(c, "store")
  /\ UNCHANGED <<network, rest, threads>>

StoreMain(c) ==
  /\ pc[c] = "store" /\ connections_free
  /\ main' = TRUE
  /\ rest' = [rest EXCEPT ![c] = Bootstrap]
  /\ Goto(c, after("store"))
  /\ UNCHANGED <<running, threads, calls>>

SetRunning(c) ==
  /\ pc[c] = "set_running"
  /\ running' = TRUE
  /\ Goto(c, after("set_running"))
  /\ UNCHANGED <<main, rest, threads, calls>>

\* discover_peers
Spawn(c) ==
  /\ pc[c] = "spawn"
  /\ discovery' = Append(discovery, "loop")
  /\ Goto(c, after("spawn"))
  /\ UNCHANGED <<network, rest, holder, calls>>

stop(c) ==
  /\ Called(c)
  /\ Goto(c, IF running THEN "clear" ELSE "idle")
  /\ UNCHANGED <<network, rest, threads>>

ClearConnections(c) ==
  /\ pc[c] = "clear" /\ connections_free
  /\ main' = FALSE
  /\ Goto(c, "unset_running")
  /\ UNCHANGED <<running, rest, threads, calls>>

UnsetRunning(c) ==
  /\ pc[c] = "unset_running"
  /\ running' = FALSE
  /\ Goto(c, "idle")
  /\ UNCHANGED <<main, rest, threads, calls>>

-----------------------------------------------------------------------------
(* connect_to_peer, called by a client or by start for each bootstrap node *)

\* Where the call returns to: start is in it while it still has nodes to try.
ReturnTo(c) == IF rest[c] = <<>> THEN "idle" ELSE "bootstrap"

connect_to_peer(c) ==
  /\ Called(c)
  /\ \E p \in Peers \cup {Malformed} :
       Goto(c, IF running /\ p # Malformed THEN "lookup" ELSE "idle")
  /\ UNCHANGED <<network, rest, threads>>

\* One node of the loop of start; connect_to_peer refuses it unless running,
\* which it is here only when another start or stop overlaps.
BootstrapNode(c) ==
  /\ pc[c] = "bootstrap"
  /\ IF rest[c] = <<>> THEN Goto(c, after("bootstrap")) /\ UNCHANGED rest
     ELSE IF running /\ Head(rest[c]) # Malformed THEN Goto(c, "lookup") /\ UNCHANGED rest
     ELSE rest' = [rest EXCEPT ![c] = Tail(@)] /\ UNCHANGED pc
  /\ UNCHANGED <<network, threads, calls>>

Return(c) ==
  /\ Goto(c, ReturnTo(c))
  /\ rest' = [rest EXCEPT ![c] = IF @ = <<>> THEN @ ELSE Tail(@)]

LookupMain(c) ==
  /\ pc[c] = "lookup" /\ connections_free
  /\ IF main THEN Goto(c, "traverse") /\ UNCHANGED rest ELSE Return(c)
  /\ UNCHANGED <<network, threads, calls>>

\* External: perform_nat_traversal asks the gateway, which may refuse.
NatTraversal(c) ==
  /\ pc[c] = "traverse"
  /\ \/ Return(c)
     \/ Goto(c, "push") /\ UNCHANGED rest
  /\ UNCHANGED <<network, threads, calls>>

\* handle_peer_connection: a push_back under no lock.
PushPeer(c) ==
  /\ pc[c] = "push"
  /\ Return(c)
  /\ UNCHANGED <<network, threads, calls>>

\* Two that overlap are a data race, which can corrupt the vector.
Corrupt(c) ==
  /\ pc[c] = "push" /\ \E d \in Callers \ {c} : pc[d] = "push"
  /\ Goto(c, "undefined")
  /\ UNCHANGED <<network, rest, threads, calls>>

-----------------------------------------------------------------------------
(* Broadcasts, queries and handlers *)

\* broadcast_transaction and broadcast_state_update.
broadcast(c) ==
  /\ Called(c)
  /\ Goto(c, IF running THEN "iterate" ELSE "idle")
  /\ UNCHANGED <<network, rest, threads>>

get_connected_peers(c) ==
  /\ Called(c)
  /\ Goto(c, "iterate")
  /\ UNCHANGED <<network, rest, threads>>

\* Each connection is asked in turn; none does anything yet.
Iterate(c) ==
  /\ pc[c] = "iterate" /\ connections_free
  /\ Goto(c, "idle")
  /\ UNCHANGED <<network, rest, threads, calls>>

register_message_handler(c) ==
  /\ Called(c)
  /\ Goto(c, "register")
  /\ UNCHANGED <<network, rest, threads>>

\* handlers_mutex is held while the thread waits for connections_mutex.
LockHandlers(c) ==
  /\ pc[c] = "register" /\ handlers_free
  /\ Goto(c, "install")
  /\ UNCHANGED <<network, rest, threads, calls>>

Install(c) ==
  /\ pc[c] = "install" /\ connections_free
  /\ Goto(c, "idle")
  /\ UNCHANGED <<network, rest, threads, calls>>

-----------------------------------------------------------------------------
(* The threads of discover_peers *)

\* Mutant: the loop does not look at running.
for_ever == TRUE

loop_condition == running

DiscoveryLoop(d) ==
  /\ discovery[d] = "loop"
  /\ discovery' = [discovery EXCEPT ![d] = IF loop_condition THEN "lock" ELSE "done"]
  /\ UNCHANGED <<network, pc, rest, holder, calls>>

\* get_connected_peers of a connection is always empty, so there is nothing to
\* handle; the thread sleeps with the mutex held.
DiscoveryLock(d) ==
  /\ discovery[d] = "lock" /\ connections_free
  /\ holder' = d
  /\ discovery' = [discovery EXCEPT ![d] = "sleep"]
  /\ UNCHANGED <<network, pc, rest, calls>>

\* Mutant: the thread goes round without releasing the mutex.
kept == holder

released == 0

DiscoveryWake(d) ==
  /\ discovery[d] = "sleep"
  /\ holder' = released
  /\ discovery' = [discovery EXCEPT ![d] = "loop"]
  /\ UNCHANGED <<network, pc, rest, calls>>

-----------------------------------------------------------------------------

Defined == \A c \in Callers : pc[c] # "undefined"

Step(c) ==
  \/ StoreMain(c) \/ SetRunning(c) \/ Spawn(c) \/ ClearConnections(c) \/ UnsetRunning(c)
  \/ BootstrapNode(c) \/ LookupMain(c) \/ NatTraversal(c) \/ PushPeer(c) \/ Corrupt(c)
  \/ Iterate(c) \/ LockHandlers(c) \/ Install(c)

Call(c) ==
  \/ start(c) \/ stop(c) \/ connect_to_peer(c) \/ broadcast(c)
  \/ get_connected_peers(c) \/ register_message_handler(c)

Discover(d) == DiscoveryLoop(d) \/ DiscoveryLock(d) \/ DiscoveryWake(d)

Next ==
  /\ Defined
  /\ \/ \E c \in Callers : Call(c) \/ Step(c)
     \/ \E d \in DOMAIN discovery : Discover(d)

Spec == Init /\ [][Next]_vars

\* Threads are preemptively scheduled.  A std::mutex promises its waiters no
\* turn, so the fairness of a thread that waits for one is weak.
FairSpec ==
  /\ Spec
  /\ \A c \in Callers : WF_vars(Defined /\ Step(c))
  /\ \A d \in 1 .. MaxCalls : WF_vars(Defined /\ d \in DOMAIN discovery /\ Discover(d))

-----------------------------------------------------------------------------
(* Properties *)

\* Whatever calls of start and stop overlap, when they have returned and the
\* network is running, some discovery thread is alive.
DiscoveryWhileRunning ==
  Quiet /\ running => \E d \in DOMAIN discovery : discovery[d] # "done"

\* A call that never returns waits behind a discovery thread that takes
\* connections_mutex again and again: stop, the broadcasts and the handlers'
\* registration, which waits with handlers_mutex held, wait for nothing else.
OnlyDiscoveryStarves ==
  \A c \in Callers :
    []<>(pc[c] = "idle" \/ ~Defined) \/ []<>(\E d \in DOMAIN discovery : discovery[d] = "loop")

\* Once the network stays stopped, every discovery thread of every earlier
\* start ends.
DiscoveryEnds ==
  <>[](~running /\ Defined) => <>[](\A d \in DOMAIN discovery : discovery[d] = "done")
=============================================================================
