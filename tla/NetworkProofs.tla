--------------------------- MODULE NetworkProofs ----------------------------
(***************************************************************************)
(* The network's life cycle and the port mapping on the node's gateway.    *)
(*                                                                         *)
(* A running network either has a live discovery thread or a start that is *)
(* about to spawn one, for any number of callers, discovery threads and    *)
(* bootstrap nodes.                                                        *)
(*                                                                         *)
(* What refreshMapping calls fresh is leased, for every width of           *)
(* mapping_lifetime_, all lifetimes and all delays.  The lease bounds what *)
(* the client counts on, with the age of the answer it stored, as long as  *)
(* the gateway has not served another request of the client; and an answer *)
(* on its way carries a lifetime that the lease and its age add up to.     *)
(* The lease is never longer than the last grant the client knows of, and  *)
(* that is what a refresh asks for when it fits into mapping_lifetime_.    *)
(***************************************************************************)
EXTENDS P2PNetwork, NATPMP, TLAPS

Labels ==
  {"idle", "store", "bootstrap", "set_running", "spawn", "clear", "unset_running", "lookup",
   "traverse", "push", "iterate", "register", "install", "undefined"}
InConnect == {"bootstrap", "lookup", "traverse", "push", "undefined"}

Nodes == Seq(Peers \cup {Malformed})

Types ==
  /\ pc \in [Callers -> Labels]
  /\ rest \in [Callers -> Nodes]
  /\ \A c \in Callers : rest[c] # <<>> => pc[c] \in InConnect

SomeDiscovery ==
  /\ discovery \in Seq({"loop", "lock", "sleep", "done"})
  /\ running => \/ \E c \in Callers : pc[c] = "spawn"
                \/ \E d \in DOMAIN discovery : discovery[d] # "done"

\* The order of start's statements.
LEMMA Order ==
  /\ after("store") = "bootstrap" /\ after("bootstrap") = "set_running"
  /\ after("set_running") = "spawn" /\ after("spawn") = "idle"
  BY DEF after

\* A caller keeps its place, and has bootstrap nodes left only inside start.
LEMMA TypesStep == Types /\ [Next]_vars => Types'
<1> SUFFICES ASSUME Types, [Next]_vars PROVE Types'
  OBVIOUS
<1>1. CASE UNCHANGED vars
  BY <1>1 DEF vars, Types
<1>2. ASSUME NEW d \in DOMAIN discovery, Discover(d) PROVE Types'
  BY <1>2 DEF Discover, DiscoveryLoop, DiscoveryLock, DiscoveryWake, Types
<1>3. ASSUME NEW c \in Callers, NEW l \in Labels, Goto(c, l), UNCHANGED rest, pc[c] \in InConnect => l \in InConnect
      PROVE  Types'
  BY <1>3 DEF Goto, Types
<1>4. ASSUME NEW c \in Callers, Call(c) PROVE Types'
  <2>1. pc[c] \notin InConnect /\ UNCHANGED rest
    BY <1>4 DEF Call, start, stop, connect_to_peer, broadcast, get_connected_peers,
                register_message_handler, Called, InConnect
  <2>2. \E l \in {"idle", "store", "clear", "lookup", "iterate", "register"} : Goto(c, l)
    BY <1>4 DEF Call, start, stop, connect_to_peer, broadcast, get_connected_peers, register_message_handler
  <2> QED BY <1>3, <2>1, <2>2 DEF Labels
<1>5. ASSUME NEW c \in Callers, Return(c) PROVE Types'
  <2>1. rest' \in [Callers -> Nodes] /\ pc' \in [Callers -> Labels]
    <3>1. rest[c] \in Nodes /\ (rest[c] # <<>> => Tail(rest[c]) \in Nodes)
      BY DEF Types, Nodes
    <3> QED BY <1>5, <3>1 DEF Return, ReturnTo, Goto, Types, Labels
  <2>2. rest'[c] # <<>> => pc'[c] = "bootstrap"
    BY <1>5 DEF Return, ReturnTo, Goto, Types
  <2>3. \A d \in Callers : d # c => rest'[d] = rest[d] /\ pc'[d] = pc[d]
    BY <1>5 DEF Return, Goto, Types
  <2> QED BY <2>1, <2>2, <2>3 DEF Types, InConnect
<1>6. ASSUME NEW c \in Callers, Step(c) PROVE Types'
  <2>1. CASE StoreMain(c)
    BY <2>1, Order, NetworkAssumption DEF StoreMain, Goto, Types, Labels, InConnect, Nodes
  <2>2. CASE SetRunning(c) \/ Spawn(c) \/ ClearConnections(c) \/ UnsetRunning(c) \/ Iterate(c) \/ LockHandlers(c) \/ Install(c)
    <3>1. pc[c] \notin InConnect /\ UNCHANGED rest
      BY <2>2 DEF SetRunning, Spawn, ClearConnections, UnsetRunning, Iterate, LockHandlers, Install, InConnect
    <3>2. \E l \in {"idle", "spawn", "unset_running", "install"} : Goto(c, l)
      BY <2>2, Order DEF SetRunning, Spawn, ClearConnections, UnsetRunning, Iterate, LockHandlers, Install
    <3> QED BY <1>3, <3>1, <3>2 DEF Labels
  <2>3. CASE BootstrapNode(c)
    <3>1. CASE rest[c] = <<>>
      BY <2>3, <3>1, Order DEF BootstrapNode, Goto, Types, Labels, InConnect
    <3>2. CASE rest[c] # <<>> /\ running /\ Head(rest[c]) # Malformed
      BY <1>3, <2>3, <3>2 DEF BootstrapNode, Labels, InConnect
    <3>3. CASE rest[c] # <<>> /\ ~(running /\ Head(rest[c]) # Malformed)
      <4>1. Tail(rest[c]) \in Nodes
        BY <3>3 DEF Types, Nodes
      <4>2. rest' = [rest EXCEPT ![c] = Tail(rest[c])] /\ pc' = pc /\ pc[c] = "bootstrap"
        BY <2>3, <3>3 DEF BootstrapNode
      <4> QED BY <4>1, <4>2 DEF Types, InConnect
    <3> QED BY <3>1, <3>2, <3>3
  <2>4. CASE LookupMain(c) \/ NatTraversal(c) \/ PushPeer(c) \/ Corrupt(c)
    <3>1. Return(c) \/ (UNCHANGED rest /\ \E l \in {"traverse", "push", "undefined"} : Goto(c, l))
      BY <2>4 DEF LookupMain, NatTraversal, PushPeer, Corrupt
    <3> QED BY <1>3, <1>5, <3>1 DEF Labels, InConnect
  <2> QED BY <1>6, <2>1, <2>2, <2>3, <2>4 DEF Step
<1> QED BY <1>1, <1>2, <1>4, <1>6 DEF Next

\* A running network has a live discovery thread or is about to have one.
LEMMA SomeDiscoveryStep == Types /\ SomeDiscovery /\ [Next]_vars => SomeDiscovery'
<1> SUFFICES ASSUME Types, SomeDiscovery, [Next]_vars PROVE SomeDiscovery'
  OBVIOUS
<1>1. CASE UNCHANGED vars
  BY <1>1 DEF vars, network, threads, SomeDiscovery
<1>2. ASSUME NEW d \in DOMAIN discovery, Discover(d) PROVE SomeDiscovery'
  BY <1>2 DEF Discover, DiscoveryLoop, DiscoveryLock, DiscoveryWake, loop_condition, network, SomeDiscovery
<1>3. ASSUME NEW c \in Callers, pc[c] # "spawn", UNCHANGED discovery, running' => running,
             \A d \in Callers : d # c => pc'[d] = pc[d]
      PROVE  SomeDiscovery'
  BY <1>3 DEF SomeDiscovery
<1>4. ASSUME NEW c \in Callers, NEW l, Goto(c, l) PROVE \A d \in Callers : d # c => pc'[d] = pc[d]
  BY <1>4 DEF Goto, Types
<1>5. ASSUME NEW c \in Callers, Call(c) PROVE SomeDiscovery'
  <2>1. pc[c] # "spawn" /\ UNCHANGED <<discovery, running>> /\ \E l : Goto(c, l)
    BY <1>5 DEF Call, start, stop, connect_to_peer, broadcast, get_connected_peers,
                register_message_handler, Called, network, threads
  <2> QED BY <1>3, <1>4, <2>1
<1>6. ASSUME NEW c \in Callers, Step(c) PROVE SomeDiscovery'
  <2>1. CASE SetRunning(c)
    BY <2>1, Order DEF SetRunning, Goto, threads, Types, SomeDiscovery
  <2>2. CASE Spawn(c)
    BY <2>2 DEF Spawn, SomeDiscovery
  <2>3. CASE UnsetRunning(c)
    BY <2>3 DEF UnsetRunning, threads, SomeDiscovery
  <2>4. CASE BootstrapNode(c)
    <3>1. UNCHANGED pc \/ \E l : Goto(c, l)
      BY <2>4 DEF BootstrapNode
    <3>2. pc[c] # "spawn" /\ UNCHANGED <<discovery, running>>
      BY <2>4 DEF BootstrapNode, network, threads
    <3> QED BY <1>3, <1>4, <3>1, <3>2
  <2>5. CASE StoreMain(c) \/ ClearConnections(c) \/ LookupMain(c) \/ NatTraversal(c) \/ PushPeer(c)
             \/ Corrupt(c) \/ Iterate(c) \/ LockHandlers(c) \/ Install(c)
    <3>1. \E l : Goto(c, l)
      BY <2>5 DEF StoreMain, ClearConnections, LookupMain, NatTraversal, PushPeer, Corrupt, Iterate, LockHandlers, Install, Return
    <3>2. pc[c] # "spawn" /\ UNCHANGED <<discovery, running>>
      BY <2>5 DEF StoreMain, ClearConnections, LookupMain, NatTraversal, PushPeer, Corrupt, Iterate, LockHandlers, Install,
                  network, threads
    <3> QED BY <1>3, <1>4, <3>1, <3>2
  <2> QED BY <1>6, <2>1, <2>2, <2>3, <2>4, <2>5 DEF Step
<1> QED BY <1>1, <1>2, <1>5, <1>6 DEF Next

\* Whichever calls of start and stop overlap, a network that is running when
\* they have returned has a discovery thread that is alive.
THEOREM DiscoveryIsAlive == Spec => []DiscoveryWhileRunning
<1>1. Init => Types /\ SomeDiscovery
  <2> SUFFICES ASSUME Init PROVE Types /\ SomeDiscovery
    OBVIOUS
  <2>1. <<>> \in Nodes
    BY DEF Nodes
  <2>2. Types
    BY <2>1 DEF Init, Types, Labels
  <2>3. SomeDiscovery
    BY DEF Init, SomeDiscovery
  <2> QED BY <2>2, <2>3
<1>2. SomeDiscovery => DiscoveryWhileRunning
  BY DEF SomeDiscovery, DiscoveryWhileRunning, Quiet, Starting
<1> QED BY <1>1, <1>2, TypesStep, SomeDiscoveryStep, PTL DEF Spec

-----------------------------------------------------------------------------
(* The port mapping *)

MappingTypes ==
  /\ mapping_lifetime \in 0 .. W16 - 1 /\ elapsed \in 0 .. Cap /\ late \in 0 .. Cap
  /\ call \in {"idle", "map", "refresh", "remove"}
  /\ request \in Nat \cup {None} /\ reply \in Nat \cup {None, Rejected}
  /\ lease \in Nat /\ age \in 0 .. Cap /\ granted \in Nat /\ unheard \in BOOLEAN

OneDatagram ==
  /\ call = "idle" => request = None /\ reply = None
  /\ request # None => reply = None
  /\ call = "remove" => request \in {0, None} /\ reply \in {0, None, Rejected}

\* The gateway holds the mapping the client knows of.
Unserved == ~unheard /\ (call = "idle" \/ request # None \/ reply = Rejected)

StoredIsCovered ==
  Unserved /\ elapsed < Cap /\ late < Cap => lease + late + elapsed >= mapping_lifetime

AnswerIsCovered == reply \in Nat /\ age < Cap => lease + age >= reply

\* No more than the last grant is left of it.
LeaseIsGranted ==
  /\ Unserved => lease <= granted
  /\ reply \in Nat => lease <= reply

\* What the client keeps of that grant, and asks for in a refresh.
KeptOfGrant ==
  /\ mapped => mapping_lifetime = granted % W16
  /\ call = "refresh" /\ request # None => request = granted % W16

MappingInv ==
  MappingTypes /\ OneDatagram /\ StoredIsCovered /\ AnswerIsCovered /\ LeaseIsGranted /\ KeptOfGrant

USE DEF None, Rejected

\* A client that has no mapping counts on nothing.
LEMMA InitMappingInv == MappingInit => MappingInv
<1> SUFFICES ASSUME MappingInit PROVE MappingInv
  OBVIOUS
<1>1. MappingTypes /\ OneDatagram /\ KeptOfGrant
  <2>1. MappingTypes
    <3>1. /\ mapping_lifetime \in 0 .. W16 - 1 /\ elapsed \in 0 .. Cap /\ late \in 0 .. Cap
          /\ lease \in Nat /\ age \in 0 .. Cap /\ granted \in Nat
      BY NATAssumption DEF MappingInit
    <3>2. /\ call \in {"idle", "map", "refresh", "remove"}
          /\ request \in Nat \cup {None} /\ reply \in Nat \cup {None, Rejected}
          /\ unheard \in BOOLEAN
      BY Zenon DEF MappingInit
    <3> QED BY <3>1, <3>2, Zenon DEF MappingTypes
  <2>2. OneDatagram /\ KeptOfGrant
    BY DEF MappingInit, OneDatagram, KeptOfGrant
  <2> QED BY <2>1, <2>2
<1>2. StoredIsCovered /\ AnswerIsCovered /\ LeaseIsGranted
  BY DEF MappingInit, StoredIsCovered, AnswerIsCovered, LeaseIsGranted
<1> QED BY <1>1, <1>2 DEF MappingInv

\* A request leaves what client and gateway know as it is.
LEMMA SendMappingInv ==
  ASSUME MappingInv, NEW name \in {"map", "refresh", "remove"}, NEW l \in Nat, Send(name, l),
         name = "refresh" => l = granted % W16, name = "remove" => l = 0
  PROVE  MappingInv'
<1>1. MappingTypes' /\ OneDatagram' /\ KeptOfGrant'
  BY DEF Send, client, MappingInv, MappingTypes, OneDatagram, KeptOfGrant
<1>2. StoredIsCovered' /\ AnswerIsCovered' /\ LeaseIsGranted'
  BY DEF Send, client, MappingInv, MappingTypes, OneDatagram, StoredIsCovered, AnswerIsCovered, LeaseIsGranted, Unserved
<1> QED BY <1>1, <1>2 DEF MappingInv

\* What is kept of a lifetime in fewer bits is not more than the lifetime.
LEMMA TruncationShortens ==
  ASSUME NEW l \in Nat
  PROVE  truncated(l) = l % W16 /\ truncated(l) \in 0 .. W16 - 1 /\ truncated(l) <= l
  BY NATAssumption DEF truncated

\* What the gateway may grant.
LEMMA GrantTypes ==
  ASSUME MappingTypes, request # None, NEW l \in Grants
  PROVE  l \in Nat /\ l <= request /\ (l = 0 => request = 0)
  BY DEF MappingTypes, Grants

\* The gateway's answer.
LEMMA ServeMappingInv == ASSUME MappingInv, Serve PROVE MappingInv'
<1>0. MappingTypes /\ OneDatagram /\ request \in Nat /\ reply = None /\ 0 \in 0 .. Cap
  BY NATAssumption DEF MappingInv, MappingTypes, OneDatagram, Serve
<1>1. request' = None /\ UNCHANGED <<client, call>> /\ call # "idle"
  BY <1>0 DEF Serve, OneDatagram
<1>2. KeptOfGrant'
  BY <1>1 DEF client, MappingInv, KeptOfGrant
<1>3. ASSUME NEW l \in Grants, Answer(l, l), unheard' = FALSE PROVE MappingInv'
  <2>1. l \in Nat /\ l <= request
    BY <1>0, <1>3, GrantTypes
  <2>2. MappingTypes'
    BY <1>0, <1>1, <1>3, <2>1 DEF Answer, client, MappingTypes
  <2>4. OneDatagram'
    <3>1. call = "remove" => l = 0
      BY <1>0, <2>1 DEF OneDatagram
    <3> QED BY <1>1, <1>3, <3>1 DEF Answer, OneDatagram
  <2>3. StoredIsCovered' /\ AnswerIsCovered' /\ LeaseIsGranted'
    BY <1>0, <1>1, <1>3, <2>1 DEF Answer, StoredIsCovered, AnswerIsCovered, LeaseIsGranted, Unserved
  <2> QED BY <1>2, <2>2, <2>3, <2>4 DEF MappingInv
<1>4. ASSUME NEW l \in Grants, Answer(l, Rejected), unheard' = TRUE PROVE MappingInv'
  <2>1. l \in Nat
    BY <1>0, <1>4, GrantTypes
  <2>2. MappingTypes' /\ OneDatagram'
    BY <1>0, <1>1, <1>4, <2>1 DEF Answer, client, MappingTypes, OneDatagram
  <2>3. StoredIsCovered' /\ AnswerIsCovered' /\ LeaseIsGranted'
    BY <1>0, <1>1, <1>4, <2>1 DEF Answer, StoredIsCovered, AnswerIsCovered, LeaseIsGranted, Unserved
  <2> QED BY <1>2, <2>2, <2>3 DEF MappingInv
<1>5. CASE Answer(lease, Rejected) /\ UNCHANGED unheard
  <2>1. MappingTypes' /\ OneDatagram'
    BY <1>0, <1>1, <1>5 DEF Answer, client, MappingTypes, OneDatagram
  <2>2. StoredIsCovered' /\ AnswerIsCovered' /\ LeaseIsGranted'
    BY <1>0, <1>1, <1>5 DEF Answer, client, MappingInv, MappingTypes, StoredIsCovered, AnswerIsCovered,
       LeaseIsGranted, Unserved
  <2> QED BY <1>2, <2>1, <2>2 DEF MappingInv
<1> QED BY <1>3, <1>4, <1>5 DEF Serve

\* The client's side of an answer.
LEMMA ReceiveMappingInv == ASSUME MappingInv, Receive PROVE MappingInv'
<1>0. MappingTypes /\ OneDatagram /\ reply # None /\ request = None /\ 0 \in 0 .. W16 - 1
  BY NATAssumption DEF MappingInv, MappingTypes, OneDatagram, Receive
<1>1. call' = "idle" /\ reply' = None /\ request' = None /\ UNCHANGED <<lease, age, unheard>>
  BY <1>0 DEF Receive
<1>2. OneDatagram' /\ AnswerIsCovered'
  BY <1>1 DEF OneDatagram, AnswerIsCovered
<1>3. CASE Store
  <2>1. reply \in Nat
    BY <1>0, <1>3 DEF Store, MappingTypes
  <2>2. /\ mapping_lifetime' \in 0 .. W16 - 1 /\ mapping_lifetime' <= reply
        /\ mapping_lifetime' = reply % W16
    BY <1>3, <2>1, TruncationShortens DEF Store
  <2>3. elapsed' = 0 /\ late' = age /\ granted' = reply /\ 0 \in 0 .. Cap
    BY <1>3, NATAssumption DEF Store
  <2>4. MappingTypes' /\ KeptOfGrant'
    BY <1>0, <1>1, <2>1, <2>2, <2>3 DEF MappingTypes, KeptOfGrant
  <2>5. StoredIsCovered' /\ LeaseIsGranted'
    BY <1>0, <1>1, <2>1, <2>2, <2>3 DEF MappingInv, MappingTypes, StoredIsCovered, AnswerIsCovered, LeaseIsGranted
  <2> QED BY <1>2, <2>4, <2>5 DEF MappingInv
<1>4. CASE call = "remove" /\ Forget
  <2>1. MappingTypes' /\ KeptOfGrant'
    BY <1>0, <1>1, <1>4 DEF Forget, MappingTypes, KeptOfGrant
  <2>2. StoredIsCovered'
    BY <1>0, <1>1, <1>4, <2>1 DEF Forget, MappingTypes, StoredIsCovered
  <2>3. LeaseIsGranted'
    BY <1>0, <1>1, <1>4 DEF Forget, MappingInv, MappingTypes, OneDatagram, LeaseIsGranted, Unserved
  <2> QED BY <1>2, <2>1, <2>2, <2>3 DEF MappingInv
<1>5. CASE reply = Rejected /\ call # "remove" /\ UNCHANGED client
  <2>1. MappingTypes' /\ KeptOfGrant'
    BY <1>0, <1>1, <1>5 DEF client, MappingInv, MappingTypes, KeptOfGrant
  <2>2. StoredIsCovered' /\ LeaseIsGranted'
    BY <1>0, <1>1, <1>5 DEF client, MappingInv, MappingTypes, StoredIsCovered, LeaseIsGranted, Unserved
  <2> QED BY <1>2, <2>1, <2>2 DEF MappingInv
<1> QED BY <1>3, <1>4, <1>5 DEF Receive

\* A second goes by for client and gateway alike.
LEMMA TickMappingInv == ASSUME MappingInv, Tick PROVE MappingInv'
<1>1. \A d \in 0 .. Cap : later(d) \in 0 .. Cap /\ (later(d) < Cap => later(d) = d + 1)
  BY NATAssumption DEF later
<1>2. MappingTypes'
  BY <1>1 DEF Tick, MappingInv, MappingTypes
<1>3. OneDatagram' /\ KeptOfGrant'
  BY DEF Tick, MappingInv, OneDatagram, KeptOfGrant
<1>4. lease' \in Nat /\ lease' + 1 >= lease /\ lease' <= lease
  BY DEF Tick, MappingInv, MappingTypes
<1>5. StoredIsCovered' /\ AnswerIsCovered'
  BY <1>1, <1>4, NATAssumption DEF Tick, MappingInv, MappingTypes, StoredIsCovered, AnswerIsCovered, Unserved
<1>6. LeaseIsGranted'
  BY <1>4 DEF Tick, MappingInv, MappingTypes, LeaseIsGranted, Unserved
<1> QED BY <1>2, <1>3, <1>5, <1>6 DEF MappingInv

\* A datagram is lost: the call hangs, and nothing else changes.
LEMMA LossMappingInv == ASSUME MappingInv, LoseRequest \/ LoseReply PROVE MappingInv'
<1>1. /\ UNCHANGED <<client, call, lease, age, unheard>>
      /\ request' \in {request, None} /\ reply' \in {reply, None} /\ call # "idle"
  BY DEF LoseRequest, LoseReply, MappingInv, OneDatagram
<1>2. MappingTypes' /\ OneDatagram' /\ KeptOfGrant'
  BY <1>1 DEF client, MappingInv, MappingTypes, OneDatagram, KeptOfGrant
<1>3. Unserved' => Unserved
  BY <1>1 DEF Unserved, MappingInv, OneDatagram
<1>4. StoredIsCovered' /\ AnswerIsCovered' /\ LeaseIsGranted'
  BY <1>1, <1>3 DEF client, MappingInv, StoredIsCovered, AnswerIsCovered, LeaseIsGranted
<1> QED BY <1>2, <1>4 DEF MappingInv

\* Every step keeps the books.
LEMMA NextMappingInv == ASSUME MappingInv, [MappingNext]_mapping_vars PROVE MappingInv'
<1>1. CASE map_port
  BY <1>1, SendMappingInv, NATAssumption DEF map_port
<1>2. CASE refreshMapping
  BY <1>2, SendMappingInv DEF refreshMapping, MappingInv, MappingTypes, KeptOfGrant
<1>3. CASE removeMapping
  BY <1>3, SendMappingInv DEF removeMapping
<1>4. CASE RemoveUnsent
  <2>1. /\ mapped' = FALSE /\ mapping_lifetime' = 0 /\ 0 \in 0 .. W16 - 1 /\ call = "idle"
        /\ UNCHANGED <<elapsed, late, granted, call, request, reply, lease, age, unheard>>
    BY <1>4, NATAssumption DEF RemoveUnsent, Forget
  <2>2. MappingTypes' /\ OneDatagram' /\ KeptOfGrant'
    BY <2>1 DEF MappingInv, MappingTypes, OneDatagram, KeptOfGrant
  <2>3. StoredIsCovered' /\ AnswerIsCovered' /\ LeaseIsGranted'
    BY <2>1, <2>2 DEF MappingInv, MappingTypes, StoredIsCovered, AnswerIsCovered, LeaseIsGranted, Unserved
  <2> QED BY <2>2, <2>3 DEF MappingInv
<1>5. CASE UNCHANGED mapping_vars
  <2>1. MappingTypes' /\ OneDatagram' /\ KeptOfGrant'
    BY <1>5 DEF mapping_vars, client, MappingInv, MappingTypes, OneDatagram, KeptOfGrant
  <2>2. StoredIsCovered' /\ AnswerIsCovered' /\ LeaseIsGranted'
    BY <1>5 DEF mapping_vars, client, MappingInv, StoredIsCovered, AnswerIsCovered, LeaseIsGranted, Unserved
  <2> QED BY <2>1, <2>2 DEF MappingInv
<1> QED BY <1>1, <1>2, <1>3, <1>4, <1>5, ServeMappingInv, ReceiveMappingInv, LossMappingInv, TickMappingInv DEF MappingNext

\* For every width of mapping_lifetime_, every lifetime and every delay: when
\* refreshMapping sends nothing because less than three quarters of the
\* lifetime have passed, the answer took at most a quarter of it, and none that
\* came later was rejected although the gateway had served the request, the
\* gateway still holds the mapping.
THEOREM FreshIsLeased == MappingSpec => []FreshMeansLeased
<1>1. MappingInv => FreshMeansLeased
  <2> SUFFICES ASSUME MappingInv, Fresh, late <= mapping_lifetime \div 4, ~unheard
               PROVE  lease > 0
    BY DEF FreshMeansLeased
  <2>1. /\ mapping_lifetime \in Nat /\ elapsed \in Nat /\ late \in Nat /\ lease \in Nat
        /\ elapsed < (mapping_lifetime * 3) \div 4
    BY DEF MappingInv, MappingTypes, Fresh, refresh_after
  <2>2. elapsed < Cap /\ late < Cap
    BY <2>1, NATAssumption DEF MappingInv, MappingTypes
  <2>3. lease + late + elapsed >= mapping_lifetime
    BY <2>2 DEF MappingInv, StoredIsCovered, Unserved, Fresh
  <2> QED BY <2>1, <2>3
<1> QED BY <1>1, InitMappingInv, NextMappingInv, PTL DEF MappingSpec

\* The gateway cuts a mapping short, other than by time, only for a map_port or
\* removeMapping of the owner, by its own choice or one the client did not hear
\* of, or for a refresh of a lifetime that mapping_lifetime_ could not hold.
THEOREM OnlyTruncationCuts == MappingSpec => CutShortOnPurpose
<1> DEFINE Excused == \/ call \in {"map", "remove"}
                      \/ lease' < request
                      \/ unheard
                      \/ granted >= W16
           Cut == lease' < lease - 1 => Excused
<1>1. ASSUME MappingInv, [MappingNext]_mapping_vars PROVE [Cut]_mapping_vars
  <2> SUFFICES ASSUME MappingNext, lease' < lease - 1, ~Excused PROVE FALSE
    BY <1>1, Zenon
  <2>0. /\ call \notin {"map", "remove"} /\ ~(lease' < request) /\ ~unheard /\ ~(granted >= W16)
    BY Zenon
  <2> HIDE DEF Excused
  <2>1. lease \in Nat /\ granted \in Nat /\ request \in Nat \cup {None}
    BY <1>1 DEF MappingInv, MappingTypes
  <2>2. ~Tick
    BY <2>1 DEF Tick
  <2>3. lease' # lease
    BY <2>1
  <2>4. Serve
    BY <2>2, <2>3, Zenon DEF MappingNext, map_port, refreshMapping, removeMapping, Send, RemoveUnsent,
       LoseRequest, LoseReply, Receive
  <2>5. request \in Nat /\ call = "refresh"
    BY <1>1, <2>0, <2>1, <2>4 DEF Serve, MappingInv, MappingTypes, OneDatagram
  <2>6. lease <= granted
    BY <1>1, <2>0, <2>4, <2>5 DEF MappingInv, Serve, LeaseIsGranted, Unserved
  <2>7. request = granted % W16
    BY <1>1, <2>5 DEF MappingInv, KeptOfGrant
  <2>8. granted % W16 = granted
    BY <2>0, <2>1, NATAssumption
  <2>9. lease' \in Nat
    BY <1>1, NextMappingInv DEF MappingInv, MappingTypes
  <2> QED BY <2>0, <2>1, <2>5, <2>6, <2>7, <2>8, <2>9
<1>2. MappingInv /\ [MappingNext]_mapping_vars => [Cut]_mapping_vars
  BY <1>1
<1>3. CutShortOnPurpose <=> [][Cut]_mapping_vars
  BY DEF CutShortOnPurpose
<1>4. MappingInv /\ [MappingNext]_mapping_vars => MappingInv'
  BY NextMappingInv
<1> HIDE DEF Cut
<1> QED BY <1>2, <1>3, <1>4, InitMappingInv, PTL DEF MappingSpec
=============================================================================
