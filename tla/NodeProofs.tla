----------------------------- MODULE NodeProofs -----------------------------
(***************************************************************************)
(* Who outlives whom, for any peers, clients, datagrams and configurations *)
(* and any sequence of starts, stops, restarts and destructions.           *)
(*                                                                         *)
(* A thread that stop has joined never runs again, so each join of stop    *)
(* adds a finished thread to those finished before; and a QuidsNode is     *)
(* replaced or given up only once its P2PNode has gone through all of them.*)
(***************************************************************************)
EXTENDS NodeLifecycle, TLAPS

accept == "accept_connections"
message == "handle_incoming_messages"

Joined ==
  /\ reader = [r \in Readers |-> reader[r]]
  /\ owner = "new" => Finished(reader[accept].pc) /\ Finished(manager) /\ Finished(reader[message].pc)
  /\ owner \in {"join management_thread", "join message_thread", "stopped"} => Finished(reader[accept].pc)
  /\ owner \in {"join message_thread", "stopped"} => Finished(manager)
  /\ owner = "stopped" => Finished(reader[message].pc)
  /\ late = FALSE

\* The P2PNode of a QuidsNode that does not exist, or not yet, is new or stopped
\* and holds no connection.
Owned ==
  /\ node_ \in [running : {"yes", "no"}, config : Configs \cup {"none"}]
  /\ node_ # NoNode => node_.config \in Configs
  /\ user = "program" => node_ = NoNode /\ at = "idle"
  /\ user # "program" /\ at = "network" => owner = "new" /\ connections = {}
  /\ user # "program" /\ node_ = NoNode => owner \in {"new", "stopped"} /\ connections = {} /\ at \in {"idle", "exited"}

NodeInv == Joined /\ Owned

\* What no thread of the node touches.
LEMMA ThreadsLeave ==
  ASSUME Threads
  PROVE  UNCHANGED <<owner, socket, should_stop>>
  BY DEF Threads, Arrive, manage_connections, Read, Loop, Call, ClosedUnder, Receive, Register, ReaderOnly

\* A thread that has finished takes no step.
LEMMA ThreadsJoined ==
  ASSUME Joined, Threads
  PROVE  /\ Joined'
         /\ owner \in {"new", "stopped"} => connections' = connections
<1>1. UNCHANGED owner
  BY ThreadsLeave
<1>2. accept \in Readers /\ message \in Readers
  BY DEF accept, message, Readers
<1>3. CASE Arrive
  BY <1>1, <1>3, Zenon DEF Arrive, Joined, history
<1>4. CASE manage_connections
  <2>1. ~Finished(manager)
    BY <1>4 DEF manage_connections, Finished
  <2>2. UNCHANGED <<reader, late>>
    BY <1>4 DEF manage_connections, history
  <2> QED BY <1>1, <2>1, <2>2, Zenon DEF Joined
<1>5. ASSUME NEW r \in Readers, Read(r)
      PROVE  Joined' /\ (owner \in {"new", "stopped"} => connections' = connections)
  <2>1. ~Finished(reader[r].pc)
    BY <1>5 DEF Read, Loop, Call, ClosedUnder, Receive, Register, Finished
  <2>2. UNCHANGED manager
    BY <1>5 DEF Read, Loop, Call, ClosedUnder, Receive, Register, ReaderOnly
  <2>3. \E x : reader' = [reader EXCEPT ![r] = x]
    BY <1>5 DEF Read, Loop, Call, ClosedUnder, Receive, Register, At
  <2>4. reader' = [q \in Readers |-> reader'[q]] /\ \A q \in Readers : q # r => reader'[q] = reader[q]
    BY <2>3 DEF Joined
  <2>5. r = accept \/ r = message
    BY DEF Readers, accept, message
  <2>6. owner \notin {"new", "stopped"}
    BY <2>1, <2>5, Zenon DEF Joined
  <2>7. late' = FALSE
    <3>1. CASE Receive(r)
      BY <2>6, <3>1, Zenon DEF Receive, Joined
    <3>2. CASE Loop(r) \/ Call(r) \/ ClosedUnder(r) \/ Register(r)
      BY <3>2, Zenon DEF Loop, Call, ClosedUnder, Register, history, Joined
    <3> QED BY <1>5, <3>1, <3>2, Zenon DEF Read
  <2> QED BY <1>1, <1>2, <2>1, <2>2, <2>4, <2>6, <2>7, Zenon DEF Joined
<1> QED BY <1>3, <1>4, <1>5, Zenon DEF Threads

\* start makes threads, and leaves the node no longer new.
LEMMA StartJoined ==
  ASSUME Joined, start
  PROVE  Joined' /\ owner = "new" /\ owner' \in {"failed", "started"}
<1>1. owner = "new" /\ owner' \in {"failed", "started"} /\ UNCHANGED late
  BY DEF start, history
<1>2. reader' = [r \in Readers |-> reader'[r]]
  BY DEF start, Joined
<1> QED BY <1>1, <1>2, Zenon DEF Joined

\* The joins of stop add up.
LEMMA StopJoined ==
  ASSUME Joined, stop
  PROVE  Joined' /\ owner \notin {"new", "stopped"} /\ UNCHANGED connections
<1>1. UNCHANGED <<reader, manager, late, connections>>
  BY DEF stop, RaiseStop, CloseSocket, JoinAccept, JoinManager, JoinMessage, history
<1>2. CASE RaiseStop \/ CloseSocket
  BY <1>1, <1>2, Zenon DEF RaiseStop, CloseSocket, Joined
<1>3. CASE JoinAccept
  BY <1>1, <1>3, Zenon DEF JoinAccept, Joined, accept
<1>4. CASE JoinManager
  BY <1>1, <1>4, Zenon DEF JoinManager, Joined
<1>5. CASE JoinMessage
  BY <1>1, <1>5, Zenon DEF JoinMessage, joins, Joined, message
<1> QED BY <1>2, <1>3, <1>4, <1>5 DEF stop

\* A node that has just been constructed has no threads.
LEMMA ConstructJoined ==
  ASSUME Joined, Construct
  PROVE  Joined' /\ owner' = "new" /\ connections' = {}
<1>1. owner' = "new" /\ connections' = {} /\ late' = late /\ manager' = "unstarted" /\ reader' = Unstarted
  BY DEF Construct, history
<1>2. \A r \in Readers : Unstarted[r].pc = "unstarted"
  BY DEF Unstarted
<1>3. reader' = [r \in Readers |-> reader'[r]] /\ reader'[accept].pc = "unstarted" /\ reader'[message].pc = "unstarted"
  BY <1>1, <1>2 DEF Unstarted, accept, message, Readers
<1> QED BY <1>1, <1>3, Zenon DEF Joined, Finished

\* Every step keeps threads, node and controller in agreement.
LEMMA NodeStep == NodeInv /\ [NodeNext]_node_vars => NodeInv'
<1> SUFFICES ASSUME Joined, Owned, [NodeNext]_node_vars PROVE Joined' /\ Owned'
  BY DEF NodeInv
<1>1. ASSUME UNCHANGED vars PROVE Joined' /\ UNCHANGED <<owner, connections>>
  BY <1>1, Zenon DEF vars, history, Joined
<1>2. CASE UNCHANGED node_vars
  BY <1>1, <1>2, Zenon DEF node_vars, control_vars, Owned
<1>3. CASE Threads /\ UNCHANGED control_vars
  BY <1>3, ThreadsLeave, ThreadsJoined, Zenon DEF control_vars, Owned
<1>4. ASSUME NEW k \in Configs, QuidsNode(k), user # "program", UNCHANGED user PROVE Joined' /\ Owned'
  <2>1. node_' = [running |-> "no", config |-> k] /\ node_'.config = k
    BY <1>4 DEF QuidsNode
  <2>2. node_' # NoNode
    BY <2>1, NodeAssumption DEF NoNode
  <2>3. node_' \in [running : {"yes", "no"}, config : Configs \cup {"none"}]
    BY <2>1
  <2>4. Construct
    BY <1>4 DEF QuidsNode
  <2> QED BY <1>4, <2>1, <2>2, <2>3, <2>4, ConstructJoined, Zenon DEF Owned
\* A node that is marked running or not running is still a node.
<1>5. ASSUME node_ # NoNode, NEW b \in {"yes", "no"}, node_' = [node_ EXCEPT !.running = b]
      PROVE  /\ node_' # NoNode /\ node_'.config \in Configs
             /\ node_' \in [running : {"yes", "no"}, config : Configs \cup {"none"}]
  <2>1. node_.config \in Configs /\ node_ \in [running : {"yes", "no"}, config : Configs \cup {"none"}]
    BY <1>5 DEF Owned
  <2>2. node_' \in [running : {"yes", "no"}, config : Configs \cup {"none"}] /\ node_'.config = node_.config
    BY <1>5, <2>1
  <2>3. NoNode.config = "none"
    BY DEF NoNode
  <2> QED BY <2>1, <2>2, <2>3, NodeAssumption, Zenon
<1>6. CASE StartNetwork
  <2>1. /\ start /\ at = "network" /\ UNCHANGED <<user, node_>>
        /\ at' \in {"peers", "destroy", "idle"}
    BY <1>6 DEF StartNetwork, Returned
  <2>2. user # "program" /\ node_ # NoNode
    BY <2>1, Zenon DEF Owned
  <2> QED BY <2>1, <2>2, StartJoined, Zenon DEF Owned
<1>7. CASE AddPeers
  <2>1. /\ at = "peers" /\ UNCHANGED <<user, vars>> /\ at' \in {"destroy", "idle"}
        /\ node_' = node_ \/ node_' = [node_ EXCEPT !.running = "yes"]
    BY <1>7 DEF AddPeers, Returned
  <2>2. user # "program" /\ node_ # NoNode
    BY <2>1, Zenon DEF Owned
  <2> QED BY <1>1, <1>5, <2>1, <2>2, Zenon DEF Owned
<1>8. CASE StopNetwork
  BY <1>8, StopJoined, Zenon DEF StopNetwork, control_vars, Owned
<1>9. CASE Destroyed
  <2>1. at = "destroy" /\ owner = "stopped" /\ UNCHANGED user
    BY <1>9 DEF Destroyed, destroyed
  <2>2. user # "program" /\ node_ # NoNode /\ node_.config \in Configs
    BY <2>1, Zenon DEF Owned
  <2>3. CASE after = "start"
    <3>1. QuidsNode(node_.config)
      BY <1>9, <2>3, Zenon DEF Destroyed
    <3> QED BY <1>4, <2>1, <2>2, <3>1, Zenon
  <2>4. CASE after # "start"
    <3>1. node_' = NoNode /\ connections' = {} /\ at' \in {"exited", "idle"} /\ UNCHANGED <<owner, reader, manager, late>>
      BY <1>9, <2>4 DEF Destroyed, history
    <3>2. NoNode \in [running : {"yes", "no"}, config : Configs \cup {"none"}]
      BY DEF NoNode
    <3>3. Joined'
      BY <3>1, Zenon DEF Joined
    <3> QED BY <2>1, <2>2, <3>1, <3>2, <3>3, Zenon DEF Owned
  <2> QED BY <2>3, <2>4
<1>10. CASE user = "program" /\ (start \/ stop \/ \E c \in Clients : connect_to_peer(c)) /\ UNCHANGED control_vars
  <2>1. Owned'
    BY <1>10, Zenon DEF control_vars, Owned
  <2>2. ASSUME NEW c \in Clients, connect_to_peer(c) PROVE Joined'
    BY <2>2, Zenon DEF connect_to_peer, history, Joined
  <2> QED BY <1>10, <2>1, <2>2, StartJoined, StopJoined, Zenon
<1>11. CASE user = "control" /\ (Destroy \/ stopNode("return") \/ restartNode \/ \E k \in Configs : startNode(k))
  <2>1. ASSUME Destroy \/ \E then : stopNode(then) PROVE Joined' /\ Owned'
    <3>1. /\ UNCHANGED <<vars, user>> /\ at = "idle"
          /\ \/ UNCHANGED <<node_, at>>
             \/ at' = "destroy" /\ node_ # NoNode /\ node_' = [node_ EXCEPT !.running = "no"]
      BY <2>1 DEF Destroy, stopNode, stops, NoNode
    <3> QED BY <1>1, <1>5, <1>11, <3>1, Zenon DEF Owned
  <2>2. ASSUME NEW k \in Configs, startNode(k) PROVE Joined' /\ Owned'
    <3>1. CASE UNCHANGED <<vars, node_, at>>
      BY <1>1, <2>2, <3>1, Zenon DEF startNode, Owned
    <3>2. CASE QuidsNode(k)
      BY <1>4, <1>11, <2>2, <3>2, Zenon DEF startNode
    <3> QED BY <2>2, <3>1, <3>2, Zenon DEF startNode
  <2> QED BY <1>11, <2>1, <2>2, Zenon DEF restartNode
<1>12. CASE user = "command" /\ (StopCommand \/ \E k \in Configs : StartCommand(k))
  <2>1. ASSUME StopCommand PROVE Joined' /\ Owned'
    BY <1>1, <2>1, Zenon DEF StopCommand, Owned
  <2>2. ASSUME NEW k \in Configs, StartCommand(k) PROVE Joined' /\ Owned'
    <3>1. CASE validateConfig(k)
      BY <1>4, <1>12, <2>2, <3>1, Zenon DEF StartCommand
    <3>2. CASE ~validateConfig(k)
      <4>1. UNCHANGED <<vars, user, node_>> /\ at' = "exited"
        BY <2>2, <3>2, Zenon DEF StartCommand
      <4> QED BY <1>1, <1>12, <4>1, Zenon DEF Owned
    <3> QED BY <3>1, <3>2
  <2> QED BY <1>12, <2>1, <2>2, Zenon
<1> QED
  BY <1>2, <1>3, <1>6, <1>7, <1>8, <1>9, <1>10, <1>11, <1>12, ZenonT(30) DEF NodeNext

\* The agreement holds from the first state on.
LEMMA AlwaysOwned == NodeSpec => []NodeInv
<1>1. NodeInit => NodeInv
  <2> SUFFICES ASSUME NodeInit PROVE Joined /\ Owned
    BY DEF NodeInv
  <2>1. Owned
    BY DEF NodeInit, Init, Owned, NoNode
  <2>2. /\ reader = Unstarted /\ manager = "unstarted" /\ owner = "new" /\ late = FALSE
    BY DEF NodeInit, Init
  <2>3. reader = [r \in Readers |-> reader[r]] /\ reader[accept].pc = "unstarted" /\ reader[message].pc = "unstarted"
    BY <2>2 DEF Unstarted, accept, message, Readers
  <2> QED BY <2>1, <2>2, <2>3, Zenon DEF Joined, Finished
<1> QED BY <1>1, NodeStep, PTL DEF NodeSpec

-----------------------------------------------------------------------------

\* Once stop has returned no reader is in the socket, and the message handler
\* has not run and will not run again, whoever owns the node.
THEOREM StopEndsTheHandler == NodeSpec => []HandlerDoneAfterStop
<1>1. NodeInv => HandlerDoneAfterStop
  BY DEF NodeInv, Joined, HandlerDoneAfterStop, Readers, accept, message
<1> QED BY <1>1, AlwaysOwned, PTL

\* For any sequence of starts, failed starts, stops, restarts and destructions,
\* no thread and no connection of a P2PNode outlives the QuidsNode it belongs to.
THEOREM ThreadsEndWithTheNode == NodeSpec => []ThreadsOnlyWhileOwned
<1>1. NodeInv => ThreadsOnlyWhileOwned
  BY DEF NodeInv, Joined, Owned, ThreadsOnlyWhileOwned, Readers, accept, message
<1> QED BY <1>1, AlwaysOwned, PTL

\* A controller whose node failed to start keeps that node, its socket and its
\* threads until its destructor runs: no start, stop or restart gets it going.
THEOREM FailedNodeBlocks == NodeSpec => StuckUntilDestroyed
<1> DEFINE Blocked == Stuck => at' = "destroy" \/ UNCHANGED <<node_, at, owner, socket, should_stop>>
<1>1. [NodeNext]_node_vars => [Blocked]_node_vars
  <2> SUFFICES ASSUME NodeNext, Stuck
               PROVE  at' = "destroy" \/ UNCHANGED <<node_, at, owner, socket, should_stop>>
    OBVIOUS
  <2>1. user = "control" /\ at = "idle" /\ node_ # NoNode /\ ~stops(node_)
    BY DEF Stuck
  <2>2. CASE Threads /\ UNCHANGED control_vars
    BY <2>2, ThreadsLeave DEF control_vars
  <2>3. CASE Destroy
    BY <2>3 DEF Destroy
  <2>4. CASE stopNode("return") \/ restartNode
    BY <2>1, <2>4 DEF restartNode, stopNode, vars
  <2>5. CASE \E k \in Configs : startNode(k)
    BY <2>1, <2>5 DEF startNode, occupied, vars
  <2>6. ~(StartNetwork \/ AddPeers \/ StopNetwork \/ Destroyed)
    BY <2>1 DEF StartNetwork, AddPeers, StopNetwork, Destroyed, destroyed
  <2> QED BY <2>1, <2>2, <2>3, <2>4, <2>5, <2>6 DEF NodeNext
<1>2. StuckUntilDestroyed <=> [][Blocked]_node_vars
  BY DEF StuckUntilDestroyed
<1> HIDE DEF Blocked
<1> QED BY <1>1, <1>2, PTL DEF NodeSpec
=============================================================================
