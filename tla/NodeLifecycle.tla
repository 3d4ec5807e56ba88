--------------------------- MODULE NodeLifecycle ---------------------------
(* Who owns a P2PNode, and for how long: a program that uses it directly;  *)
(* a QuidsControl (src/control), whose QuidsNode (src/node) makes one; or  *)
(* quids start (src/cli), whose QuidsNode is a local variable.  The        *)
(* commands quids start and quids stop are processes of their own.         *)
(*                                                                         *)
(* A QuidsNode constructs its P2PNode inside start and leaves it running:  *)
(* stop only clears running_, and the threads end when the QuidsNode is    *)
(* destroyed, p2p_node_ before the logger_ that the handler uses.          *)
EXTENDS P2PNode

CONSTANTS
  Configs,        \* configurations
  BadPeer,        \* those with a bootstrap peer whose port is no number
  SamePorts,      \* those whose listen port is their RPC port
  NoDataDir,      \* those with an empty data directory
  MaxCommands     \* bound: calls made to the controller and the command line

ASSUME NodeAssumption ==
  /\ BadPeer \cup SamePorts \cup NoDataDir \subseteq Configs
  /\ "none" \notin Configs
  /\ MaxCommands \in Nat

VARIABLES
  user,      \* who owns the P2PNode: "program", "control" or "command"
  node_,     \* the QuidsNode, or NoNode
  at,        \* where the call is that the user has made
  after,     \* what follows the destruction of the node, or its start
  exit,      \* the exit codes of quids start and quids stop
  commands

control_vars == <<user, node_, at, after, exit, commands>>
node_vars == <<vars, control_vars>>

NoNode == [running |-> "no", config |-> "none"]

NodeInit ==
  /\ Init
  /\ user \in {"program", "control", "command"}
  /\ user # "program" => message_handler
  /\ node_ = NoNode
  /\ at = "idle" /\ after = "return"
  /\ exit = [start |-> "none", stop |-> "none"]
  /\ commands = 0

Command == commands < MaxCommands /\ commands' = commands + 1

-----------------------------------------------------------------------------
(* QuidsNode *)

\* The constructor, and start as far as the construction of the P2PNode.
QuidsNode(config) ==
  /\ node_' = [running |-> "no", config |-> config]
  /\ at' = "network"
  /\ Construct

\* start has returned: quids start destroys the node at once.
Returned == IF after = "exit" THEN "destroy" ELSE "idle"
ExitCode(code) == exit' = IF after = "exit" THEN [exit EXCEPT !.start = code] ELSE exit

\* initializeNetwork starts the P2PNode.
StartNetwork ==
  /\ at = "network"
  /\ start
  /\ \/ owner' = "started" /\ at' = "peers" /\ UNCHANGED exit
     \/ owner' = "failed" /\ at' = Returned /\ ExitCode("1")
  /\ UNCHANGED <<user, node_, after, commands>>

\* Then it parses the bootstrap peers. An entry without a colon is skipped; a
\* port that stoi rejects throws, with the threads already running.
AddPeers ==
  /\ at = "peers"
  /\ \/ node_.config \in BadPeer /\ UNCHANGED node_ /\ ExitCode("1")
     \/ node_.config \notin BadPeer /\ node_' = [node_ EXCEPT !.running = "yes"] /\ ExitCode("0")
  /\ at' = Returned
  /\ UNCHANGED <<vars, user, after, commands>>

\* stop answers whether the node was running.
stops(n) == n.running = "yes"

\* Mutant: the threads are not waited for.
detached == at = "destroy"

\* The destructor of QuidsNode runs that of P2PNode, which is stop and cleanup.
destroyed == at = "destroy" /\ owner = "stopped"

StopNetwork == at = "destroy" /\ stop /\ UNCHANGED control_vars

Destroyed ==
  /\ destroyed
  /\ \/ after = "start" /\ QuidsNode(node_.config) /\ after' = "return"
     \/ /\ after # "start"
        /\ node_' = NoNode
        /\ connections' = {}
        /\ at' = IF after = "exit" THEN "exited" ELSE "idle"
        /\ UNCHANGED <<should_stop, socket, buffer, connections_mutex, owner, reader, manager,
                       client, arrived, connects, history, after>>
  /\ UNCHANGED <<user, exit, commands>>

-----------------------------------------------------------------------------
(* QuidsControl *)

\* Mutant: a node that does not run is replaced by the new one.
occupied_by_running(n) == stops(n)
occupied(n) == n # NoNode

\* startNode keeps the node whether or not its start succeeds.
startNode(config) ==
  /\ at = "idle" /\ Command
  /\ IF occupied(node_) THEN UNCHANGED <<vars, node_, at>> ELSE QuidsNode(config)
  /\ UNCHANGED <<user, after, exit>>

\* stopNode gives up a node only if the node says it was running; restartNode
\* goes on with startNode and the configuration the node had.
stopNode(then) ==
  /\ at = "idle" /\ Command
  /\ IF stops(node_)
     THEN node_' = [node_ EXCEPT !.running = "no"] /\ at' = "destroy" /\ after' = then
     ELSE UNCHANGED <<node_, at, after>>
  /\ UNCHANGED <<vars, user, exit>>

restartNode == stopNode("start")

\* The destructor tries stopNode and destroys the node in any case; another
\* controller may be constructed in its place.
Destroy ==
  /\ at = "idle" /\ node_ # NoNode /\ Command
  /\ node_' = [node_ EXCEPT !.running = "no"]
  /\ at' = "destroy" /\ after' = "return"
  /\ UNCHANGED <<vars, user, exit>>

-----------------------------------------------------------------------------
(* The commands *)

validateConfig(config) == config \notin SamePorts \cup NoDataDir

StartCommand(config) ==
  /\ at = "idle" /\ Command
  /\ IF validateConfig(config)
     THEN QuidsNode(config) /\ after' = "exit" /\ UNCHANGED exit
     ELSE /\ at' = "exited" /\ exit' = [exit EXCEPT !.start = "1"]
          /\ UNCHANGED <<vars, node_, after>>
  /\ UNCHANGED user

\* quids stop asks a controller constructed for the purpose, which has no node.
StopCommand ==
  /\ Command
  /\ exit' = [exit EXCEPT !.stop = IF stops(NoNode) THEN "0" ELSE "1"]
  /\ UNCHANGED <<vars, user, node_, at, after>>

Threads == Arrive \/ manage_connections \/ \E r \in Readers : Read(r)

NodeNext ==
  \/ Threads /\ UNCHANGED control_vars
  \/ StartNetwork \/ AddPeers \/ StopNetwork \/ Destroyed
  \/ user = "program" /\ (start \/ stop \/ \E c \in Clients : connect_to_peer(c)) /\ UNCHANGED control_vars
  \/ user = "control" /\ (Destroy \/ stopNode("return") \/ restartNode \/ \E k \in Configs : startNode(k))
  \/ user = "command" /\ (StopCommand \/ \E k \in Configs : StartCommand(k))

NodeSpec == NodeInit /\ [][NodeNext]_node_vars

\* Threads are scheduled preemptively and sleeps end; a call that was made runs
\* on. Nobody owes the node a datagram, and nobody has to call anything.
FairNodeSpec ==
  /\ NodeSpec
  /\ WF_node_vars(StartNetwork \/ AddPeers \/ StopNetwork \/ Destroyed)
  /\ WF_node_vars(user = "program" /\ stop /\ owner \notin {"started", "failed"} /\ UNCHANGED control_vars)
  /\ WF_node_vars(manage_connections /\ UNCHANGED control_vars)
  /\ \A r \in Readers : WF_node_vars(Read(r) /\ UNCHANGED control_vars)

-----------------------------------------------------------------------------
\* The threads of a P2PNode live no longer than the QuidsNode that its handler
\* captures: when a controller has no node, and when it makes the next one, no
\* thread of the last one is left, and no connection.
ThreadsOnlyWhileOwned ==
  user # "program" /\ (node_ = NoNode \/ at = "network") =>
    /\ \A r \in Readers : Finished(reader[r].pc)
    /\ Finished(manager)
    /\ connections = {} /\ ~late

\* A controller whose node failed to start is stuck: start, stop and restart
\* change nothing, not even the threads and the socket that the failed start may
\* have left behind, and only its destructor gets rid of the node.
Stuck == user = "control" /\ at = "idle" /\ node_ # NoNode /\ ~stops(node_)

StuckUntilDestroyed ==
  [][Stuck => at' = "destroy" \/ UNCHANGED <<node_, at, owner, socket, should_stop>>]_node_vars
=============================================================================
