------------------------------ MODULE P2PNode ------------------------------
(* network::P2PNode (src/network/P2PNode.cpp): one UDP socket read by two  *)
(* threads at once, the accept thread, which turns a datagram into a       *)
(* connection, and the message thread, which hands it to the registered    *)
(* handler; a management thread that reaps connections; programs that call *)
(* connect_to_peer; and the owner, which calls start and stop.             *)
(*                                                                         *)
(* P2PConnection never sets connected_, so is_connected is false for every *)
(* connection: the reaper erases all of them and pings none.               *)
(*                                                                         *)
(* register_message_handler, disconnect_from_peer and the peer discovery   *)
(* are declared and never defined; what is used of the first is that       *)
(* message_handler_ is set before start, or not at all.                    *)
EXTENDS Naturals, Sequences

CONSTANTS
  Peers,           \* address:port keys
  Clients,         \* threads that call connect_to_peer
  MaxDatagrams,    \* bound: datagrams that arrive
  MaxConnects      \* bound: connect_to_peer calls

ASSUME P2PNodeAssumption ==
  {MaxDatagrams, MaxConnects} \subseteq Nat

None == "none"
Readers == {"accept_connections", "handle_incoming_messages"}

VARIABLES
  close_wakes,   \* whether closing a socket wakes a thread blocked in receive_from:
                 \* on Linux it does not
  message_handler,   \* whether one was registered
  should_stop,
  socket,        \* "closed" before start and after stop, "bound" between
  buffer,        \* datagrams the kernel holds for the socket, oldest first
  connections,
  connections_mutex,
  owner,         \* where the owner is in start and stop
  reader,        \* where each reader thread is
  manager,       \* where manage_connections is
  client,        \* where each client is, and the peer it connects to
  arrived,       \* datagrams so far
  connects,      \* connect_to_peer calls so far
  late           \* history: the handler ran after stop had returned

history == <<close_wakes, message_handler, late>>
vars == <<should_stop, socket, buffer, connections, connections_mutex, owner, reader, manager,
          client, arrived, connects, history>>

Datagrams == [from : Peers, empty : BOOLEAN]
Unstarted == [r \in Readers |-> [pc |-> "unstarted", from |-> None]]

\* register_message_handler, if it is called, comes before start.
register_message_handler == {TRUE, FALSE}

Init ==
  /\ close_wakes \in BOOLEAN
  /\ message_handler \in register_message_handler
  /\ should_stop = FALSE
  /\ socket = "closed"
  /\ buffer = <<>>
  /\ connections = {}
  /\ connections_mutex = None
  /\ owner = "new"
  /\ reader = Unstarted
  /\ manager = "unstarted"
  /\ client = [c \in Clients |-> [pc |-> "idle", peer |-> None]]
  /\ arrived = 0 /\ connects = 0
  /\ late = FALSE

\* The constructor, where another node has been destroyed before.
Construct ==
  /\ should_stop' = FALSE
  /\ socket' = "closed"
  /\ buffer' = <<>>
  /\ connections' = {}
  /\ connections_mutex' = None
  /\ owner' = "new"
  /\ reader' = Unstarted
  /\ manager' = "unstarted"
  /\ UNCHANGED <<client, arrived, connects, history>>

-----------------------------------------------------------------------------
\* start: open and bind may throw, and so may the construction of each thread;
\* the threads that exist by then go on.
start ==
  /\ owner = "new"
  /\ ~should_stop
  /\ \/ owner' = "failed" /\ UNCHANGED <<socket, reader, manager>>
     \/ /\ socket' = "bound"
        /\ \E made \in {{}, {"accept"}, {"accept", "management"}, {"accept", "management", "message"}} :
             /\ owner' = IF "message" \in made THEN "started" ELSE "failed"
             /\ reader' = [r \in Readers |->
                  [pc |-> IF (IF r = "accept_connections" THEN "accept" ELSE "message") \in made
                            THEN "loop" ELSE "unstarted",
                   from |-> None]]
             /\ manager' = IF "management" \in made THEN "loop" ELSE "unstarted"
  /\ UNCHANGED <<should_stop, buffer, connections, connections_mutex, client, arrived, connects,
                 history>>

\* A thread that was never started is not joinable; a started one is joined.
Finished(pc) == pc \in {"unstarted", "done"}

\* Mutant: the message thread is left running.
join_two(w) == w # "message_thread"
joins(w) == TRUE

\* stop: raise the flag, close the socket, join the three threads in order.
RaiseStop ==
  /\ owner \in {"started", "failed"}
  /\ owner' = "close"
  /\ should_stop' = TRUE
  /\ UNCHANGED <<socket, reader, manager>>
CloseSocket ==
  /\ owner = "close"
  /\ owner' = "join accept_thread"
  /\ socket' = "closed"
  /\ UNCHANGED <<should_stop, reader, manager>>
JoinAccept ==
  /\ owner = "join accept_thread"
  /\ Finished(reader["accept_connections"].pc)
  /\ owner' = "join management_thread"
  /\ UNCHANGED <<should_stop, socket, reader, manager>>
JoinManager ==
  /\ owner = "join management_thread"
  /\ Finished(manager)
  /\ owner' = "join message_thread"
  /\ UNCHANGED <<should_stop, socket, reader, manager>>
JoinMessage ==
  /\ owner = "join message_thread"
  /\ joins("message_thread") => Finished(reader["handle_incoming_messages"].pc)
  /\ owner' = "stopped"
  /\ UNCHANGED <<should_stop, socket, reader, manager>>

stop ==
  /\ RaiseStop \/ CloseSocket \/ JoinAccept \/ JoinManager \/ JoinMessage
  /\ UNCHANGED <<buffer, connections, connections_mutex, client, arrived, connects, history>>

-----------------------------------------------------------------------------
At(r, pc) == [reader EXCEPT ![r] = [pc |-> pc, from |-> None]]
ReaderOnly == UNCHANGED <<should_stop, socket, connections_mutex, owner, manager, client, arrived,
                          connects>>

\* Mutant: the loops test nothing.
forever == FALSE
loop_ends == should_stop

\* The loop test, and the call of receive_from on an open or a closed socket.
Loop(r) ==
  /\ reader[r].pc = "loop"
  /\ reader' = At(r, IF loop_ends THEN "done" ELSE "call")
  /\ ReaderOnly /\ UNCHANGED <<buffer, connections, history>>

Call(r) ==
  /\ reader[r].pc = "call"
  /\ reader' = At(r, IF socket = "bound" THEN "blocked" ELSE "loop")
  /\ ReaderOnly /\ UNCHANGED <<buffer, connections, history>>

\* A thread blocked in receive_from when the socket is closed stays blocked
\* unless the platform wakes it with an error.
ClosedUnder(r) ==
  /\ reader[r].pc = "blocked"
  /\ socket = "closed" /\ close_wakes
  /\ reader' = At(r, "loop")
  /\ ReaderOnly /\ UNCHANGED <<buffer, connections, history>>

\* The oldest datagram goes to whichever thread is first. accept_connections
\* makes a connection of it, whose start may fail; handle_incoming_messages runs
\* the handler, if there is one. Neither does anything with an empty datagram.
Receive(r) ==
  /\ reader[r].pc = "blocked" /\ buffer # <<>>
  /\ LET d == Head(buffer) IN
     \/ /\ r = "accept_connections"
        /\ \E pc \in (IF d.empty THEN {"loop"} ELSE {"register", "loop"}) :
             reader' = [reader EXCEPT ![r] = [pc |-> pc, from |-> IF pc = "register" THEN d.from ELSE None]]
        /\ UNCHANGED late
     \/ /\ r = "handle_incoming_messages"
        /\ reader' = At(r, "loop")
        /\ late' = (late \/ (~d.empty /\ message_handler /\ owner = "stopped"))
  /\ buffer' = Tail(buffer)
  /\ ReaderOnly /\ UNCHANGED <<close_wakes, message_handler, connections>>

\* accept_connections stores the connection under the sender's key.
Register(r) ==
  /\ reader[r].pc = "register"
  /\ connections_mutex = None
  /\ connections' = connections \cup {reader[r].from}
  /\ reader' = At(r, "loop")
  /\ ReaderOnly /\ UNCHANGED <<buffer, history>>

Read(r) == Loop(r) \/ Call(r) \/ ClosedUnder(r) \/ Receive(r) \/ Register(r)

-----------------------------------------------------------------------------
\* One round: reap under the mutex, take it again, sleep a second with it
\* held, and let go at the end of the loop body.
manage_connections ==
  /\ \/ /\ manager = "loop"
        /\ manager' = IF should_stop THEN "done" ELSE "reap"
        /\ UNCHANGED <<connections, connections_mutex>>
     \/ /\ manager = "reap" /\ connections_mutex = None
        /\ connections' = {}
        /\ manager' = "lock"
        /\ UNCHANGED connections_mutex
     \/ /\ manager = "lock" /\ connections_mutex = None
        /\ connections_mutex' = "manage_connections"
        /\ manager' = "sleep"
        /\ UNCHANGED connections
     \/ /\ manager = "sleep"
        /\ connections_mutex' = None
        /\ manager' = "loop"
        /\ UNCHANGED connections
  /\ UNCHANGED <<should_stop, socket, buffer, owner, reader, client, arrived, connects, history>>

\* connect_to_peer: the stop flag is tested once, the NAT traversal takes its
\* time and may fail, and the connection is stored whatever happened meanwhile.
connect_to_peer(c) ==
  /\ \/ /\ client[c].pc = "idle" /\ connects < MaxConnects /\ owner # "new"
        /\ connects' = connects + 1
        /\ \E p \in Peers :
             client' = [client EXCEPT ![c] = IF should_stop THEN @ ELSE [pc |-> "traverse", peer |-> p]]
        /\ UNCHANGED connections
     \/ /\ client[c].pc = "traverse"
        /\ \/ client' = [client EXCEPT ![c].pc = "store"]
           \/ client' = [client EXCEPT ![c] = [pc |-> "idle", peer |-> None]]
        /\ UNCHANGED <<connections, connects>>
     \/ /\ client[c].pc = "store" /\ connections_mutex = None
        /\ connections' = connections \cup {client[c].peer}
        /\ client' = [client EXCEPT ![c] = [pc |-> "idle", peer |-> None]]
        /\ UNCHANGED connects
  /\ UNCHANGED <<should_stop, socket, buffer, connections_mutex, owner, reader, manager, arrived,
                 history>>

\* A datagram arrives as long as the kernel holds the socket: while it is
\* bound, or a thread blocked on it keeps it alive.
Arrive ==
  /\ arrived < MaxDatagrams
  /\ socket = "bound" \/ \E r \in Readers : reader[r].pc = "blocked"
  /\ arrived' = arrived + 1
  /\ \E d \in Datagrams : buffer' = Append(buffer, d)
  /\ UNCHANGED <<should_stop, socket, connections, connections_mutex, owner, reader, manager,
                 client, connects, history>>

Next ==
  \/ start \/ stop \/ Arrive \/ manage_connections
  \/ \E r \in Readers : Read(r)
  \/ \E c \in Clients : connect_to_peer(c)

Spec == Init /\ [][Next]_vars

\* Threads are scheduled preemptively and sleeps end; nobody owes the node a
\* datagram, no client has to call, and no owner has to start or stop.
FairSpec ==
  /\ Spec
  /\ WF_vars(stop /\ owner \notin {"started", "failed"})
  /\ WF_vars(manage_connections)
  /\ \A r \in Readers : WF_vars(Read(r))

-----------------------------------------------------------------------------

\* Once stop has returned the owner may be destroyed: the message handler,
\* which captures it, is never run again, and no reader is in the socket.
HandlerDoneAfterStop ==
  owner = "stopped" => ~late /\ \A r \in Readers : Finished(reader[r].pc)

\* stop, once called, returns, unless closing the socket wakes nobody and a
\* reader waits in it for a datagram that never comes.
StopReturns ==
  \/ (owner = "close") ~> (owner = "stopped")
  \/ /\ ~close_wakes
     /\ \E r \in Readers : <>[](socket = "closed" /\ buffer = <<>> /\ reader[r].pc = "blocked")
=============================================================================
