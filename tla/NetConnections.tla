--------------------------- MODULE NetConnections ---------------------------
(***************************************************************************)
(* The connections of src/src/net.c and the threads that share them: the   *)
(* game's thread calls net_connect once, net_update in a loop and          *)
(* net_destroy; the receive thread finds or creates the connection of each *)
(* packet it gets; each connection has a send thread and two queues.  A    *)
(* mutex guards the table of connections in some places and not in others. *)
(*                                                                         *)
(* A send queue is pushed by the game's thread and popped by the send      *)
(* thread, a receive queue the other way round, so a push and a pop are    *)
(* single steps here (module QueueSpsc).                                   *)
(***************************************************************************)
EXTENDS Naturals, Sequences

CONSTANTS
  Addresses,       \* of the peers
  MaxConnections,  \* size of net->connections: 3
  QueueMax,        \* capacity of the queues: 3
  None,            \* no address (port 0), no connection
  PacketBound      \* bound of the model: packets received

Slots == 1 .. MaxConnections
Threads == {"game", "recv"}

ASSUME ConnectionsAssumption ==
  /\ None \notin Addresses /\ None \notin Threads
  /\ MaxConnections \in Nat \ {0} /\ QueueMax \in Nat \ {0} /\ PacketBound \in Nat

VARIABLES
  connections,  \* of each slot: [address, made, stale, late]; made: the queues
                \* exist; stale: nothing came for k_timeout_ms; late (history):
                \* created after net_disconnect_all
  send_queue,   \* of each slot: "packet"s and "NULL"s
  recv_queue,   \* of each slot: the addresses its packets came from
  send_thread,  \* of each slot: "none", "pop", and "exit" or
                \* "failed" once it has ended
  mutex,        \* the thread that holds connections_mutex, or None
  pc,           \* where the game's and the receive thread are; "crashed" once
                \* it has used a queue that does not exist
  slot,         \* of both: the connection they are at, or None
  from,         \* of both: the address they look for
  open,         \* whether the socket is open
  received      \* number of packets received

queues == <<send_queue, recv_queue>>
vars == <<connections, queues, send_thread, mutex, pc, slot, from, open, received>>

Unused == [address |-> None, made |-> FALSE, stale |-> FALSE, late |-> FALSE]
FirstOf(S) == CHOOSE i \in S : \A j \in S : i <= j
Goto(t, a, b) == pc[t] = a /\ pc' = [pc EXCEPT ![t] = b]

Init ==
  /\ connections = [i \in Slots |-> Unused]
  /\ send_queue = [i \in Slots |-> << >>] /\ recv_queue = [i \in Slots |-> << >>]
  /\ send_thread = [i \in Slots |-> "none"]
  /\ mutex = None
  /\ pc = [t \in Threads |-> IF t = "game" THEN "start" ELSE "recvfrom"]
  /\ slot = [t \in Threads |-> None] /\ from = [t \in Threads |-> None]
  /\ open = TRUE /\ received = 0
-----------------------------------------------------------------------------
(* find_or_create_connection, by either thread *)

(* What a thread does after it. *)
After(t) == IF t = "game" THEN "idle" ELSE "stamp"

(* Mutant: the mutex is not waited for. *)
FindLockNever(t) ==
  /\ Goto(t, "lock", "find")
  /\ mutex' = t
  /\ UNCHANGED <<connections, queues, send_thread, slot, from, open, received>>

FindLock(t) ==
  /\ Goto(t, "lock", "find")
  /\ mutex = None
  /\ mutex' = t
  /\ UNCHANGED <<connections, queues, send_thread, slot, from, open, received>>

(* The connection of the address; "Too many connections!" if there is none and
   no slot is free. *)
Find(t) ==
  LET known == {i \in Slots : connections[i].address = from[t]}
      free == {i \in Slots : connections[i].address = None}
  IN  /\ known # {} \/ free = {}
      /\ Goto(t, "find", IF known = {} THEN (IF t = "game" THEN "idle" ELSE "recvfrom") ELSE After(t))
      /\ slot' = [slot EXCEPT ![t] = IF known = {} THEN None ELSE FirstOf(known)]
      /\ mutex' = None
      /\ UNCHANGED <<connections, queues, send_thread, from, open, received>>

(* A slot that a thread has taken for the address it looks for. *)
Claimed(t) ==
  [address |-> from[t], made |-> FALSE, stale |-> FALSE, late |-> pc["game"] \in {"close", "join_recv", "end"}]

(* Mutant: the search for the address ends at the first free slot. *)
CreateFirst(t) ==
  LET free == {i \in Slots : connections[i].address = None}
  IN  /\ free # {}
      /\ \A i \in Slots : i < FirstOf(free) => connections[i].address # from[t]
      /\ Goto(t, "find", "make")
      /\ slot' = [slot EXCEPT ![t] = FirstOf(free)]
      /\ connections' = [connections EXCEPT ![FirstOf(free)] = Claimed(t)]
      /\ UNCHANGED <<queues, send_thread, mutex, from, open, received>>

(* A free slot gets the address first ... *)
Create(t) ==
  LET free == {i \in Slots : connections[i].address = None}
  IN  /\ \A i \in Slots : connections[i].address # from[t]
      /\ free # {}
      /\ Goto(t, "find", "make")
      /\ slot' = [slot EXCEPT ![t] = FirstOf(free)]
      /\ connections' = [connections EXCEPT ![FirstOf(free)] = Claimed(t)]
      /\ UNCHANGED <<queues, send_thread, mutex, from, open, received>>

(* ... and then its queues and its send thread. *)
Make(t) ==
  /\ Goto(t, "make", After(t))
  /\ connections' = [connections EXCEPT ![slot[t]].made = TRUE]
  /\ send_queue' = [send_queue EXCEPT ![slot[t]] = << >>]
  /\ recv_queue' = [recv_queue EXCEPT ![slot[t]] = << >>]
  /\ send_thread' = [send_thread EXCEPT ![slot[t]] = "pop"]
  /\ mutex' = None
  /\ UNCHANGED <<slot, from, open, received>>

FindOrCreate(t) == FindLock(t) \/ Find(t) \/ Create(t) \/ Make(t)
-----------------------------------------------------------------------------
(* The game's thread *)

(* net_connect: simple_game_create calls it at most once, before any update. *)
Connect(a) ==
  /\ Goto("game", "start", "lock")
  /\ from' = [from EXCEPT !["game"] = a]
  /\ UNCHANGED <<connections, queues, send_thread, mutex, slot, open, received>>

(* The calls of net_update and of net_destroy, which lock the mutex to stop
   the old connections (timeout_old_connections) or all of them
   (net_disconnect_all). *)
StopCall(call) ==
  /\ pc["game"] \in {"start", "idle"} /\ mutex = None
  /\ mutex' = "game"
  /\ pc' = [pc EXCEPT !["game"] = call]
  /\ slot' = [slot EXCEPT !["game"] = 1]
  /\ UNCHANGED <<connections, queues, send_thread, from, open, received>>

Stopping == pc["game"] \in {"timeout", "disconnect"}
Stopped(i) ==
  /\ connections[i].address # None
  /\ pc["game"] = "timeout" => connections[i].stale

(* Mutant: the push does not wait for room. *)
StopPushForced ==
  LET i == slot["game"]
  IN  /\ Stopping /\ i \in Slots /\ Stopped(i)
      /\ send_queue' = [send_queue EXCEPT ![i] = Append(@, "NULL")]
      /\ pc' = [pc EXCEPT !["game"] = IF @ = "timeout" THEN "timeout_join" ELSE "disconnect_join"]
      /\ UNCHANGED <<connections, recv_queue, send_thread, mutex, slot, from, open, received>>

(* The thread of the connection is told to end ... *)
StopPush ==
  LET i == slot["game"]
  IN  /\ Stopping /\ i \in Slots /\ Stopped(i)
      /\ Len(send_queue[i]) < QueueMax
      /\ send_queue' = [send_queue EXCEPT ![i] = Append(@, "NULL")]
      /\ pc' = [pc EXCEPT !["game"] = IF @ = "timeout" THEN "timeout_join" ELSE "disconnect_join"]
      /\ UNCHANGED <<connections, recv_queue, send_thread, mutex, slot, from, open, received>>

(* ... and waited for; the queues are destroyed and the connection cleared. *)
StopJoin ==
  LET i == slot["game"]
  IN  /\ pc["game"] \in {"timeout_join", "disconnect_join"}
      /\ send_thread[i] \in {"exit", "failed"}
      /\ send_thread' = [send_thread EXCEPT ![i] = "none"]
      /\ pc' = [pc EXCEPT !["game"] = IF @ = "timeout_join" THEN "timeout" ELSE "disconnect"]
      /\ connections' = [connections EXCEPT ![i] = Unused]
      /\ send_queue' = [send_queue EXCEPT ![i] = << >>]
      /\ recv_queue' = [recv_queue EXCEPT ![i] = << >>]
      /\ slot' = [slot EXCEPT !["game"] = i + 1]
      /\ UNCHANGED <<mutex, from, open, received>>

StopSkip ==
  LET i == slot["game"]
  IN  /\ Stopping /\ i \in Slots /\ ~Stopped(i)
      /\ slot' = [slot EXCEPT !["game"] = i + 1]
      /\ UNCHANGED <<connections, queues, send_thread, mutex, pc, from, open, received>>

(* Unlock; net_update goes on to the packets. *)
StopDone ==
  /\ Stopping /\ slot["game"] = MaxConnections + 1
  /\ mutex' = None
  /\ pc' = [pc EXCEPT !["game"] = IF @ = "timeout" THEN "packets" ELSE "close"]
  /\ slot' = [slot EXCEPT !["game"] = 1]
  /\ UNCHANGED <<connections, queues, send_thread, from, open, received>>

(* The loop of net_update, which does not lock: the address is tested, and the
   queues are used. *)
PacketSend ==
  LET i == slot["game"]
  IN  /\ pc["game"] = "packets" /\ i \in Slots
      /\ connections[i].address # None
      /\ IF connections[i].made
           THEN /\ Len(send_queue[i]) < QueueMax
                /\ send_queue' = [send_queue EXCEPT ![i] = Append(@, "packet")]
                /\ pc' = [pc EXCEPT !["game"] = "packet_recv"]
           ELSE pc' = [pc EXCEPT !["game"] = "crashed"] /\ UNCHANGED send_queue
      /\ UNCHANGED <<connections, recv_queue, send_thread, mutex, slot, from, open, received>>

PacketRecv ==
  LET i == slot["game"]
  IN  /\ pc["game"] = "packet_recv" /\ recv_queue[i] # << >>
      /\ recv_queue' = [recv_queue EXCEPT ![i] = Tail(@)]
      /\ UNCHANGED <<connections, send_queue, send_thread, mutex, pc, slot, from, open, received>>

PacketsNext ==
  LET i == slot["game"]
  IN  /\ \/ pc["game"] = "packets" /\ i \in Slots /\ connections[i].address = None
         \/ pc["game"] = "packet_recv" /\ recv_queue[i] = << >>
      /\ pc' = [pc EXCEPT !["game"] = "packets"]
      /\ slot' = [slot EXCEPT !["game"] = i + 1]
      /\ UNCHANGED <<connections, queues, send_thread, mutex, from, open, received>>

UpdateEnd ==
  /\ slot["game"] = MaxConnections + 1
  /\ Goto("game", "packets", "idle")
  /\ UNCHANGED <<connections, queues, send_thread, mutex, slot, from, open, received>>

(* net_destroy closes the socket ... *)
CloseSocket ==
  /\ Goto("game", "close", "join_recv")
  /\ open' = FALSE
  /\ UNCHANGED <<connections, queues, send_thread, mutex, slot, from, received>>

(* ... joins the receive thread, and frees the rest. *)
DestroyEnd ==
  /\ pc["recv"] = "exit"
  /\ Goto("game", "join_recv", "end")
  /\ UNCHANGED <<connections, queues, send_thread, mutex, slot, from, open, received>>

InUpdate == StopPush \/ StopJoin \/ StopSkip \/ StopDone
              \/ PacketSend \/ PacketRecv \/ PacketsNext \/ UpdateEnd
-----------------------------------------------------------------------------
(* The receive thread *)

RecvFrom(a) ==
  /\ open /\ received < PacketBound
  /\ Goto("recv", "recvfrom", "lock")
  /\ received' = received + 1
  /\ from' = [from EXCEPT !["recv"] = a]
  /\ UNCHANGED <<connections, queues, send_thread, mutex, slot, open>>

(* The closed socket makes recvfrom fail. *)
RecvExit ==
  /\ ~open
  /\ Goto("recv", "recvfrom", "exit")
  /\ UNCHANGED <<connections, queues, send_thread, mutex, slot, from, open, received>>

(* recvfrom fails, or gets an empty datagram, and the thread ends. *)
RecvFail ==
  /\ open
  /\ Goto("recv", "recvfrom", "exit")
  /\ UNCHANGED <<connections, queues, send_thread, mutex, slot, from, open, received>>

(* The time of the packet is noted in the connection ... *)
Stamp ==
  /\ Goto("recv", "stamp", "push")
  /\ connections' = [connections EXCEPT ![slot["recv"]].stale = FALSE]
  /\ UNCHANGED <<queues, send_thread, mutex, slot, from, open, received>>

(* What is pushed to the receive queue of connection i, if there is room. *)
Received(i) == [recv_queue EXCEPT ![i] = IF Len(@) < QueueMax THEN Append(@, from["recv"]) ELSE @]

(* Mutant: the packet goes to the first connection. *)
RecvPushFirst ==
  /\ Goto("recv", "push", IF connections[1].made THEN "recvfrom" ELSE "crashed")
  /\ recv_queue' = IF connections[1].made THEN Received(1) ELSE recv_queue
  /\ UNCHANGED <<connections, send_queue, send_thread, mutex, slot, from, open, received>>

(* ... and the packet pushed to it; the mutex has been released since the
   connection was found. *)
RecvPush ==
  LET i == slot["recv"]
  IN  /\ Goto("recv", "push", IF connections[i].made THEN "recvfrom" ELSE "crashed")
      /\ recv_queue' = IF connections[i].made THEN Received(i) ELSE recv_queue
      /\ UNCHANGED <<connections, send_queue, send_thread, mutex, slot, from, open, received>>

Receiver == FindOrCreate("recv") \/ RecvExit \/ Stamp \/ RecvPush
-----------------------------------------------------------------------------
(* A send thread *)

(* What a send thread with a packet or a NULL popped from queue i ends as. *)
Sent(i, outcome) ==
  /\ send_thread[i] = "pop" /\ send_queue[i] # << >>
  /\ send_queue' = [send_queue EXCEPT ![i] = Tail(@)]
  /\ send_thread' = [send_thread EXCEPT ![i] = outcome]
  /\ UNCHANGED <<connections, recv_queue, mutex, pc, slot, from, open, received>>

(* Mutant: a packet sent ends the thread. *)
SendOnce(i) == Sent(i, "exit")

(* queue_pop and sendto, which touches nothing shared. *)
Send(i) == Sent(i, IF Head(send_queue[i]) = "NULL" THEN "exit" ELSE "pop")

(* sendto fails and the thread ends, with no one told. *)
SendFail(i) == Sent(i, "failed") /\ Head(send_queue[i]) = "packet"

Sender(i) == Send(i) \/ SendFail(i)

(* k_timeout_ms pass without a packet. *)
Silence(i) ==
  /\ connections[i].made /\ ~connections[i].stale
  /\ connections' = [connections EXCEPT ![i].stale = TRUE]
  /\ UNCHANGED <<queues, send_thread, mutex, pc, slot, from, open, received>>

Next ==
  \/ \E a \in Addresses : Connect(a) \/ RecvFrom(a)
  \/ FindOrCreate("game")
  \/ \E call \in {"timeout", "disconnect"} : StopCall(call)
  \/ InUpdate \/ CloseSocket \/ DestroyEnd
  \/ Receiver \/ RecvFail
  \/ \E i \in Slots : Sender(i) \/ Silence(i)

Spec == Init /\ [][Next]_vars

(* Threads that can run do; nothing obliges packets to come or the game to
   call. *)
FairSpec ==
  /\ Spec
  /\ WF_vars(InUpdate \/ CloseSocket \/ DestroyEnd)
  /\ WF_vars(Receiver)
  /\ \A i \in Slots : WF_vars(Sender(i))
-----------------------------------------------------------------------------
(* Every variable has its type. *)
TypeOK ==
  /\ connections \in [Slots -> [address : Addresses \cup {None}, made : BOOLEAN,
                                stale : BOOLEAN, late : BOOLEAN]]
  /\ send_queue \in [Slots -> Seq({"packet", "NULL"})] /\ recv_queue \in [Slots -> Seq(Addresses)]
  /\ \A i \in Slots : Len(send_queue[i]) <= QueueMax /\ Len(recv_queue[i]) <= QueueMax
  /\ send_thread \in [Slots -> {"none", "pop", "exit", "failed"}]
  /\ mutex \in Threads \cup {None}
  /\ pc["game"] \in {"start", "idle", "lock", "find", "make", "timeout", "timeout_join", "disconnect",
                     "disconnect_join", "packets", "packet_recv", "close", "join_recv", "end",
                     "crashed"}
  /\ pc["recv"] \in {"recvfrom", "lock", "find", "make", "stamp", "push", "exit", "crashed"}
  /\ slot["game"] \in 1 .. MaxConnections + 1 \cup {None} /\ slot["recv"] \in Slots \cup {None}
  /\ from \in [Threads -> Addresses \cup {None}]
  /\ open \in BOOLEAN /\ received \in 0 .. PacketBound

(* A peer has one connection, though the game and the receive thread may both
   find it missing and create it; and a send thread runs on the queues of a
   connection that is there, for none is cleared under it. *)
TableConsistent ==
  /\ \A i, j \in Slots :
       connections[i].address = connections[j].address /\ i # j => connections[i].address = None
  /\ \A i \in Slots : send_thread[i] # "none" => connections[i].made

(* A receive queue holds packets from the peer of its connection only. *)
PacketsOfPeer ==
  \A i \in Slots : \A k \in DOMAIN recv_queue[i] : recv_queue[i][k] = connections[i].address

(* "without any connections being doubly disconnected (or missed)" (net.h):
   what is left after net_destroy are connections that the receive thread has
   created since, for net_destroy disconnects before it stops that thread. *)
NoneMissed ==
  pc["game"] = "end" => \A i \in Slots : connections[i].address # None => connections[i].late

(* No thread uses the queues of a connection that has none: "sends and
   receives packages from those connections" (net.h). *)
QueuesUsable == \A t \in Threads : pc[t] # "crashed"

Updating == pc["game"] \in {"timeout", "timeout_join", "packets", "packet_recv"}
Destroying == pc["game"] \in {"disconnect", "disconnect_join", "close", "join_recv"}
Hung == \E i \in Slots : send_thread[i] = "failed" /\ Len(send_queue[i]) = QueueMax

(* net_update and net_destroy return, unless a thread has crashed or the send
   queue of a thread that ended on an error is full: whatever else fails, and
   though they wait for threads and for room holding the mutex. *)
CallsReturn ==
  /\ Updating ~> (pc["game"] = "idle" \/ ~QueuesUsable \/ Hung)
  /\ Destroying ~> (pc["game"] = "end" \/ ~QueuesUsable \/ Hung)
=============================================================================
