------------------------ MODULE NetConnectionsProofs ------------------------
(***************************************************************************)
(* Proofs about NetConnections, for any numbers of peers and connections,  *)
(* and queues of any size.                                                 *)
(***************************************************************************)
EXTENDS NetConnections, WellFoundedInduction, TLAPS

GameStates ==
  {"start", "idle", "lock", "find", "make", "timeout", "timeout_join", "disconnect",
   "disconnect_join", "packets", "packet_recv", "close", "join_recv", "end", "crashed"}
RecvStates == {"recvfrom", "lock", "find", "make", "stamp", "push", "exit", "crashed"}

Entry == [address : Addresses \cup {None}, made : BOOLEAN, stale : BOOLEAN, late : BOOLEAN]

(* The states in which the game's thread has the mutex to stop connections,
   and those in which it may still connect. *)
StopStates == {"timeout", "timeout_join", "disconnect", "disconnect_join"}
Connecting == {"start", "lock", "find", "make"}

(* Where the threads are, and that the one that searches the table or stops
   connections has the mutex. *)
Placed ==
  /\ pc \in [Threads -> GameStates \cup RecvStates]
  /\ \A t \in Threads : pc[t] \in {"lock", "find", "make"} => from[t] \in Addresses
  /\ pc["recv"] \in {"stamp", "push"} => from["recv"] \in Addresses
  /\ \A t \in Threads : pc[t] \in {"find", "make"} => mutex = t
  /\ pc["game"] \in StopStates => mutex = "game"
  /\ slot \in [Threads -> 1 .. MaxConnections + 1 \cup {None}]
  /\ pc["game"] \in {"timeout_join", "disconnect_join", "packet_recv"} => slot["game"] \in Slots
  /\ pc["game"] \in {"timeout", "disconnect", "packets"} => slot["game"] \in 1 .. MaxConnections + 1

(* A connection that is being made has its address and no queues yet; one that
   the receive thread has found is that of its packet, or has been stopped,
   and then no one takes its slot. *)
Located ==
  /\ \A t \in Threads : pc[t] = "make" =>
       /\ slot[t] \in Slots
       /\ connections[slot[t]].address = from[t] /\ ~connections[slot[t]].made
  /\ pc["recv"] \in {"stamp", "push"} =>
       /\ slot["recv"] \in Slots
       /\ \/ connections[slot["recv"]].address = from["recv"]
          \/ connections[slot["recv"]].address = None /\ pc["game"] \notin Connecting

(* A connection with queues has an address, and one without has nothing. *)
Furnished ==
  \A i \in Slots :
    /\ connections[i].made => connections[i].address # None
    /\ ~connections[i].made => send_thread[i] = "none" /\ recv_queue[i] = << >>

(* net_disconnect_all leaves no connection behind but those made since. *)
Cleared ==
  /\ pc["game"] \in {"disconnect", "disconnect_join"} =>
       \A i \in Slots : i < slot["game"] => connections[i].address = None
  /\ pc["game"] \in {"close", "join_recv", "end"} =>
       \A i \in Slots : connections[i].address # None => connections[i].late

IInv ==
  /\ TypeOK /\ Placed /\ Located /\ Furnished /\ Cleared
  /\ TableConsistent /\ PacketsOfPeer
-----------------------------------------------------------------------------
(* A search of the table that finds something finds a slot. *)
LEMMA FirstSlot ==
  ASSUME NEW S \in SUBSET Slots, S # {}
  PROVE  FirstOf(S) \in S
<1>1. S \in SUBSET Nat BY ConnectionsAssumption DEF Slots
<1>2. PICK i \in S : \A j \in S : ~(<<j, i>> \in OpToRel(<, Nat))
  BY <1>1, NatLessThanWellFounded, WFMin
<1>3. ASSUME NEW j \in S PROVE i <= j
  <2>1. j \in Nat /\ i \in Nat BY <1>1
  <2>2. j < i => <<j, i>> \in OpToRel(<, Nat)
    <3>1. {ss \in Nat \X Nat : ss[1] < ss[2]} = OpToRel(<, Nat) BY Zenon DEF OpToRel
    <3>2. j < i => <<j, i>> \in {ss \in Nat \X Nat : ss[1] < ss[2]} BY <2>1
    <3> QED BY <3>1, <3>2
  <2>3. ~(j < i) BY <1>2, <2>2, Zenon
  <2> QED BY <2>1, <2>3
<1> QED BY <1>3 DEF FirstOf

LEMMA ThreadsTwo == Threads = {"game", "recv"} /\ "game" # "recv"
BY DEF Threads

LEMMA InitHolds == Init => IInv
<1> SUFFICES ASSUME Init PROVE IInv OBVIOUS
<1> USE ConnectionsAssumption DEF Init
<1>1. TypeOK BY DEF TypeOK, Unused, Threads
<1>2. Placed BY DEF Placed, GameStates, RecvStates, StopStates, Threads
<1>3. Located BY DEF Located, Threads
<1>4. Furnished BY DEF Furnished, Unused
<1>5. Cleared BY DEF Cleared, Threads
<1>6. TableConsistent BY DEF TableConsistent, Unused
<1>7. PacketsOfPeer BY DEF PacketsOfPeer
<1> QED BY <1>1, <1>2, <1>3, <1>4, <1>5, <1>6, <1>7 DEF IInv

LEMMA FindLockKeeps ==
  ASSUME IInv, NEW t \in Threads, FindLock(t)
  PROVE  IInv'
<1> USE ConnectionsAssumption, ThreadsTwo DEF IInv, FindLock, Goto, queues
<1>1. TypeOK' BY DEF TypeOK, Placed
<1>2. Placed' BY DEF Placed, GameStates, RecvStates, StopStates, TypeOK
<1>3. Located' BY DEF Located, Placed, Connecting, TypeOK
<1>4. Furnished' BY DEF Furnished, TypeOK
<1>5. Cleared' BY DEF Cleared, Placed, TypeOK
<1>6. TableConsistent' BY DEF TableConsistent, TypeOK
<1>7. PacketsOfPeer' BY DEF PacketsOfPeer, TypeOK
<1> QED BY <1>1, <1>2, <1>3, <1>4, <1>5, <1>6, <1>7

LEMMA FindKeeps ==
  ASSUME IInv, NEW t \in Threads, Find(t)
  PROVE  IInv'
<1> USE ConnectionsAssumption, ThreadsTwo DEF IInv
<1>1. PICK s \in Slots \cup {None}, to \in {"idle", "recvfrom", "stamp"} :
        /\ pc[t] = "find" /\ pc' = [pc EXCEPT ![t] = to]
        /\ slot' = [slot EXCEPT ![t] = s] /\ mutex' = None
        /\ t = "game" => to = "idle"
        /\ t = "recv" => to \in {"recvfrom", "stamp"}
        /\ to = "stamp" => s \in Slots /\ connections[s].address = from[t]
        /\ UNCHANGED <<connections, send_queue, recv_queue, send_thread, from, open, received>>
  <2> DEFINE known == {i \in Slots : connections[i].address = from[t]}
  <2>1. CASE known = {} BY <2>1 DEF Find, Goto, queues
  <2>2. CASE known # {}
    <3>1. FirstOf(known) \in Slots /\ connections[FirstOf(known)].address = from[t]
      BY <2>2, FirstSlot
    <3> QED BY <2>2, <3>1 DEF Find, Goto, queues, After
  <2> QED BY <2>1, <2>2
<1>2. s \in 1 .. MaxConnections + 1 \cup {None} BY DEF Slots
<1>11. TypeOK' BY <1>1, <1>2 DEF TypeOK, Placed
<1>12. Placed' BY <1>1, <1>2 DEF Placed, GameStates, RecvStates, StopStates, TypeOK
<1>13. Located' BY <1>1 DEF Located, Placed, Connecting
<1>14. Furnished' BY <1>1 DEF Furnished
<1>15. Cleared' BY <1>1 DEF Cleared, Placed
<1>16. TableConsistent' BY <1>1 DEF TableConsistent
<1>17. PacketsOfPeer' BY <1>1 DEF PacketsOfPeer
<1> QED BY <1>11, <1>12, <1>13, <1>14, <1>15, <1>16, <1>17

LEMMA CreateKeeps ==
  ASSUME IInv, NEW t \in Threads, Create(t)
  PROVE  IInv'
<1> USE ConnectionsAssumption, ThreadsTwo DEF IInv
<1>1. PICK i \in Slots :
        /\ connections[i].address = None /\ \A j \in Slots : connections[j].address # from[t]
        /\ pc[t] = "find" /\ pc' = [pc EXCEPT ![t] = "make"]
        /\ slot' = [slot EXCEPT ![t] = i]
        /\ connections' = [connections EXCEPT ![i] = Claimed(t)]
        /\ UNCHANGED <<send_queue, recv_queue, send_thread, mutex, from, open, received>>
  <2> DEFINE free == {i \in Slots : connections[i].address = None}
  <2>1. FirstOf(free) \in free BY FirstSlot DEF Create
  <2> QED BY <2>1 DEF Create, Goto, queues
<1>2. /\ from[t] \in Addresses /\ mutex = t /\ i \in 1 .. MaxConnections + 1
      /\ connections \in [Slots -> Entry] /\ slot \in [Threads -> 1 .. MaxConnections + 1 \cup {None}]
  <2>1. from[t] \in Addresses /\ mutex = t BY <1>1 DEF Placed
  <2>2. i \in 1 .. MaxConnections + 1 BY DEF Slots
  <2>3. connections \in [Slots -> Entry] BY DEF TypeOK, Entry
  <2>4. slot \in [Threads -> 1 .. MaxConnections + 1 \cup {None}] BY DEF Placed
  <2> QED BY <2>1, <2>2, <2>3, <2>4
<1>3. /\ Claimed(t) \in Entry /\ Claimed(t).address = from[t] /\ ~Claimed(t).made
      /\ pc["game"] \in {"close", "join_recv", "end"} => Claimed(t).late
  <2>1. (pc["game"] \in {"close", "join_recv", "end"}) \in BOOLEAN
    <3>1. (pc["game"] \in {"close", "join_recv", "end"}) = TRUE \/ (pc["game"] \in {"close", "join_recv", "end"}) = FALSE
      OBVIOUS
    <3> QED BY <3>1
  <2>2. Claimed(t).late = (pc["game"] \in {"close", "join_recv", "end"}) BY DEF Claimed
  <2>3. Claimed(t).address = from[t] /\ Claimed(t).made = FALSE BY DEF Claimed
  <2>4. Claimed(t) \in Entry BY <1>2, <2>1 DEF Claimed, Entry
  <2> QED BY <2>2, <2>3, <2>4
<1>4. /\ connections' \in [Slots -> Entry] /\ connections'[i] = Claimed(t)
      /\ \A j \in Slots : j # i => connections'[j] = connections[j]
  BY <1>1, <1>2, <1>3
<1>11. TypeOK' BY <1>1, <1>2, <1>4 DEF TypeOK, Placed, Entry
<1>12. Placed' BY <1>1, <1>2 DEF Placed, GameStates, RecvStates, StopStates
<1>13. Located' BY <1>1, <1>2, <1>3, <1>4 DEF Located, Placed, Connecting
<1>14. Furnished' BY <1>1, <1>3, <1>4 DEF Furnished
<1>15. Cleared'
  <2>1. pc'["game"] \notin {"disconnect", "disconnect_join"} BY <1>1, <1>2 DEF Placed, StopStates
  <2>2. pc'["game"] \in {"close", "join_recv", "end"} => pc["game"] = pc'["game"] BY <1>1 DEF Placed
  <2> QED BY <1>3, <1>4, <2>1, <2>2 DEF Cleared
<1>16. TableConsistent' BY <1>1, <1>2, <1>3, <1>4 DEF TableConsistent, Furnished
<1>17. PacketsOfPeer' BY <1>1, <1>3, <1>4 DEF PacketsOfPeer, Furnished
<1> QED BY <1>11, <1>12, <1>13, <1>14, <1>15, <1>16, <1>17

LEMMA MakeKeeps ==
  ASSUME IInv, NEW t \in Threads, Make(t)
  PROVE  IInv'
<1> USE ConnectionsAssumption, ThreadsTwo DEF IInv
<1> DEFINE i == slot[t]
<1>1. /\ pc[t] = "make" /\ pc' = [pc EXCEPT ![t] = After(t)] /\ mutex' = None
      /\ connections' = [connections EXCEPT ![i].made = TRUE]
      /\ send_queue' = [send_queue EXCEPT ![i] = << >>]
      /\ recv_queue' = [recv_queue EXCEPT ![i] = << >>]
      /\ send_thread' = [send_thread EXCEPT ![i] = "pop"]
      /\ UNCHANGED <<slot, from, open, received>>
  BY DEF Make, Goto
<1>2. /\ i \in Slots /\ connections[i].address = from[t] /\ from[t] \in Addresses /\ mutex = t
      /\ connections \in [Slots -> Entry]
  BY <1>1 DEF Placed, Located, TypeOK, Entry
<1> HIDE DEF i
<1>3. /\ connections' \in [Slots -> Entry]
      /\ connections'[i].made /\ connections'[i].address = from[t]
      /\ connections'[i].late = connections[i].late
      /\ \A j \in Slots : j # i => connections'[j] = connections[j]
  BY <1>1, <1>2 DEF Entry
<1>4. \A j \in Slots : connections'[j].address = connections[j].address BY <1>2, <1>3
<1>5. /\ send_queue' \in [Slots -> Seq({"packet", "NULL"})] /\ recv_queue' \in [Slots -> Seq(Addresses)]
      /\ \A j \in Slots : Len(send_queue'[j]) <= QueueMax /\ Len(recv_queue'[j]) <= QueueMax
      /\ send_thread' \in [Slots -> {"none", "pop", "exit", "failed"}]
      /\ recv_queue'[i] = << >>
      /\ \A j \in Slots : j # i => recv_queue'[j] = recv_queue[j] /\ send_thread'[j] = send_thread[j]
  BY <1>1, <1>2 DEF TypeOK
<1>6. /\ t = "game" => pc'["game"] = "idle" /\ pc'["recv"] = pc["recv"]
      /\ t = "recv" => pc'["recv"] = "stamp" /\ pc'["game"] = pc["game"]
      /\ pc' \in [Threads -> GameStates \cup RecvStates]
  BY <1>1 DEF After, Placed, GameStates, RecvStates
<1>7. connections[i].address # None /\ connections'[i].address # None
  BY <1>2, <1>3
<1>11. TypeOK' BY <1>1, <1>3, <1>5, <1>6 DEF TypeOK, Entry
<1>12. Placed' BY <1>1, <1>2, <1>6 DEF Placed, StopStates
<1>13. Located' BY <1>1, <1>2, <1>3, <1>4, <1>6 DEF Located, Placed, Connecting, i
<1>14. Furnished'
  <2> SUFFICES ASSUME NEW j \in Slots
               PROVE  /\ connections'[j].made => connections'[j].address # None
                      /\ ~connections'[j].made => send_thread'[j] = "none" /\ recv_queue'[j] = << >>
    BY DEF Furnished
  <2>1. CASE j = i BY <1>3, <1>7, <2>1
  <2>2. CASE j # i BY <1>3, <1>5, <2>2 DEF Furnished
  <2> QED BY <2>1, <2>2
<1>15. Cleared' BY <1>1, <1>2, <1>3, <1>4, <1>6 DEF Cleared, Placed, StopStates
<1>16. TableConsistent'
  <2>1. \A j \in Slots : send_thread'[j] # "none" => connections'[j].made
    BY <1>3, <1>5 DEF TableConsistent
  <2> QED BY <1>4, <2>1 DEF TableConsistent
<1>17. PacketsOfPeer'
  <2> SUFFICES ASSUME NEW j \in Slots, NEW k \in DOMAIN recv_queue'[j]
               PROVE  recv_queue'[j][k] = connections'[j].address
    BY DEF PacketsOfPeer
  <2>1. j # i BY <1>5
  <2> QED BY <1>3, <1>5, <2>1 DEF PacketsOfPeer
<1> QED BY <1>11, <1>12, <1>13, <1>14, <1>15, <1>16, <1>17

LEMMA ConnectKeeps ==
  ASSUME IInv, NEW a \in Addresses, Connect(a)
  PROVE  IInv'
<1> USE ConnectionsAssumption, ThreadsTwo DEF IInv, Connect, Goto, queues
<1>1. TypeOK' BY DEF TypeOK, Placed
<1>2. Placed' BY DEF Placed, GameStates, RecvStates, StopStates, TypeOK
<1>3. Located' BY DEF Located, Placed, Connecting, TypeOK
<1>4. Furnished' BY DEF Furnished, TypeOK
<1>5. Cleared' BY DEF Cleared, Placed, TypeOK
<1>6. TableConsistent' BY DEF TableConsistent, TypeOK
<1>7. PacketsOfPeer' BY DEF PacketsOfPeer, TypeOK
<1> QED BY <1>1, <1>2, <1>3, <1>4, <1>5, <1>6, <1>7

LEMMA StopCallKeeps ==
  ASSUME IInv, NEW call \in {"timeout", "disconnect"}, StopCall(call)
  PROVE  IInv'
<1> USE ConnectionsAssumption, ThreadsTwo DEF IInv
<1>1. /\ pc["game"] \in {"start", "idle"} /\ mutex = None /\ mutex' = "game"
      /\ pc' = [pc EXCEPT !["game"] = call] /\ slot' = [slot EXCEPT !["game"] = 1]
      /\ UNCHANGED <<connections, send_queue, recv_queue, send_thread, from, open, received>>
  BY DEF StopCall, queues
<1>2. /\ slot'["game"] = 1 /\ slot'["recv"] = slot["recv"] /\ pc'["game"] = call
      /\ pc'["recv"] = pc["recv"] /\ \A i \in Slots : ~(i < 1) /\ 1 \in 1 .. MaxConnections + 1
  BY <1>1 DEF Placed, Slots
<1>11. TypeOK' BY <1>1, <1>2 DEF TypeOK, Placed
<1>12. Placed' BY <1>1, <1>2 DEF Placed, GameStates, RecvStates, StopStates
<1>13. Located' BY <1>1, <1>2 DEF Located, Placed, Connecting
<1>14. Furnished' BY <1>1, <1>2 DEF Furnished
<1>15. Cleared' BY <1>1, <1>2 DEF Cleared, Placed
<1>16. TableConsistent' BY <1>1, <1>2 DEF TableConsistent
<1>17. PacketsOfPeer' BY <1>1, <1>2 DEF PacketsOfPeer
<1> QED BY <1>11, <1>12, <1>13, <1>14, <1>15, <1>16, <1>17

LEMMA StopPushKeeps ==
  ASSUME IInv, StopPush
  PROVE  IInv'
<1> USE ConnectionsAssumption, ThreadsTwo DEF IInv
<1> DEFINE i == slot["game"]
<1>1. PICK to \in {"timeout_join", "disconnect_join"} :
        /\ pc["game"] \in {"timeout", "disconnect"}
        /\ to = "timeout_join" <=> pc["game"] = "timeout"
        /\ pc' = [pc EXCEPT !["game"] = to] /\ i \in Slots /\ Len(send_queue[i]) < QueueMax
        /\ send_queue' = [send_queue EXCEPT ![i] = Append(@, "NULL")]
        /\ UNCHANGED <<connections, recv_queue, send_thread, mutex, slot, from, open, received>>
  BY DEF StopPush, Stopping
<1>2. pc'["game"] = to /\ pc'["recv"] = pc["recv"] BY <1>1 DEF Placed
<1>11. TypeOK' BY <1>1, <1>2 DEF TypeOK, Placed
<1>12. Placed' BY <1>1, <1>2 DEF Placed, GameStates, RecvStates, StopStates
<1>13. Located' BY <1>1, <1>2 DEF Located, Placed, Connecting
<1>14. Furnished' BY <1>1, <1>2 DEF Furnished
<1>15. Cleared' BY <1>1, <1>2 DEF Cleared, Placed
<1>16. TableConsistent' BY <1>1, <1>2 DEF TableConsistent
<1>17. PacketsOfPeer' BY <1>1, <1>2 DEF PacketsOfPeer
<1> QED BY <1>11, <1>12, <1>13, <1>14, <1>15, <1>16, <1>17

LEMMA StopJoinKeeps ==
  ASSUME IInv, StopJoin
  PROVE  IInv'
<1> USE ConnectionsAssumption, ThreadsTwo DEF IInv
<1> DEFINE i == slot["game"]
<1>1. PICK to \in {"timeout", "disconnect"} :
        /\ pc["game"] \in {"timeout_join", "disconnect_join"}
        /\ to = "timeout" <=> pc["game"] = "timeout_join"
        /\ pc' = [pc EXCEPT !["game"] = to] /\ slot' = [slot EXCEPT !["game"] = i + 1]
        /\ connections' = [connections EXCEPT ![i] = Unused]
        /\ send_queue' = [send_queue EXCEPT ![i] = << >>]
        /\ recv_queue' = [recv_queue EXCEPT ![i] = << >>]
        /\ send_thread' = [send_thread EXCEPT ![i] = "none"]
        /\ UNCHANGED <<mutex, from, open, received>>
  BY DEF StopJoin
<1>2. /\ pc'["game"] = to /\ pc'["recv"] = pc["recv"] /\ mutex = "game"
      /\ slot'["game"] = i + 1 /\ slot'["recv"] = slot["recv"]
      /\ i \in Slots /\ i + 1 \in 1 .. MaxConnections + 1
  BY <1>1 DEF Placed, StopStates, Slots
<1>6. pc["game"] = "disconnect_join" => \A j \in Slots : j < i => connections[j].address = None
  BY DEF Cleared
<1> HIDE DEF i
<1>3. /\ connections' \in [Slots -> Entry] /\ connections'[i].address = None
      /\ ~connections'[i].made /\ \A j \in Slots : j # i => connections'[j] = connections[j]
  BY <1>1, <1>2 DEF TypeOK, Entry, Unused
<1>4. /\ send_queue' \in [Slots -> Seq({"packet", "NULL"})] /\ recv_queue' \in [Slots -> Seq(Addresses)]
      /\ \A j \in Slots : Len(send_queue'[j]) <= QueueMax /\ Len(recv_queue'[j]) <= QueueMax
      /\ send_thread' \in [Slots -> {"none", "pop", "exit", "failed"}]
      /\ recv_queue'[i] = << >> /\ send_thread'[i] = "none"
      /\ \A j \in Slots : j # i => recv_queue'[j] = recv_queue[j] /\ send_thread'[j] = send_thread[j]
  BY <1>1, <1>2 DEF TypeOK
<1>5. \A j \in Slots : j < i + 1 => j < i \/ j = i BY <1>2 DEF Slots
<1>11. TypeOK' BY <1>1, <1>2, <1>3, <1>4 DEF TypeOK, Placed, Entry
<1>12. Placed' BY <1>1, <1>2 DEF Placed, GameStates, RecvStates, StopStates
<1>13. Located' BY <1>1, <1>2, <1>3 DEF Located, Placed, Connecting
<1>14. Furnished' BY <1>1, <1>3, <1>4 DEF Furnished
<1>15. Cleared' BY <1>1, <1>2, <1>3, <1>5, <1>6 DEF Cleared, Placed
<1>16. TableConsistent' BY <1>1, <1>2, <1>3, <1>4 DEF TableConsistent
<1>17. PacketsOfPeer' BY <1>1, <1>3, <1>4 DEF PacketsOfPeer
<1> QED BY <1>11, <1>12, <1>13, <1>14, <1>15, <1>16, <1>17

LEMMA StopSkipKeeps ==
  ASSUME IInv, StopSkip
  PROVE  IInv'
<1> USE ConnectionsAssumption, ThreadsTwo DEF IInv
<1> DEFINE i == slot["game"]
<1>1. /\ pc["game"] \in {"timeout", "disconnect"} /\ i \in Slots
      /\ pc["game"] = "disconnect" => connections[i].address = None
      /\ slot' = [slot EXCEPT !["game"] = i + 1]
      /\ UNCHANGED <<connections, send_queue, recv_queue, send_thread, mutex, pc, from, open, received>>
  BY DEF StopSkip, Stopping, Stopped, queues
<1>2. /\ slot'["game"] = i + 1 /\ slot'["recv"] = slot["recv"] /\ i + 1 \in 1 .. MaxConnections + 1
      /\ slot' \in [Threads -> 1 .. MaxConnections + 1 \cup {None}]
      /\ \A j \in Slots : j < i + 1 => j < i \/ j = i
  BY <1>1 DEF Placed, Slots
<1>3. pc["game"] = "disconnect" => \A j \in Slots : j < i => connections[j].address = None
  BY DEF Cleared
<1> HIDE DEF i
<1>11. TypeOK' BY <1>1, <1>2 DEF TypeOK, Placed
<1>12. Placed' BY <1>1, <1>2 DEF Placed, GameStates, RecvStates, StopStates
<1>13. Located' BY <1>1, <1>2 DEF Located, Placed, Connecting
<1>14. Furnished' BY <1>1, <1>2 DEF Furnished
<1>15. Cleared' BY <1>1, <1>2, <1>3 DEF Cleared, Placed
<1>16. TableConsistent' BY <1>1, <1>2 DEF TableConsistent
<1>17. PacketsOfPeer' BY <1>1, <1>2 DEF PacketsOfPeer
<1> QED BY <1>11, <1>12, <1>13, <1>14, <1>15, <1>16, <1>17

LEMMA StopDoneKeeps ==
  ASSUME IInv, StopDone
  PROVE  IInv'
<1> USE ConnectionsAssumption, ThreadsTwo DEF IInv
<1>1. PICK to \in {"packets", "close"} :
        /\ pc["game"] \in {"timeout", "disconnect"} /\ slot["game"] = MaxConnections + 1
        /\ to = "packets" <=> pc["game"] = "timeout"
        /\ mutex' = None
        /\ pc' = [pc EXCEPT !["game"] = to] /\ slot' = [slot EXCEPT !["game"] = 1]
        /\ UNCHANGED <<connections, send_queue, recv_queue, send_thread, from, open, received>>
  BY DEF StopDone, Stopping, queues
<1>2. /\ slot'["game"] = 1 /\ slot'["recv"] = slot["recv"] /\ pc'["game"] = to
      /\ pc'["recv"] = pc["recv"] /\ mutex = "game" /\ 1 \in 1 .. MaxConnections + 1
      /\ \A i \in Slots : i < slot["game"]
  BY <1>1 DEF Placed, Slots, StopStates
<1>11. TypeOK' BY <1>1, <1>2 DEF TypeOK, Placed
<1>12. Placed' BY <1>1, <1>2 DEF Placed, GameStates, RecvStates, StopStates
<1>13. Located' BY <1>1, <1>2 DEF Located, Placed, Connecting
<1>14. Furnished' BY <1>1, <1>2 DEF Furnished
<1>15. Cleared' BY <1>1, <1>2 DEF Cleared, Placed
<1>16. TableConsistent' BY <1>1, <1>2 DEF TableConsistent
<1>17. PacketsOfPeer' BY <1>1, <1>2 DEF PacketsOfPeer
<1> QED BY <1>11, <1>12, <1>13, <1>14, <1>15, <1>16, <1>17

LEMMA PacketSendKeeps ==
  ASSUME IInv, PacketSend
  PROVE  IInv'
<1> USE ConnectionsAssumption, ThreadsTwo DEF IInv
<1> DEFINE i == slot["game"]
<1>1. PICK to \in {"packet_recv", "crashed"} :
        /\ pc["game"] = "packets" /\ i \in Slots /\ pc' = [pc EXCEPT !["game"] = to]
        /\ UNCHANGED <<connections, recv_queue, send_thread, mutex, slot, from, open, received>>
  BY DEF PacketSend
<1>2. /\ send_queue' \in [Slots -> Seq({"packet", "NULL"})]
      /\ \A j \in Slots : Len(send_queue'[j]) <= QueueMax
  <2>1. CASE UNCHANGED send_queue BY <2>1 DEF TypeOK
  <2>2. CASE /\ Len(send_queue[i]) < QueueMax
             /\ send_queue' = [send_queue EXCEPT ![i] = Append(@, "packet")]
    BY <1>1, <2>2 DEF TypeOK
  <2> QED BY <2>1, <2>2 DEF PacketSend
<1>3. pc'["game"] = to /\ pc'["recv"] = pc["recv"] BY <1>1 DEF Placed
<1>11. TypeOK' BY <1>1, <1>2, <1>3 DEF TypeOK
<1>12. Placed' BY <1>1, <1>3 DEF Placed, GameStates, RecvStates, StopStates
<1>13. Located' BY <1>1, <1>3 DEF Located, Placed, Connecting
<1>14. Furnished' BY <1>1 DEF Furnished
<1>15. Cleared' BY <1>1, <1>3 DEF Cleared
<1>16. TableConsistent' BY <1>1 DEF TableConsistent
<1>17. PacketsOfPeer' BY <1>1 DEF PacketsOfPeer
<1> QED BY <1>11, <1>12, <1>13, <1>14, <1>15, <1>16, <1>17

LEMMA PacketRecvKeeps ==
  ASSUME IInv, PacketRecv
  PROVE  IInv'
<1> USE ConnectionsAssumption, ThreadsTwo DEF IInv, PacketRecv, Goto, queues
<1>1. TypeOK' BY DEF TypeOK, Placed
<1>2. Placed' BY DEF Placed, GameStates, RecvStates, StopStates, TypeOK
<1>3. Located' BY DEF Located, Placed, Connecting, TypeOK
<1>4. Furnished' BY DEF Furnished, TypeOK
<1>5. Cleared' BY DEF Cleared, Placed, TypeOK
<1>6. TableConsistent' BY DEF TableConsistent, TypeOK
<1>7. PacketsOfPeer' BY DEF PacketsOfPeer, TypeOK
<1> QED BY <1>1, <1>2, <1>3, <1>4, <1>5, <1>6, <1>7

LEMMA PacketsNextKeeps ==
  ASSUME IInv, PacketsNext
  PROVE  IInv'
<1> USE ConnectionsAssumption, ThreadsTwo DEF IInv
<1> DEFINE i == slot["game"]
<1>1. /\ pc["game"] \in {"packets", "packet_recv"}
      /\ pc["game"] = "packets" => i \in Slots
      /\ pc' = [pc EXCEPT !["game"] = "packets"] /\ slot' = [slot EXCEPT !["game"] = i + 1]
      /\ UNCHANGED <<connections, send_queue, recv_queue, send_thread, mutex, from, open, received>>
  BY DEF PacketsNext, queues
<1>2. /\ slot'["game"] = i + 1 /\ slot'["recv"] = slot["recv"] /\ i + 1 \in 1 .. MaxConnections + 1
      /\ slot' \in [Threads -> 1 .. MaxConnections + 1 \cup {None}]
      /\ pc'["game"] = "packets" /\ pc'["recv"] = pc["recv"]
  <2>1. i \in Slots
    <3>1. pc["game"] = "packet_recv" => slot["game"] \in Slots BY DEF Placed
    <3> QED BY <1>1, <3>1
  <2>2. i + 1 \in 1 .. MaxConnections + 1 BY <2>1 DEF Slots
  <2>3. slot \in [Threads -> 1 .. MaxConnections + 1 \cup {None}] BY DEF Placed
  <2>4. pc \in [Threads -> GameStates \cup RecvStates] BY DEF Placed
  <2> HIDE DEF i
  <2>5. slot'["game"] = i + 1 /\ slot'["recv"] = slot["recv"] BY <1>1, <2>3
  <2>6. slot' \in [Threads -> 1 .. MaxConnections + 1 \cup {None}] BY <1>1, <2>2, <2>3
  <2>7. pc'["game"] = "packets" /\ pc'["recv"] = pc["recv"] BY <1>1, <2>4
  <2> QED BY <2>2, <2>5, <2>6, <2>7
<1> HIDE DEF i
<1>11. TypeOK' BY <1>1, <1>2 DEF TypeOK, Placed
<1>12. Placed' BY <1>1, <1>2 DEF Placed, GameStates, RecvStates, StopStates
<1>13. Located' BY <1>1, <1>2 DEF Located, Placed, Connecting
<1>14. Furnished' BY <1>1, <1>2 DEF Furnished
<1>15. Cleared' BY <1>1, <1>2 DEF Cleared, Placed
<1>16. TableConsistent' BY <1>1, <1>2 DEF TableConsistent
<1>17. PacketsOfPeer' BY <1>1, <1>2 DEF PacketsOfPeer
<1> QED BY <1>11, <1>12, <1>13, <1>14, <1>15, <1>16, <1>17

LEMMA UpdateEndKeeps ==
  ASSUME IInv, UpdateEnd
  PROVE  IInv'
<1> USE ConnectionsAssumption, ThreadsTwo DEF IInv, UpdateEnd, Goto, queues
<1>1. TypeOK' BY DEF TypeOK, Placed
<1>2. Placed' BY DEF Placed, GameStates, RecvStates, StopStates, TypeOK
<1>3. Located' BY DEF Located, Placed, Connecting, TypeOK
<1>4. Furnished' BY DEF Furnished, TypeOK
<1>5. Cleared' BY DEF Cleared, Placed, TypeOK
<1>6. TableConsistent' BY DEF TableConsistent, TypeOK
<1>7. PacketsOfPeer' BY DEF PacketsOfPeer, TypeOK
<1> QED BY <1>1, <1>2, <1>3, <1>4, <1>5, <1>6, <1>7

LEMMA CloseSocketKeeps ==
  ASSUME IInv, CloseSocket
  PROVE  IInv'
<1> USE ConnectionsAssumption, ThreadsTwo DEF IInv, CloseSocket, Goto, queues
<1>1. TypeOK' BY DEF TypeOK, Placed
<1>2. Placed' BY DEF Placed, GameStates, RecvStates, StopStates, TypeOK
<1>3. Located' BY DEF Located, Placed, Connecting, TypeOK
<1>4. Furnished' BY DEF Furnished, TypeOK
<1>5. Cleared' BY DEF Cleared, Placed, TypeOK
<1>6. TableConsistent' BY DEF TableConsistent, TypeOK
<1>7. PacketsOfPeer' BY DEF PacketsOfPeer, TypeOK
<1> QED BY <1>1, <1>2, <1>3, <1>4, <1>5, <1>6, <1>7

LEMMA DestroyEndKeeps ==
  ASSUME IInv, DestroyEnd
  PROVE  IInv'
<1> USE ConnectionsAssumption, ThreadsTwo DEF IInv, DestroyEnd, Goto, queues
<1>1. TypeOK' BY DEF TypeOK, Placed
<1>2. Placed' BY DEF Placed, GameStates, RecvStates, StopStates, TypeOK
<1>3. Located' BY DEF Located, Placed, Connecting, TypeOK
<1>4. Furnished' BY DEF Furnished, TypeOK
<1>5. Cleared' BY DEF Cleared, Placed, TypeOK
<1>6. TableConsistent' BY DEF TableConsistent, TypeOK
<1>7. PacketsOfPeer' BY DEF PacketsOfPeer, TypeOK
<1> QED BY <1>1, <1>2, <1>3, <1>4, <1>5, <1>6, <1>7

LEMMA RecvFromKeeps ==
  ASSUME IInv, NEW a \in Addresses, RecvFrom(a)
  PROVE  IInv'
<1> USE ConnectionsAssumption, ThreadsTwo DEF IInv, RecvFrom, Goto, queues
<1>1. TypeOK' BY DEF TypeOK, Placed
<1>2. Placed' BY DEF Placed, GameStates, RecvStates, StopStates, TypeOK
<1>3. Located' BY DEF Located, Placed, Connecting, TypeOK
<1>4. Furnished' BY DEF Furnished, TypeOK
<1>5. Cleared' BY DEF Cleared, Placed, TypeOK
<1>6. TableConsistent' BY DEF TableConsistent, TypeOK
<1>7. PacketsOfPeer' BY DEF PacketsOfPeer, TypeOK
<1> QED BY <1>1, <1>2, <1>3, <1>4, <1>5, <1>6, <1>7

LEMMA RecvExitKeeps ==
  ASSUME IInv, RecvExit \/ RecvFail
  PROVE  IInv'
<1> USE ConnectionsAssumption, ThreadsTwo DEF IInv, RecvExit, RecvFail, Goto, queues
<1>1. TypeOK' BY DEF TypeOK, Placed
<1>2. Placed' BY DEF Placed, GameStates, RecvStates, StopStates, TypeOK
<1>3. Located' BY DEF Located, Placed, Connecting, TypeOK
<1>4. Furnished' BY DEF Furnished, TypeOK
<1>5. Cleared' BY DEF Cleared, Placed, TypeOK
<1>6. TableConsistent' BY DEF TableConsistent, TypeOK
<1>7. PacketsOfPeer' BY DEF PacketsOfPeer, TypeOK
<1> QED BY <1>1, <1>2, <1>3, <1>4, <1>5, <1>6, <1>7

(* A step that leaves the addresses, the queues and the send threads alone. *)
LEMMA TableSame ==
  ASSUME TableConsistent, send_thread' = send_thread,
         \A j \in Slots : /\ connections'[j].address = connections[j].address
                         /\ connections'[j].made = connections[j].made
  PROVE  TableConsistent'
BY DEF TableConsistent

LEMMA StampKeeps ==
  ASSUME IInv, Stamp
  PROVE  IInv'
<1> USE ConnectionsAssumption, ThreadsTwo DEF IInv, Stamp, Goto, queues
<1>1. TypeOK' BY ZenonT(40) DEF TypeOK, Placed
<1>2. Placed' BY DEF Placed, GameStates, RecvStates, StopStates, TypeOK
<1>3. Located' BY DEF Located, Placed, Connecting, TypeOK
<1>4. Furnished' BY DEF Furnished, TypeOK
<1>5. Cleared' BY DEF Cleared, Placed, TypeOK
<1>6. TableConsistent'
  <2>1. \A j \in Slots : /\ connections'[j].address = connections[j].address
                        /\ connections'[j].made = connections[j].made
    BY DEF TypeOK
  <2> QED BY <2>1, TableSame
<1>7. PacketsOfPeer' BY DEF PacketsOfPeer, TypeOK
<1> QED BY <1>1, <1>2, <1>3, <1>4, <1>5, <1>6, <1>7

LEMMA RecvPushKeeps ==
  ASSUME IInv, RecvPush
  PROVE  IInv'
<1> USE ConnectionsAssumption, ThreadsTwo DEF IInv
<1> DEFINE i == slot["recv"]
<1>1. PICK to \in {"recvfrom", "crashed"} :
        /\ pc["recv"] = "push" /\ pc' = [pc EXCEPT !["recv"] = to]
        /\ UNCHANGED <<connections, send_queue, send_thread, mutex, slot, from, open, received>>
  BY DEF RecvPush, Goto
<1>2. /\ i \in Slots /\ from["recv"] \in Addresses
      /\ connections[i].made => connections[i].address = from["recv"]
  BY <1>1 DEF Located, Placed, Furnished
<1>3. \/ UNCHANGED recv_queue
      \/ /\ connections[i].made /\ Len(recv_queue[i]) < QueueMax
         /\ recv_queue' = [recv_queue EXCEPT ![i] = Append(@, from["recv"])]
  BY <1>2 DEF RecvPush, Received, TypeOK
<1> HIDE DEF i
<1>4. /\ recv_queue' \in [Slots -> Seq(Addresses)]
      /\ \A j \in Slots : Len(recv_queue'[j]) <= QueueMax
      /\ \A j \in Slots : ~connections[j].made => recv_queue'[j] = recv_queue[j]
      /\ \A j \in Slots : \A k \in DOMAIN recv_queue'[j] : recv_queue'[j][k] = connections[j].address
  <2>1. CASE UNCHANGED recv_queue BY <2>1 DEF TypeOK, PacketsOfPeer
  <2>2. CASE /\ connections[i].made /\ Len(recv_queue[i]) < QueueMax
             /\ recv_queue' = [recv_queue EXCEPT ![i] = Append(@, from["recv"])]
    <3>1. /\ recv_queue'[i] = Append(recv_queue[i], from["recv"])
          /\ \A j \in Slots : j # i => recv_queue'[j] = recv_queue[j]
          /\ recv_queue[i] \in Seq(Addresses) /\ DOMAIN recv_queue' = Slots
      BY <1>2, <2>2 DEF TypeOK
    <3>2. /\ recv_queue'[i] \in Seq(Addresses) /\ Len(recv_queue'[i]) = Len(recv_queue[i]) + 1
          /\ \A k \in DOMAIN recv_queue'[i] : recv_queue'[i][k] = connections[i].address
      BY <1>2, <2>2, <3>1 DEF PacketsOfPeer
    <3>3. recv_queue' \in [Slots -> Seq(Addresses)] BY <1>2, <2>2, <3>2 DEF TypeOK
    <3> QED BY <2>2, <3>1, <3>2, <3>3 DEF TypeOK, PacketsOfPeer
  <2> QED BY <1>3, <2>1, <2>2
<1>5. pc'["recv"] = to /\ pc'["game"] = pc["game"] BY <1>1 DEF Placed
<1>11. TypeOK' BY <1>1, <1>4, <1>5 DEF TypeOK
<1>12. Placed' BY <1>1, <1>5 DEF Placed, GameStates, RecvStates, StopStates
<1>13. Located' BY <1>1, <1>5 DEF Located, Placed, Connecting
<1>14. Furnished' BY <1>1, <1>4 DEF Furnished
<1>15. Cleared' BY <1>1, <1>5 DEF Cleared
<1>16. TableConsistent' BY <1>1 DEF TableConsistent
<1>17. PacketsOfPeer' BY <1>1, <1>4 DEF PacketsOfPeer
<1> QED BY <1>11, <1>12, <1>13, <1>14, <1>15, <1>16, <1>17

LEMMA SenderKeeps ==
  ASSUME IInv, NEW i \in Slots, Sender(i)
  PROVE  IInv'
<1> USE ConnectionsAssumption, ThreadsTwo DEF IInv
<1>1. PICK outcome \in {"pop", "exit", "failed"} :
        /\ send_thread[i] = "pop" /\ send_queue[i] # << >>
        /\ send_queue' = [send_queue EXCEPT ![i] = Tail(@)]
        /\ send_thread' = [send_thread EXCEPT ![i] = outcome]
        /\ UNCHANGED <<connections, recv_queue, mutex, pc, slot, from, open, received>>
  BY DEF Sender, Send, SendFail, Sent
<1>2. /\ send_queue' \in [Slots -> Seq({"packet", "NULL"})]
      /\ \A j \in Slots : Len(send_queue'[j]) <= QueueMax
      /\ send_thread' \in [Slots -> {"none", "pop", "exit", "failed"}]
      /\ \A j \in Slots : send_thread'[j] # "none" => send_thread[j] # "none"
  BY <1>1 DEF TypeOK
<1>11. TypeOK' BY <1>1, <1>2 DEF TypeOK
<1>12. Placed' BY <1>1 DEF Placed
<1>13. Located' BY <1>1 DEF Located
<1>14. Furnished' BY <1>1, <1>2 DEF Furnished, TypeOK
<1>15. Cleared' BY <1>1 DEF Cleared
<1>16. TableConsistent' BY <1>1, <1>2 DEF TableConsistent
<1>17. PacketsOfPeer' BY <1>1 DEF PacketsOfPeer
<1> QED BY <1>11, <1>12, <1>13, <1>14, <1>15, <1>16, <1>17

LEMMA SilenceKeeps ==
  ASSUME IInv, NEW i \in Slots, Silence(i)
  PROVE  IInv'
<1> USE ConnectionsAssumption, ThreadsTwo DEF IInv, Silence, Goto, queues
<1>1. TypeOK'
  <2>1. connections' \in [Slots -> Entry] BY ZenonT(40) DEF TypeOK, Entry
  <2>2. UNCHANGED <<send_queue, recv_queue, send_thread, mutex, pc, slot, from, open, received>>
    OBVIOUS
  <2> HIDE DEF Silence
  <2> QED BY <2>1, <2>2 DEF TypeOK, Entry
<1>2. Placed' BY DEF Placed, GameStates, RecvStates, StopStates, TypeOK
<1>3. Located' BY DEF Located, Placed, Connecting, TypeOK
<1>4. Furnished' BY DEF Furnished, TypeOK
<1>5. Cleared' BY DEF Cleared, Placed, TypeOK
<1>6. TableConsistent'
  <2>1. \A j \in Slots : /\ connections'[j].address = connections[j].address
                        /\ connections'[j].made = connections[j].made
    BY DEF TypeOK
  <2> QED BY <2>1, TableSame
<1>7. PacketsOfPeer' BY DEF PacketsOfPeer, TypeOK
<1> QED BY <1>1, <1>2, <1>3, <1>4, <1>5, <1>6, <1>7

LEMMA NextKeeps ==
  ASSUME IInv, [Next]_vars
  PROVE  IInv'
<1>1. CASE UNCHANGED vars
  <2> USE <1>1 DEF vars, queues
  <2>1. TypeOK' /\ TableConsistent' /\ PacketsOfPeer' BY DEF IInv, TypeOK, TableConsistent, PacketsOfPeer
  <2>2. Placed' /\ Cleared' BY DEF IInv, Placed, Cleared
  <2>3. Located' /\ Furnished' BY DEF IInv, Located, Furnished
  <2> QED BY <2>1, <2>2, <2>3 DEF IInv
<1>2. ASSUME NEW a \in Addresses, Connect(a) \/ RecvFrom(a) PROVE IInv'
  BY <1>2, ConnectKeeps, RecvFromKeeps
<1>3. ASSUME NEW t \in Threads, FindOrCreate(t) PROVE IInv'
  BY <1>3, FindLockKeeps, FindKeeps, CreateKeeps, MakeKeeps DEF FindOrCreate
<1>4. ASSUME NEW call \in {"timeout", "disconnect"}, StopCall(call) PROVE IInv'
  BY <1>4, StopCallKeeps
<1>5. CASE InUpdate
  BY <1>5, StopPushKeeps, StopJoinKeeps, StopSkipKeeps, StopDoneKeeps, PacketSendKeeps,
     PacketRecvKeeps, PacketsNextKeeps, UpdateEndKeeps DEF InUpdate
<1>6. CASE CloseSocket \/ DestroyEnd BY <1>6, CloseSocketKeeps, DestroyEndKeeps
<1>7. CASE RecvExit \/ Stamp \/ RecvPush \/ RecvFail
  BY <1>7, RecvExitKeeps, StampKeeps, RecvPushKeeps
<1>8. ASSUME NEW i \in Slots, Sender(i) \/ Silence(i) PROVE IInv'
  BY <1>8, SenderKeeps, SilenceKeeps
<1>9. CASE FindOrCreate("game") \/ FindOrCreate("recv") BY <1>3, <1>9, ThreadsTwo
<1> QED BY <1>1, <1>2, <1>4, <1>5, <1>6, <1>7, <1>8, <1>9 DEF Next, Receiver

LEMMA Invariance == Spec => []IInv
<1>1. Init => IInv BY InitHolds
<1>2. IInv /\ [Next]_vars => IInv' BY NextKeeps
<1> QED BY <1>1, <1>2, PTL DEF Spec
-----------------------------------------------------------------------------
(* Every variable has its type; in particular, no queue of a connection ever
   holds more than its capacity. *)
THEOREM TypeCorrect == Spec => []TypeOK
<1>1. IInv => TypeOK BY DEF IInv
<1> QED BY <1>1, Invariance, PTL

(* A peer never gets two connections, though the game and the receive thread
   may both look for it, and a send thread only runs on a connection that has
   its queues: find_or_create_connection and the two functions that stop
   connections hold the mutex throughout. *)
THEOREM TableIsConsistent == Spec => []TableConsistent
<1>1. IInv => TableConsistent BY DEF IInv
<1> QED BY <1>1, Invariance, PTL

(* A packet is never found in the receive queue of another peer's connection,
   though recv_thread_func pushes it after the mutex has been released and its
   connection may have been stopped: only net_connect, called before the first
   update, and the receive thread itself give a free slot away. *)
THEOREM PacketsReachTheirPeer == Spec => []PacketsOfPeer
<1>1. IInv => PacketsOfPeer BY DEF IInv
<1> QED BY <1>1, Invariance, PTL

(* What net_destroy leaves are connections made since net_disconnect_all. *)
THEOREM NoConnectionMissed == Spec => []NoneMissed
<1>1. IInv => NoneMissed BY DEF IInv, Cleared, NoneMissed
<1> QED BY <1>1, Invariance, PTL

=============================================================================
