------------------------ MODULE NetReplicationProofs ------------------------
(***************************************************************************)
(* Proofs about NetReplication, for any bounds, and any loss, duplication  *)
(* and reordering of packets: its acknowledgements, and the copies that    *)
(* the receiver keeps.                                                     *)
(***************************************************************************)
EXTENDS NetReplication, TLAPS, FiniteSetTheorems

(* A sequence number that the receiver has applied, or none. *)
Acknowledged == applied \cup {-1}

(* The numbers that acknowledgements are made of have their types. *)
NumbersTyped ==
  /\ sequence \in [Hosts -> Nat] /\ incoming \in [Hosts -> Int]
  /\ ack \in Int /\ applied \subseteq Nat
  /\ DOMAIN packets = Hosts
  /\ \A h \in Hosts : \A p \in packets[h] : p.sequence \in Nat /\ p.ack \in Int

(* What has been sent acknowledges what has been applied, the newer the
   packet the newer; and so does what the sender has got of it. *)
AcksOrdered ==
  /\ ack \in Acknowledged /\ incoming["receiver"] \in Acknowledged
  /\ ack <= incoming["receiver"]
  /\ \A p \in packets["receiver"] :
       /\ p.sequence <= sequence["receiver"]
       /\ p.ack \in Acknowledged /\ p.ack <= incoming["receiver"]
       /\ p.sequence > incoming["sender"] => ack <= p.ack
  /\ \A p, q \in packets["receiver"] : p.sequence < q.sequence => p.ack <= q.ack

AckInv == NumbersTyped /\ AcksOrdered

(* Where an update stands, and what the packets hold. *)
Message == [id : Ids, value : Values \cup {Unset}, diff : BOOLEAN]
Typed ==
  /\ TypeOK
  /\ sequence \in [Hosts -> Nat] /\ incoming \in [Hosts -> Int] /\ DOMAIN packets = Hosts
  /\ snapshots \in [0 .. MaxSnapshots - 1 -> [sequence : Nat, data : Seq(Entry)]]
  /\ \A h \in Hosts : phase[h] = "recv" => sequence[h] < UpdateBound[h]
  /\ \A h \in Hosts : \A p \in packets[h] : p.sequence \in 0 .. UpdateBound[h] - 1
  /\ \A p \in packets["sender"] : p.ents \in Seq(Message)
  /\ \A p \in packets["receiver"] : p.ack \in -1 .. UpdateBound["sender"] - 1
  /\ Len(taken) = sequence["sender"] + (IF phase["sender"] = "recv" THEN 1 ELSE 0)

(* A packet has the entities of its snapshot, and leaves out the value of those
   that have it in a snapshot already applied. *)
Faithful(x, y, s, acks, shots) ==
  /\ x.id = y.id
  /\ IF x.diff THEN x.value = y.value
     ELSE \E a \in acks : a <= s /\ \E i \in DOMAIN shots[a + 1] : shots[a + 1][i] = y
Sent ==
  /\ applied \subseteq 0 .. Len(taken) - 1
  /\ \A a \in applied : a <= incoming["receiver"]
  /\ \A p \in packets["sender"] :
       /\ p.sequence < Len(taken) /\ Len(p.ents) = Len(taken[p.sequence + 1])
       /\ \A i \in DOMAIN p.ents :
            Faithful(p.ents[i], taken[p.sequence + 1][i], p.sequence, applied, taken)
  /\ \A i \in 0 .. MaxSnapshots - 1 : snapshots[i].data # << >> =>
       /\ snapshots[i].sequence < Len(taken)
       /\ snapshots[i].data = taken[snapshots[i].sequence + 1]

(* What Tidy is for: the entities registered, each once, are in the first slots
   of the table, and one about to go is the last of them. *)
Present(e) == ecs[e].state \in {"alive", "leaving"}
World ==
  /\ \A i \in Slots : entities[i] # 0 => ecs[entities[i]].state # "unborn"
  /\ \A i \in Slots : Registered(i, ecs) => \A j \in 1 .. i : Registered(j, ecs)
  /\ \A i, j \in Slots :
       Registered(i, ecs) /\ Registered(j, ecs) /\ entities[i] = entities[j] => i = j
  /\ \A i, j \in Slots :
       Registered(i, ecs) /\ Registered(j, ecs) /\ ecs[entities[i]].state = "leaving" => j <= i
  /\ \A e \in Ids : Present(e) => \E i \in Slots : entities[i] = e

(* Then an entity is in all snapshots from its first to its last, and its value
   goes up in them (if Fresh). *)
In(e, k) == \E i \in DOMAIN taken[k] : taken[k][i].id = e
History ==
  /\ \A k \in DOMAIN taken : \A i, j \in DOMAIN taken[k] : taken[k][i].id = taken[k][j].id => i = j
  /\ \A k \in DOMAIN taken : \A i \in DOMAIN taken[k] :
       /\ ecs[taken[k][i].id].state # "unborn"
       /\ Fresh => taken[k][i].value <= ecs[taken[k][i].id].value
  /\ \A e \in Ids : \A j, k \in DOMAIN taken : j <= k /\ In(e, j) /\ Present(e) => In(e, k)
  /\ \A e \in Ids : \A j, k, m \in DOMAIN taken : j <= k /\ k <= m /\ In(e, j) /\ In(e, m) => In(e, k)
  /\ Fresh => \A j, k \in DOMAIN taken : j <= k =>
       \A i \in DOMAIN taken[j], l \in DOMAIN taken[k] :
         taken[j][i].id = taken[k][l].id => taken[j][i].value <= taken[k][l].value

(* Slots have the copies of different entities, which were in snapshots applied;
   those in the newest live, and have a slot with its values (if Fresh), but for
   strays. *)
Matching ==
  /\ \A i \in CopySlots : copies[i].remote # 0 => \E a \in applied : In(copies[i].remote, a + 1)
  /\ \A i, j \in CopySlots : copies[i].remote # 0 /\ copies[i].remote = copies[j].remote => i = j
  /\ \A i \in CopySlots : copies[i].state # "none" => copies[i].remote # 0
  /\ \A i \in CopySlots : copies[i].state = "live" => copies[i].last = applied_at
  /\ \A n \in {incoming["receiver"]} : n # -1 =>
       \A x \in ToSet(taken[n + 1]) :
         /\ \A i \in CopySlots : copies[i].remote = x.id => copies[i].state = "live"
         /\ x.id \in strays \/ \E i \in CopySlots :
              /\ copies[i].state = "live" /\ copies[i].remote = x.id
              /\ Fresh => copies[i].value = x.value

CInv == AckInv /\ Typed /\ Sent /\ (Tidy => World /\ History /\ Matching)

LEMMA HostsTwo == Hosts = {"sender", "receiver"} /\ "sender" # "receiver"
BY DEF Hosts

(* A packet has the numbers of its sender. *)
LEMMA PacketNumbers ==
  ASSUME NEW h, NEW ents
  PROVE  Packet(h, ents).sequence = sequence[h] /\ Packet(h, ents).ack = incoming[h]
BY DEF Packet

LEMMA AckInit == Init => AckInv
<1> SUFFICES ASSUME Init PROVE AckInv OBVIOUS
<1>1. NumbersTyped BY DEF Init, NumbersTyped, Hosts
<1>2. AcksOrdered BY DEF Init, AcksOrdered, Acknowledged, Hosts
<1> QED BY <1>1, <1>2 DEF AckInv

(* The receiver sends a packet. *)
LEMMA ReceiverUpdateKeeps ==
  ASSUME AckInv, ReceiverUpdate
  PROVE  AckInv'
<1> DEFINE new == Packet("receiver", << >>)
<1>1. /\ packets' = [packets EXCEPT !["receiver"] = @ \cup {new}]
      /\ UNCHANGED <<sequence, incoming, ack, applied>>
  BY DEF ReceiverUpdate
<1>2. new.sequence = sequence["receiver"] /\ new.ack = incoming["receiver"]
  BY PacketNumbers
<1> HIDE DEF new
<1>3. /\ packets'["receiver"] = packets["receiver"] \cup {new}
      /\ packets'["sender"] = packets["sender"] /\ DOMAIN packets' = Hosts
  BY <1>1, HostsTwo DEF AckInv, NumbersTyped
<1>4. NumbersTyped' BY <1>1, <1>2, <1>3, HostsTwo DEF AckInv, NumbersTyped
<1>5. AcksOrdered'
  <2>1. \A p \in packets'["receiver"] :
          /\ p.sequence <= sequence["receiver"]
          /\ p.ack \in Acknowledged /\ p.ack <= incoming["receiver"]
          /\ p.sequence > incoming["sender"] => ack <= p.ack
    BY <1>2, <1>3, HostsTwo DEF AckInv, NumbersTyped, AcksOrdered
  <2>2. \A p, q \in packets'["receiver"] : p.sequence < q.sequence => p.ack <= q.ack
    BY <1>2, <1>3, HostsTwo DEF AckInv, NumbersTyped, AcksOrdered
  <2> QED BY <1>1, <2>1, <2>2 DEF AckInv, AcksOrdered, Acknowledged
<1> QED BY <1>4, <1>5 DEF AckInv

(* The sender sends one. *)
LEMMA SenderUpdateKeeps ==
  ASSUME AckInv, SenderUpdate
  PROVE  AckInv'
<1>1. PICK ents : /\ packets' = [packets EXCEPT !["sender"] = @ \cup {Packet("sender", ents)}]
                  /\ UNCHANGED <<sequence, incoming, ack, applied>>
  BY DEF SenderUpdate, receiver
<1> DEFINE new == Packet("sender", ents)
<1>2. new.sequence = sequence["sender"] /\ new.ack = incoming["sender"] BY PacketNumbers
<1> HIDE DEF new
<1>3. /\ packets'["sender"] = packets["sender"] \cup {new}
      /\ packets'["receiver"] = packets["receiver"] /\ DOMAIN packets' = Hosts
  BY <1>1, HostsTwo DEF AckInv, NumbersTyped, new
<1>4. NumbersTyped' BY <1>1, <1>2, <1>3, HostsTwo DEF AckInv, NumbersTyped
<1>5. AcksOrdered' BY <1>1, <1>3 DEF AckInv, AcksOrdered, Acknowledged
<1> QED BY <1>4, <1>5 DEF AckInv

(* The sender gets a packet newer than the last: its acknowledgement is not
   older, nor that of any packet newer still. *)
LEMMA SenderRecvKeeps ==
  ASSUME AckInv, NEW p \in packets["receiver"], SenderRecv(p)
  PROVE  AckInv' /\ ack' >= ack
<1>1. /\ p.sequence > incoming["sender"] /\ ack' = p.ack
      /\ incoming' = [incoming EXCEPT !["sender"] = p.sequence]
      /\ UNCHANGED <<sequence, packets, applied>>
  BY DEF SenderRecv, receiver
<1>2. incoming'["sender"] = p.sequence /\ incoming'["receiver"] = incoming["receiver"]
      /\ incoming' \in [Hosts -> Int]
  BY <1>1, HostsTwo DEF AckInv, NumbersTyped
<1>3. NumbersTyped' BY <1>1, <1>2, HostsTwo DEF AckInv, NumbersTyped
<1>4. \A q \in packets["receiver"] : q.sequence > p.sequence => p.ack <= q.ack
  BY DEF AckInv, AcksOrdered
<1>5. AcksOrdered' BY <1>1, <1>2, <1>4 DEF AckInv, AcksOrdered, Acknowledged
<1>6. ack' >= ack BY <1>1, HostsTwo DEF AckInv, AcksOrdered, NumbersTyped
<1> QED BY <1>3, <1>5, <1>6 DEF AckInv

(* The receiver applies a packet newer than the last. *)
LEMMA ReceiverRecvKeeps ==
  ASSUME AckInv, NEW p \in packets["sender"], ReceiverRecv(p)
  PROVE  AckInv'
<1>1. /\ p.sequence > incoming["receiver"] /\ applied' = applied \cup {p.sequence}
      /\ incoming' = [incoming EXCEPT !["receiver"] = p.sequence]
      /\ UNCHANGED <<sequence, packets, ack>>
  BY DEF ReceiverRecv
<1>2. p.sequence \in Nat BY HostsTwo DEF AckInv, NumbersTyped
<1>3. incoming'["receiver"] = p.sequence /\ incoming'["sender"] = incoming["sender"]
      /\ incoming' \in [Hosts -> Int]
  BY <1>1, <1>2, HostsTwo DEF AckInv, NumbersTyped
<1>4. NumbersTyped' BY <1>1, <1>2, <1>3, HostsTwo DEF AckInv, NumbersTyped
<1>5. AcksOrdered'
  <2>1. Acknowledged \subseteq Acknowledged' /\ p.sequence \in Acknowledged'
    BY <1>1 DEF Acknowledged
  <2>2. \A n \in Int : n <= incoming["receiver"] => n <= p.sequence
    BY <1>1, <1>2, HostsTwo DEF AckInv, NumbersTyped
  <2> QED BY <1>1, <1>3, <2>1, <2>2, HostsTwo DEF AckInv, NumbersTyped, AcksOrdered
<1> QED BY <1>4, <1>5 DEF AckInv

LEMMA UpdateEndKeeps ==
  ASSUME AckInv, NEW h \in Hosts, UpdateEnd(h)
  PROVE  AckInv'
<1>1. /\ sequence' = [sequence EXCEPT ![h] = @ + 1]
      /\ UNCHANGED <<incoming, ack, packets, applied>>
  BY DEF UpdateEnd, receiver
<1>2. sequence' \in [Hosts -> Nat] /\ sequence'["receiver"] >= sequence["receiver"]
  BY <1>1, HostsTwo DEF AckInv, NumbersTyped
<1>3. NumbersTyped' BY <1>1, <1>2 DEF AckInv, NumbersTyped
<1>4. AcksOrdered'
  BY <1>1, <1>2, HostsTwo DEF AckInv, NumbersTyped, AcksOrdered, Acknowledged
<1> QED BY <1>3, <1>4 DEF AckInv

(* The steps that neither send nor receive. *)
LEMMA AckStutters ==
  ASSUME AckInv, UNCHANGED <<sequence, incoming, ack, packets, applied>>
  PROVE  AckInv'
BY DEF AckInv, NumbersTyped, AcksOrdered, Acknowledged

LEMMA GameStutters ==
  ASSUME Spawn \/ (\E e \in Ids, v \in Values : Move(e, v)) \/ (\E i \in Slots : Despawn(i))
         \/ UNCHANGED vars
  PROVE  UNCHANGED <<sequence, incoming, ack, packets, applied>>
BY DEF Spawn, Move, Despawn, vars, receiver

LEMMA AckStep ==
  ASSUME AckInv, [Next]_vars
  PROVE  AckInv' /\ ack' >= ack
<1>1. CASE \E p \in packets["receiver"] : SenderRecv(p) BY <1>1, SenderRecvKeeps
<1>2. CASE ~(\E p \in packets["receiver"] : SenderRecv(p))
  <2>1. AckInv'
    BY <1>2, GameStutters, AckStutters, SenderUpdateKeeps, ReceiverUpdateKeeps,
       ReceiverRecvKeeps, UpdateEndKeeps DEF Next
  <2>2. ack' = ack
    BY <1>2 DEF Next, Spawn, Move, Despawn, SenderUpdate, ReceiverUpdate, ReceiverRecv,
                UpdateEnd, vars
  <2>3. ack \in Int BY DEF AckInv, NumbersTyped
  <2> QED BY <2>1, <2>2, <2>3
<1> QED BY <1>1, <1>2

-----------------------------------------------------------------------------
(* Loops and least elements *)

LEMMA LeastNat ==
  ASSUME NEW S \in SUBSET Nat, S # {}
  PROVE  \E m \in S : \A j \in S : m <= j
<1>1. PICK m \in S : \A j \in S : ~(<<j, m>> \in OpToRel(<, Nat))
  BY NatLessThanWellFounded, WFMin
<1>2. {ss \in Nat \X Nat : ss[1] < ss[2]} = OpToRel(<, Nat) BY Zenon DEF OpToRel
<1>3. ASSUME NEW j \in S PROVE m <= j
  <2>1. j < m => <<j, m>> \in {ss \in Nat \X Nat : ss[1] < ss[2]} OBVIOUS
  <2>2. ~(j < m) BY <1>1, <1>2, <2>1
  <2> QED BY <2>2
<1> QED BY <1>3

LEMMA FirstIsLeast ==
  ASSUME NEW S \in SUBSET Nat, S # {}
  PROVE  FirstOf(S) \in S /\ \A j \in S : FirstOf(S) <= j
BY LeastNat DEF FirstOf

(* A loop over 1 .. n is a function of how many rounds have been made. *)
IsLoop(f, n, base, step) == f = [i \in 0 .. n |-> IF i = 0 THEN base ELSE step[<<f[i - 1], i>>]]
LEMMA LoopExists ==
  ASSUME NEW D, NEW base \in D, NEW n \in Nat, NEW step, \A c \in D, i \in 1 .. n : step[<<c, i>>] \in D
  PROVE  \E f \in [0 .. n -> D] : IsLoop(f, n, base, step)
<1> DEFINE F(f, m) == [i \in 0 .. m |-> IF i = 0 THEN base ELSE step[<<f[i - 1], i>>]]
           Bad == {m \in 0 .. n : ~\E f \in [0 .. m -> D] : f = F(f, m)}
<1>1. Bad = {}
  <2> SUFFICES ASSUME Bad # {} PROVE FALSE OBVIOUS
  <2>0. Bad \in SUBSET Nat OBVIOUS
  <2> HIDE DEF Bad
  <2>1. PICK m \in Bad : \A j \in Bad : m <= j BY <2>0, LeastNat
  <2>2. m \in 0 .. n /\ ~\E f \in [0 .. m -> D] : f = F(f, m) BY <2>1 DEF Bad
  <2>3. CASE m = 0
    <3> DEFINE f == [i \in 0 .. 0 |-> base]
    <3>1. f = F(f, 0) OBVIOUS
    <3>2. f \in [0 .. 0 -> D] OBVIOUS
    <3> QED BY <2>2, <2>3, <3>1, <3>2
  <2>4. CASE m # 0
    <3>1. m - 1 \in 0 .. n /\ ~(m <= m - 1) /\ m \in 1 .. n BY <2>2, <2>4
    <3>2. m - 1 \notin Bad BY <2>1, <3>1
    <3>3. PICK f \in [0 .. m - 1 -> D] : f = F(f, m - 1) BY <3>1, <3>2 DEF Bad
    <3> DEFINE g == [i \in 0 .. m |-> IF i = m THEN step[<<f[m - 1], m>>] ELSE f[i]]
    <3>4. \A i \in 0 .. m - 1 : g[i] = f[i] /\ g[i] \in D BY <2>2, <3>1
    <3>a. g[m] = step[<<f[m - 1], m>>] /\ g[m] \in D
      <4>1. m - 1 \in 0 .. m - 1 BY <3>1
      <4> QED BY <2>2, <3>1, <4>1
    <3>b. \A i \in 0 .. m : i = m \/ i \in 0 .. m - 1 BY <2>2
    <3>5. ASSUME NEW i \in 0 .. m
          PROVE  g[i] = IF i = 0 THEN base ELSE step[<<g[i - 1], i>>]
      <4>1. CASE i = m
        <5>1. g[m - 1] = f[m - 1] BY <3>1, <3>4
        <5> QED BY <2>4, <3>a, <4>1, <5>1
      <4>2. CASE i # m /\ i # 0
        <5>1. i \in 0 .. m - 1 /\ i - 1 \in 0 .. m - 1 BY <2>2, <4>2
        <5>2. f[i] = step[<<f[i - 1], i>>] BY <3>3, <4>2, <5>1
        <5> QED BY <3>4, <4>2, <5>1, <5>2
      <4>3. CASE i # m /\ i = 0
        <5>1. 0 \in 0 .. m - 1 BY <3>1
        <5>2. f[0] = base BY <3>3, <5>1
        <5> QED BY <3>4, <4>3, <5>1, <5>2
      <4> QED BY <4>1, <4>2, <4>3
    <3>6. g \in [0 .. m -> D] /\ g = [i \in 0 .. m |-> g[i]] BY <3>4, <3>a, <3>b
    <3> HIDE DEF g
    <3>7. g = F(g, m) BY <3>5, <3>6
    <3> QED BY <2>2, <3>6, <3>7
  <2> QED BY <2>3, <2>4
<1>2. n \in 0 .. n OBVIOUS
<1>3. PICK f \in [0 .. n -> D] : f = F(f, n) BY <1>1, <1>2
<1>4. IsLoop(f, n, base, step) BY <1>3 DEF IsLoop
<1> QED BY <1>4

-----------------------------------------------------------------------------
(* The types *)

LEMMA Constants ==
  /\ MaxEntities \in Nat \ {0} /\ MaxCopies \in Nat \ {0} /\ MaxSnapshots \in Nat \ {0} /\ IdBound \in Nat
  /\ Values \subseteq Nat /\ 0 \in Values /\ Unset \notin Values
  /\ UpdateBound \in [Hosts -> Nat] /\ UpdateBound["sender"] \in Nat /\ UpdateBound["receiver"] \in Nat
  /\ Peer("sender") = "receiver" /\ Peer("receiver") = "sender"
  /\ "sender" \in Hosts /\ "receiver" \in Hosts
BY ReplicationAssumption DEF Hosts, Peer

(* A sequence number has a place in the ring. *)
LEMMA RingPlace ==
  ASSUME NEW n \in Nat
  PROVE  n % MaxSnapshots \in 0 .. MaxSnapshots - 1
<1>1. MaxSnapshots \in Nat /\ MaxSnapshots > 0 BY Constants
<1> QED BY <1>1

EcsEntry == [state : {"unborn", "alive", "leaving", "gone"}, value : Values]

(* A snapshot has the registered entities up to the first slot without one. *)
LEMMA SnapshotFacts ==
  ASSUME TypeOK, NEW world \in [Ids -> EcsEntry]
  PROVE  /\ Snapshot(world) \in Seq(Entry)
         /\ \E size \in 0 .. MaxEntities :
              /\ Snapshot(world) = [i \in 1 .. size |-> [id |-> entities[i], value |-> world[entities[i]].value]]
              /\ \A i \in 1 .. size : Registered(i, world)
              /\ size < MaxEntities => ~Registered(size + 1, world)
<1> DEFINE holes == {i \in Slots : ~Registered(i, world)}
           size == IF holes = {} THEN MaxEntities ELSE FirstOf(holes) - 1
<1>1. Snapshot(world) = [i \in 1 .. size |-> [id |-> entities[i], value |-> world[entities[i]].value]]
  BY DEF Snapshot
<1>2. /\ size \in 0 .. MaxEntities /\ \A i \in 1 .. size : i \in Slots /\ Registered(i, world)
      /\ size < MaxEntities => ~Registered(size + 1, world)
  <2>1. CASE holes = {} BY <2>1, Constants DEF Slots
  <2>2. CASE holes # {}
    <3>1. holes \in SUBSET Nat BY Constants DEF Slots
    <3>2. FirstOf(holes) \in holes /\ \A j \in holes : FirstOf(holes) <= j BY <2>2, <3>1, FirstIsLeast
    <3>3. FirstOf(holes) \in 1 .. MaxEntities BY <3>2 DEF Slots
    <3>4. size = FirstOf(holes) - 1 /\ size + 1 = FirstOf(holes) BY <2>2, <3>3, Constants
    <3>5. ASSUME NEW i \in 1 .. size PROVE i \in Slots /\ Registered(i, world)
      <4>1. i \in Slots /\ ~(FirstOf(holes) <= i) BY <3>3, <3>4, <3>5, Constants DEF Slots
      <4> QED BY <3>2, <4>1
    <3> QED BY <3>2, <3>3, <3>4, <3>5, Constants
  <2> QED BY <2>1, <2>2
<1> HIDE DEF size
<1>3. ASSUME NEW i \in 1 .. size
      PROVE  [id |-> entities[i], value |-> world[entities[i]].value] \in Entry
  <2>1. entities[i] \in Ids BY <1>2, <1>3 DEF Registered
  <2> QED BY <2>1 DEF Entry, EcsEntry
<1>4. Snapshot(world) \in Seq(Entry) BY <1>1, <1>2, <1>3
<1> QED BY <1>1, <1>2, <1>4

(* A delta has the entities of the snapshot and their values; where it says that
   a value does not differ, the baseline has it. *)
Part == [id : Ids, value : Values, diff : BOOLEAN]
LEMMA DeltaFacts ==
  ASSUME NEW data \in Seq(Entry), NEW baseline \in Seq(Entry)
  PROVE  /\ Delta(data, baseline) \in Seq(Part) /\ Len(Delta(data, baseline)) = Len(data)
         /\ \A i \in DOMAIN data :
              LET x == Delta(data, baseline)[i]
              IN  /\ x.id = data[i].id /\ x.value = data[i].value
                  /\ ~x.diff => \E j \in DOMAIN baseline : baseline[j] = data[i]
<1> DEFINE n == Len(data)
           N == 0 .. Len(baseline)
           Next1(c, i) == IF c < Len(baseline) /\ baseline[c + 1].id = data[i].id THEN c + 1 ELSE c
           F(f) == [i \in 0 .. n |-> IF i = 0 THEN 0 ELSE Next1(f[i - 1], i)]
           met == CHOOSE f : f = F(f)
<1>0. /\ n \in Nat /\ Len(baseline) \in Nat /\ DOMAIN data = 1 .. n
      /\ DOMAIN baseline = 1 .. Len(baseline) /\ \A i \in 1 .. n : data[i] \in Entry
      /\ \A i \in 1 .. Len(baseline) : baseline[i] \in Entry
  OBVIOUS
<1>1. Delta(data, baseline) =
        [i \in 1 .. n |->
           [id |-> data[i].id, value |-> data[i].value,
            diff |-> met[i] = met[i - 1] \/ baseline[met[i]].value # data[i].value]]
  BY DEF Delta
<1>2. \E f : f = F(f)
  <2> DEFINE step == [x \in N \X (1 .. n) |-> Next1(x[1], x[2])]
  <2>1. \A c \in N, i \in 1 .. n : step[<<c, i>>] = Next1(c, i) OBVIOUS
  <2>2. \A c \in N, i \in 1 .. n : Next1(c, i) \in N BY <1>0
  <2>3. 0 \in N /\ n \in Nat BY <1>0
  <2>a. \A c \in N, i \in 1 .. n : step[<<c, i>>] \in N BY <2>1, <2>2
  <2> HIDE DEF step, N, n, Next1
  <2>b. PICK f \in [0 .. n -> N] : IsLoop(f, n, 0, step) BY <2>a, <2>3, LoopExists
  <2>4. f = [i \in 0 .. n |-> IF i = 0 THEN 0 ELSE step[<<f[i - 1], i>>]] BY <2>b DEF IsLoop
  <2>5. ASSUME NEW i \in 0 .. n, i # 0 PROVE step[<<f[i - 1], i>>] = Next1(f[i - 1], i)
    <3>1. i - 1 \in 0 .. n /\ i \in 1 .. n BY <2>3, <2>5
    <3> QED BY <2>1, <2>b, <3>1
  <2>6. f = F(f) BY <2>4, <2>5
  <2> QED BY <2>6
<1>3. met = F(met) BY <1>2
<1> HIDE DEF met
<1>4. met[0] = 0 /\ \A i \in 1 .. n : met[i] = Next1(met[i - 1], i)
  <2>1. ASSUME NEW i \in 0 .. n PROVE met[i] = IF i = 0 THEN 0 ELSE Next1(met[i - 1], i)
    <3> HIDE DEF n, Next1
    <3> QED BY <1>3
  <2>2. 0 \in 0 .. n /\ \A i \in 1 .. n : i \in 0 .. n /\ i # 0 BY <1>0
  <2> HIDE DEF n, Next1
  <2> QED BY <2>1, <2>2
<1>5. \A i \in 0 .. n : met[i] \in N
  <2> DEFINE Bad == {i \in 0 .. n : met[i] \notin N}
  <2> SUFFICES ASSUME Bad # {} PROVE FALSE OBVIOUS
  <2>1. Bad \in SUBSET Nat BY <1>0
  <2>2. PICK m \in Bad : \A j \in Bad : m <= j BY <2>1, LeastNat
  <2>3. m # 0 BY <1>0, <1>4, <2>2
  <2>4. m \in 1 .. n /\ m - 1 \in 0 .. n /\ ~(m <= m - 1) BY <1>0, <2>2, <2>3
  <2>5. met[m - 1] \in N /\ met[m] = Next1(met[m - 1], m) BY <1>4, <2>2, <2>4
  <2>6. met[m] \in N BY <1>0, <2>5
  <2> QED BY <2>2, <2>6
<1>6. ASSUME NEW i \in 1 .. n
      PROVE  LET x == Delta(data, baseline)[i]
             IN  /\ x.id = data[i].id /\ x.value = data[i].value /\ x \in Part
                 /\ ~x.diff => \E j \in DOMAIN baseline : baseline[j] = data[i]
  <2> DEFINE x == Delta(data, baseline)[i]
  <2>1. x = [id |-> data[i].id, value |-> data[i].value,
             diff |-> met[i] = met[i - 1] \/ baseline[met[i]].value # data[i].value]
    BY <1>1, <1>6
  <2>2. data[i] \in Entry BY <1>0
  <2>3. ASSUME ~x.diff PROVE \E j \in DOMAIN baseline : baseline[j] = data[i]
    <3>0. x.diff = (met[i] = met[i - 1] \/ baseline[met[i]].value # data[i].value) BY <2>1
    <3>1. met[i] # met[i - 1] /\ baseline[met[i]].value = data[i].value
      <4> HIDE DEF x
      <4> QED BY <2>3, <3>0, Zenon
    <3>2. i - 1 \in 0 .. n BY <1>0
    <3>3. met[i - 1] \in N BY <1>5, <3>2
    <3>4. met[i] = met[i - 1] + 1 /\ met[i - 1] < Len(baseline) /\ baseline[met[i - 1] + 1].id = data[i].id
      BY <1>4, <3>1
    <3>5. met[i] \in DOMAIN baseline BY <1>0, <3>3, <3>4
    <3>6. baseline[met[i]] \in Entry BY <1>0, <3>5
    <3>7. baseline[met[i]] = data[i] BY <2>2, <3>1, <3>4, <3>6 DEF Entry
    <3> QED BY <3>5, <3>7
  <2>4. x \in Part BY <2>1, <2>2 DEF Part, Entry
  <2> HIDE DEF x
  <2>5. x.id = data[i].id /\ x.value = data[i].value BY <2>1
  <2> QED BY <2>3, <2>4, <2>5 DEF x
<1>7. Delta(data, baseline) \in Seq(Part) /\ Len(Delta(data, baseline)) = n
  <2>1. \A i \in 1 .. n : Delta(data, baseline)[i] \in Part BY <1>6
  <2> QED BY <1>0, <1>1, <2>1
<1> QED BY <1>0, <1>6, <1>7

(* A packet carries the values that differ. *)
LEMMA PacketFacts ==
  ASSUME NEW h, NEW ents \in Seq(Part)
  PROVE  /\ Packet(h, ents).ents \in Seq(Message) /\ Len(Packet(h, ents).ents) = Len(ents)
         /\ \A i \in DOMAIN ents :
              LET x == Packet(h, ents).ents[i]
              IN  x.id = ents[i].id /\ x.diff = ents[i].diff /\ (x.diff => x.value = ents[i].value)
<1> DEFINE e == Packet(h, ents).ents
<1>1. e = [i \in DOMAIN ents |-> IF ents[i].diff THEN ents[i] ELSE [ents[i] EXCEPT !.value = Unset]]
  BY DEF Packet
<1>2. Len(ents) \in Nat /\ DOMAIN ents = 1 .. Len(ents) /\ \A i \in 1 .. Len(ents) : ents[i] \in Part
  OBVIOUS
<1> HIDE DEF e
<1>3. ASSUME NEW i \in 1 .. Len(ents)
      PROVE  /\ e[i] \in Message /\ e[i].id = ents[i].id /\ e[i].diff = ents[i].diff
             /\ e[i].diff => e[i].value = ents[i].value
  <2>1. ents[i] \in Part /\ e[i] = IF ents[i].diff THEN ents[i] ELSE [ents[i] EXCEPT !.value = Unset]
    BY <1>1, <1>2
  <2> QED BY <2>1 DEF Part, Message
<1>4. e \in Seq(Message) /\ Len(e) = Len(ents) BY <1>1, <1>2, <1>3
<1> QED BY <1>2, <1>3, <1>4 DEF e

(* What a round of packet_read_entities does. *)
CopyRec == [state : {"none", "live", "leaving"}, remote : Ids \cup {0},
            value : Values \cup {Unset}, last : 0 .. UpdateBound["receiver"]]
ReadState == [slots : [CopySlots -> CopyRec], strays : SUBSET Ids]
NewCopy(x) == [state |-> "live", remote |-> x.id, value |-> x.value, last |-> sequence["receiver"]]
SeenCopy(y, x) ==
  [y EXCEPT !.last = sequence["receiver"], !.value = IF x.diff THEN x.value ELSE y.value]

LEMMA SlotsAreNumbers == CopySlots \subseteq Nat /\ Slots \subseteq Nat
BY Constants DEF CopySlots, Slots

LEMMA ReadEntityTyped ==
  ASSUME NEW c \in ReadState, NEW x \in Message, sequence["receiver"] \in 0 .. UpdateBound["receiver"]
  PROVE  ReadEntity(c, x) \in ReadState
<1> DEFINE known == {i \in CopySlots : c.slots[i].remote = x.id}
           k == FirstOf(known)
           seen == IF known = {} THEN c.slots ELSE [c.slots EXCEPT ![k].last = sequence["receiver"]]
           free == {i \in CopySlots : c.slots[i].state = "none"}
           f == FirstOf(free)
           new == NewCopy(x)
           slots1 == IF x.diff THEN [seen EXCEPT ![k].value = x.value] ELSE seen
           slots2 == [seen EXCEPT ![f] = new]
<1>1. ReadEntity(c, x) =
        IF known # {} /\ c.slots[k].state # "none" THEN [c EXCEPT !.slots = slots1]
        ELSE IF free # {} THEN [c EXCEPT !.slots = slots2]
        ELSE [slots |-> seen, strays |-> c.strays \cup {x.id}]
  BY DEF ReadEntity, NewCopy
<1>2. /\ known # {} => k \in CopySlots
      /\ free # {} => f \in CopySlots
  <2>1. known \in SUBSET Nat /\ free \in SUBSET Nat BY SlotsAreNumbers
  <2> QED BY <2>1, FirstIsLeast
<1>3. c.slots \in [CopySlots -> CopyRec] /\ c.strays \in SUBSET Ids BY DEF ReadState
<1> HIDE DEF k, f, known, free
<1>4. seen \in [CopySlots -> CopyRec]
  <2>1. CASE known = {} BY <1>3, <2>1
  <2>2. CASE known # {}
    <3>1. [c.slots[k] EXCEPT !.last = sequence["receiver"]] \in CopyRec BY <1>2, <1>3, <2>2 DEF CopyRec
    <3> QED BY <1>2, <1>3, <2>2, <3>1
  <2> QED BY <2>1, <2>2
<1>5. new \in CopyRec BY DEF NewCopy, CopyRec, Message
<1> HIDE DEF seen, new
<1>6. known # {} => slots1 \in [CopySlots -> CopyRec]
  <2> SUFFICES ASSUME known # {}, x.diff PROVE [seen EXCEPT ![k].value = x.value] \in [CopySlots -> CopyRec]
    BY <1>4
  <2>1. [seen[k] EXCEPT !.value = x.value] \in CopyRec BY <1>2, <1>4 DEF CopyRec, Message
  <2> QED BY <1>2, <1>4, <2>1
<1>7. free # {} => slots2 \in [CopySlots -> CopyRec] BY <1>2, <1>4, <1>5
<1> HIDE DEF slots1, slots2
<1>8. c.strays \cup {x.id} \in SUBSET Ids BY <1>3 DEF Message
<1> QED BY <1>1, <1>3, <1>4, <1>6, <1>7, <1>8 DEF ReadState

(* It finds the copy of the entity, or a slot for a new one, or there is none. *)
LEMMA ReadEntityCases ==
  ASSUME NEW c \in ReadState, NEW x \in Message,
         \A i \in CopySlots : c.slots[i].remote = x.id => c.slots[i].state # "none"
  PROVE  \/ \E q \in CopySlots :
              /\ c.slots[q].remote = x.id
              /\ ReadEntity(c, x) = [c EXCEPT !.slots = [c.slots EXCEPT ![q] = SeenCopy(c.slots[q], x)]]
         \/ /\ \A i \in CopySlots : c.slots[i].remote # x.id
            /\ \E q \in CopySlots :
                 /\ c.slots[q].state = "none"
                 /\ ReadEntity(c, x) = [c EXCEPT !.slots = [c.slots EXCEPT ![q] = NewCopy(x)]]
         \/ /\ \A i \in CopySlots : c.slots[i].remote # x.id /\ c.slots[i].state # "none"
            /\ ReadEntity(c, x) = [slots |-> c.slots, strays |-> c.strays \cup {x.id}]
<1> DEFINE known == {i \in CopySlots : c.slots[i].remote = x.id}
           k == FirstOf(known)
           seen == IF known = {} THEN c.slots ELSE [c.slots EXCEPT ![k].last = sequence["receiver"]]
           free == {i \in CopySlots : c.slots[i].state = "none"}
           f == FirstOf(free)
           slots1 == IF x.diff THEN [seen EXCEPT ![k].value = x.value] ELSE seen
           slots2 == [seen EXCEPT ![f] = NewCopy(x)]
<1>1. ReadEntity(c, x) =
        IF known # {} /\ c.slots[k].state # "none" THEN [c EXCEPT !.slots = slots1]
        ELSE IF free # {} THEN [c EXCEPT !.slots = slots2]
        ELSE [slots |-> seen, strays |-> c.strays \cup {x.id}]
  BY DEF ReadEntity, NewCopy
<1>2. /\ known # {} => k \in CopySlots /\ c.slots[k].remote = x.id /\ c.slots[k].state # "none"
      /\ free # {} => f \in CopySlots /\ c.slots[f].state = "none"
  <2>1. known \in SUBSET Nat /\ free \in SUBSET Nat BY SlotsAreNumbers
  <2>2. (known # {} => k \in known) /\ (free # {} => f \in free) BY <2>1, FirstIsLeast
  <2> QED BY <2>2
<1>3. c.slots \in [CopySlots -> CopyRec] BY DEF ReadState
<1>4. CASE known # {}
  <2>1. ReadEntity(c, x) = [c EXCEPT !.slots = slots1] BY <1>1, <1>2, <1>4
  <2>2. slots1 = [c.slots EXCEPT ![k] = SeenCopy(c.slots[k], x)]
    <3> HIDE DEF k, known
    <3>1. c.slots[k] \in CopyRec BY <1>2, <1>3, <1>4
    <3>2. seen = [c.slots EXCEPT ![k].last = sequence["receiver"]] BY <1>4
    <3>3. seen = [c.slots EXCEPT ![k] = [c.slots[k] EXCEPT !.last = sequence["receiver"]]] BY <3>2
    <3>4. CASE x.diff
      <4>1. slots1 = [c.slots EXCEPT ![k] = [[c.slots[k] EXCEPT !.last = sequence["receiver"]] EXCEPT !.value = x.value]]
        BY <1>2, <1>3, <1>4, <3>3, <3>4
      <4>2. SeenCopy(c.slots[k], x) = [[c.slots[k] EXCEPT !.last = sequence["receiver"]] EXCEPT !.value = x.value]
        BY <3>1, <3>4 DEF SeenCopy, CopyRec
      <4> QED BY <4>1, <4>2
    <3>5. CASE ~x.diff
      <4>1. SeenCopy(c.slots[k], x) = [c.slots[k] EXCEPT !.last = sequence["receiver"]]
        BY <3>1, <3>5 DEF SeenCopy, CopyRec
      <4> QED BY <3>3, <3>5, <4>1
    <3> QED BY <3>4, <3>5
  <2> QED BY <1>2, <1>4, <2>1, <2>2
<1>5. CASE known = {} /\ free # {}
  <2>1. ReadEntity(c, x) = [c EXCEPT !.slots = [c.slots EXCEPT ![f] = NewCopy(x)]] BY <1>1, <1>5
  <2> QED BY <1>2, <1>5, <2>1
<1>6. CASE known = {} /\ free = {}
  <2>1. ReadEntity(c, x) = [slots |-> seen, strays |-> c.strays \cup {x.id}] BY <1>1, <1>6
  <2> QED BY <1>6, <2>1
<1> QED BY <1>4, <1>5, <1>6

(* The loop of packet_read_entities over the entities of a packet. *)
LEMMA ReadLoop ==
  ASSUME NEW p, p.ents \in Seq(Message), NEW read \in ReadState,
         sequence["receiver"] \in 0 .. UpdateBound["receiver"],
         NEW after, after = CHOOSE f : f = [i \in 0 .. Len(p.ents) |->
                                             IF i = 0 THEN read ELSE ReadEntity(f[i - 1], p.ents[i])]
  PROVE  /\ after[0] = read
         /\ \A i \in 0 .. Len(p.ents) : after[i] \in ReadState
         /\ \A i \in 1 .. Len(p.ents) : after[i] = ReadEntity(after[i - 1], p.ents[i])
<1> DEFINE n == Len(p.ents)
           F(f) == [i \in 0 .. n |-> IF i = 0 THEN read ELSE ReadEntity(f[i - 1], p.ents[i])]
<1>0. n \in Nat /\ \A i \in 1 .. n : p.ents[i] \in Message OBVIOUS
<1> HIDE DEF n
<1>1. \E f : f = F(f)
  <2> DEFINE step == [x \in ReadState \X (1 .. n) |-> ReadEntity(x[1], p.ents[x[2]])]
  <2>1. \A c \in ReadState, i \in 1 .. n : step[<<c, i>>] = ReadEntity(c, p.ents[i]) OBVIOUS
  <2>2. \A c \in ReadState, i \in 1 .. n : step[<<c, i>>] \in ReadState
    BY <1>0, <2>1, ReadEntityTyped
  <2> HIDE DEF step
  <2>3. PICK f \in [0 .. n -> ReadState] : IsLoop(f, n, read, step) BY <1>0, <2>2, LoopExists
  <2>4. f = [i \in 0 .. n |-> IF i = 0 THEN read ELSE step[<<f[i - 1], i>>]] BY <2>3 DEF IsLoop
  <2>5. ASSUME NEW i \in 0 .. n, i # 0 PROVE step[<<f[i - 1], i>>] = ReadEntity(f[i - 1], p.ents[i])
    <3>1. i - 1 \in 0 .. n /\ i \in 1 .. n BY <1>0, <2>5
    <3>2. f[i - 1] \in ReadState BY <2>3, <3>1
    <3> QED BY <2>1, <3>1, <3>2
  <2>6. f = F(f) BY <2>4, <2>5
  <2> QED BY <2>6
<1>2. after = CHOOSE f : f = F(f) BY DEF n
<1>3. after = F(after) BY <1>1, <1>2
<1>4. ASSUME NEW i \in 0 .. n PROVE after[i] = IF i = 0 THEN read ELSE ReadEntity(after[i - 1], p.ents[i])
  BY <1>3
<1>5. 0 \in 0 .. n /\ \A i \in 1 .. n : i \in 0 .. n /\ i # 0 /\ i - 1 \in 0 .. n BY <1>0
<1>6. after[0] = read /\ \A i \in 1 .. n : after[i] = ReadEntity(after[i - 1], p.ents[i]) BY <1>4, <1>5
<1>7. \A i \in 0 .. n : after[i] \in ReadState
  <2> DEFINE Bad == {i \in 0 .. n : after[i] \notin ReadState}
  <2> SUFFICES ASSUME Bad # {} PROVE FALSE OBVIOUS
  <2>1. Bad \in SUBSET Nat BY <1>0
  <2>2. PICK m \in Bad : \A j \in Bad : m <= j BY <2>1, LeastNat
  <2>3. m # 0 BY <1>6, <2>2
  <2>4. m \in 1 .. n /\ m - 1 \in 0 .. n /\ ~(m <= m - 1) BY <1>0, <2>2, <2>3
  <2>5. after[m - 1] \in ReadState /\ after[m] = ReadEntity(after[m - 1], p.ents[m]) BY <1>6, <2>2, <2>4
  <2>6. after[m] \in ReadState BY <1>0, <2>4, <2>5, ReadEntityTyped
  <2> QED BY <2>2, <2>6
<1> QED BY <1>6, <1>7 DEF n

(* An update of the sender: it sends p, of the entities in data, taken against
   base, a snapshot in the ring. *)
Sends(p, data, base) ==
  /\ data \in Seq(Entry) /\ base \in Seq(Entry)
  /\ phase["sender"] = "game" /\ sequence["sender"] < UpdateBound["sender"]
  /\ taken' = Append(taken, data)
  /\ packets' = [packets EXCEPT !["sender"] = @ \cup {p}]
  /\ snapshots' = [snapshots EXCEPT ![sequence["sender"] % MaxSnapshots] =
                     [sequence |-> sequence["sender"], data |-> data]]
  /\ p.sequence = sequence["sender"] /\ p.ents \in Seq(Message) /\ Len(p.ents) = Len(data)
  /\ \A i \in DOMAIN data :
       /\ p.ents[i].id = data[i].id
       /\ IF p.ents[i].diff THEN p.ents[i].value = data[i].value
          ELSE \E j \in DOMAIN base : base[j] = data[i]
  /\ base # << >> => ack # -1 /\ \E i \in 0 .. MaxSnapshots - 1 :
       snapshots'[i].sequence = ack /\ snapshots'[i].data = base

LEMMA UpdatedTyped == TypeOK => Updated \in [Ids -> EcsEntry]
BY DEF TypeOK, Updated, EcsEntry

LEMMA SenderSends ==
  ASSUME Typed, SenderUpdate
  PROVE  /\ ecs' = Updated /\ phase' = [phase EXCEPT !["sender"] = "recv"]
         /\ UNCHANGED <<sequence, incoming, ack, entities, copies, strays, applied, applied_at>>
         /\ \E p, base : Sends(p, Snapshot(Updated), base)
<1> DEFINE s == sequence["sender"]
           data == Snapshot(Updated)
           ring == [snapshots EXCEPT ![s % MaxSnapshots] = [sequence |-> s, data |-> data]]
           base == Baseline(ring)
           delta == Delta(data, base)
           p == Packet("sender", delta)
<1>1. /\ ecs' = Updated /\ phase' = [phase EXCEPT !["sender"] = "recv"]
      /\ UNCHANGED <<sequence, incoming, ack, entities, copies, strays, applied, applied_at>>
      /\ phase["sender"] = "game" /\ s < UpdateBound["sender"]
      /\ taken' = Append(taken, data)
      /\ packets' = [packets EXCEPT !["sender"] = @ \cup {p}]
      /\ snapshots' = ring
  BY DEF SenderUpdate, receiver
<1>2. data \in Seq(Entry) BY UpdatedTyped, SnapshotFacts DEF Typed
<1>3. s \in Nat /\ s % MaxSnapshots \in 0 .. MaxSnapshots - 1
  <2>1. s \in Nat BY HostsTwo DEF Typed
  <2> HIDE DEF s
  <2> QED BY <2>1, RingPlace
<1>4. snapshots \in [0 .. MaxSnapshots - 1 -> [sequence : Nat, data : Seq(Entry)]] BY DEF Typed
<1> HIDE DEF data, s
<1>5. ring \in [0 .. MaxSnapshots - 1 -> [sequence : Nat, data : Seq(Entry)]] BY <1>2, <1>3, <1>4
<1>6. base \in Seq(Entry) /\ (base # << >> => ack # -1 /\ \E i \in 0 .. MaxSnapshots - 1 :
                                                  ring[i].sequence = ack /\ ring[i].data = base)
  <2> HIDE DEF ring
  <2>1. ack \in Int /\ ack >= -1 BY Constants DEF Typed, TypeOK
  <2>2. CASE ack # -1 /\ ring[ack % MaxSnapshots].sequence = ack
    <3>1. ack % MaxSnapshots \in 0 .. MaxSnapshots - 1 BY <2>1, <2>2, Constants
    <3>2. base = ring[ack % MaxSnapshots].data BY <2>2 DEF Baseline
    <3> QED BY <1>5, <2>2, <3>1, <3>2
  <2>3. CASE ~(ack # -1 /\ ring[ack % MaxSnapshots].sequence = ack)
    <3>1. base = << >> BY <2>3 DEF Baseline
    <3> QED BY <3>1
  <2> QED BY <2>2, <2>3
<1> HIDE DEF base
<1>7. /\ delta \in Seq(Part) /\ Len(delta) = Len(data)
      /\ \A i \in DOMAIN data : /\ delta[i].id = data[i].id /\ delta[i].value = data[i].value
                                /\ ~delta[i].diff => \E j \in DOMAIN base : base[j] = data[i]
  BY <1>2, <1>6, DeltaFacts
<1> HIDE DEF delta
<1>8. /\ p.ents \in Seq(Message) /\ Len(p.ents) = Len(delta)
      /\ \A i \in DOMAIN delta :
           /\ p.ents[i].id = delta[i].id /\ p.ents[i].diff = delta[i].diff
           /\ p.ents[i].diff => p.ents[i].value = delta[i].value
  BY <1>7, PacketFacts
<1>9. p.sequence = s BY PacketNumbers DEF s
<1> HIDE DEF p
<1>10. DOMAIN data = DOMAIN delta BY <1>2, <1>7
<1>11. ASSUME NEW i \in DOMAIN data
       PROVE  /\ p.ents[i].id = data[i].id
              /\ IF p.ents[i].diff THEN p.ents[i].value = data[i].value
                 ELSE \E j \in DOMAIN base : base[j] = data[i]
  BY <1>7, <1>8, <1>10, <1>11
<1>12. Sends(p, data, base) BY <1>1, <1>2, <1>6, <1>7, <1>8, <1>9, <1>11 DEF Sends, s, ring
<1> QED BY <1>1, <1>12 DEF data

(* What the receiver has read when it has seen a packet. *)
LEMMA ReceiverReads ==
  ASSUME Typed, NEW p \in packets["sender"], ReceiverRecv(p)
  PROVE  /\ phase["receiver"] = "recv" /\ p.sequence > incoming["receiver"]
         /\ incoming' = [incoming EXCEPT !["receiver"] = p.sequence]
         /\ applied' = applied \cup {p.sequence} /\ applied_at' = sequence["receiver"]
         /\ UNCHANGED <<sequence, phase, ack, packets, entities, ecs, snapshots, taken>>
         /\ \E after :
              /\ after[0] = [slots |-> copies, strays |-> strays]
              /\ \A i \in 0 .. Len(p.ents) : after[i] \in ReadState
              /\ \A i \in 1 .. Len(p.ents) : after[i] = ReadEntity(after[i - 1], p.ents[i])
              /\ copies' = RemoveUnseen(after[Len(p.ents)].slots) /\ strays' = after[Len(p.ents)].strays
<1> DEFINE read == [slots |-> copies, strays |-> strays]
           after == CHOOSE f : f = [i \in 0 .. Len(p.ents) |->
                                      IF i = 0 THEN read ELSE ReadEntity(f[i - 1], p.ents[i])]
<1>1. /\ phase["receiver"] = "recv" /\ p.sequence > incoming["receiver"]
      /\ incoming' = [incoming EXCEPT !["receiver"] = p.sequence]
      /\ applied' = applied \cup {p.sequence} /\ applied_at' = sequence["receiver"]
      /\ UNCHANGED <<sequence, phase, ack, packets, entities, ecs, snapshots, taken>>
      /\ copies' = RemoveUnseen(after[Len(p.ents)].slots) /\ strays' = after[Len(p.ents)].strays
  BY DEF ReceiverRecv, registry
<1>2. read \in ReadState BY DEF ReadState, CopyRec, Typed, TypeOK
<1>3. p.ents \in Seq(Message) /\ sequence["receiver"] \in 0 .. UpdateBound["receiver"]
  BY Constants DEF Typed, TypeOK
<1> HIDE DEF read
<1>4. after = CHOOSE f : f = [i \in 0 .. Len(p.ents) |->
                                      IF i = 0 THEN read ELSE ReadEntity(f[i - 1], p.ents[i])]
  OBVIOUS
<1> HIDE DEF after
<1>5. /\ after[0] = read
      /\ \A i \in 0 .. Len(p.ents) : after[i] \in ReadState
      /\ \A i \in 1 .. Len(p.ents) : after[i] = ReadEntity(after[i - 1], p.ents[i])
  BY <1>2, <1>3, <1>4, ReadLoop
<1> QED BY <1>1, <1>5 DEF read

LEMMA TypedInit == Init => Typed
<1> SUFFICES ASSUME Init PROVE Typed OBVIOUS
<1> USE Constants
<1>1. sequence = [h \in Hosts |-> 0] /\ phase = [h \in Hosts |-> "game"]
      /\ incoming = [h \in Hosts |-> -1] /\ packets = [h \in Hosts |-> {}] /\ ack = -1
      /\ taken = << >> /\ applied = {} /\ applied_at = 0 /\ strays = {}
  BY DEF Init
<1>2. ecs \in [Ids -> [state : {"unborn", "alive", "leaving", "gone"}, value : Values]] BY DEF Init
<1>3. copies \in [CopySlots -> [state : {"none", "live", "leaving"}, remote : Ids \cup {0},
                                value : Values \cup {Unset}, last : 0 .. UpdateBound["receiver"]]]
  BY DEF Init
<1>4. snapshots \in [0 .. MaxSnapshots - 1 -> [sequence : Nat, data : Seq(Entry)]]
  <2>1. << >> \in Seq(Entry) OBVIOUS
  <2> QED BY <2>1 DEF Init
<1>5. entities \in [Slots -> Ids \cup {0}] BY DEF Init
<1>6. taken \in Seq(Seq(Entry)) /\ Len(taken) = 0 BY <1>1
<1>7. \A h \in Hosts : sequence[h] = 0 /\ incoming[h] = -1 /\ UpdateBound[h] \in Nat
                       /\ UpdateBound[Peer(h)] \in Nat /\ packets[h] = {} /\ phase[h] = "game"
  BY <1>1, HostsTwo
<1>8. TypeOK BY <1>1, <1>2, <1>3, <1>4, <1>5, <1>6, <1>7 DEF TypeOK
<1> QED BY <1>1, <1>4, <1>6, <1>7, <1>8 DEF Typed

(* The steps of the sender's game, which change its table and entities. *)
LEMMA GameTyped ==
  ASSUME Typed, Spawn \/ (\E e \in Ids, v \in Values : Move(e, v)) \/ (\E i \in Slots : Despawn(i))
  PROVE  Typed'
<1>1. UNCHANGED <<sequence, phase, incoming, ack, packets, snapshots, copies, strays, applied, applied_at, taken>>
  BY DEF Spawn, Move, Despawn, receiver
<1>2. entities \in [Slots -> Ids \cup {0}] /\ ecs \in [Ids -> EcsEntry] BY DEF Typed, TypeOK, EcsEntry
<1>3. entities' \in [Slots -> Ids \cup {0}] /\ ecs' \in [Ids -> EcsEntry]
  <2>1. CASE Spawn
    <3> DEFINE unborn == {e \in Ids : ecs[e].state = "unborn"}
               free == {i \in Slots : ~Registered(i, ecs)}
    <3>1. /\ unborn # {} /\ free # {} /\ entities' = [entities EXCEPT ![FirstOf(free)] = FirstOf(unborn)]
          /\ ecs' = [ecs EXCEPT ![FirstOf(unborn)].state = "alive"]
      BY <2>1 DEF Spawn, Register
    <3>2. unborn \in SUBSET Nat /\ free \in SUBSET Nat 
      <4>1. Ids \subseteq Nat BY Constants DEF Ids
      <4> QED BY <4>1, SlotsAreNumbers
    <3>3. FirstOf(unborn) \in Ids /\ FirstOf(free) \in Slots BY <3>1, <3>2, FirstIsLeast
    <3> QED BY <1>2, <3>1, <3>3 DEF EcsEntry
  <2>2. CASE \E e \in Ids, v \in Values : Move(e, v) BY <1>2, <2>2 DEF Move, EcsEntry
  <2>3. CASE \E i \in Slots : Despawn(i)
    <3>1. PICK i \in Slots : Despawn(i) BY <2>3
    <3>2. entities[i] \in Ids BY <3>1 DEF Despawn, Registered
    <3> QED BY <1>2, <3>1, <3>2 DEF Despawn, EcsEntry
  <2> QED BY <2>1, <2>2, <2>3
<1>4. TypeOK' BY <1>1, <1>3 DEF Typed, TypeOK, EcsEntry
<1> QED BY <1>1, <1>4 DEF Typed

LEMMA SenderUpdateTyped ==
  ASSUME Typed, SenderUpdate
  PROVE  Typed'
<1>1. /\ ecs' = Updated /\ phase' = [phase EXCEPT !["sender"] = "recv"]
      /\ UNCHANGED <<sequence, incoming, ack, entities, copies, strays, applied, applied_at>>
  BY SenderSends
<1>2. PICK p : \E base : Sends(p, Snapshot(Updated), base) BY SenderSends
<1>3. PICK base : Sends(p, Snapshot(Updated), base) BY <1>2
<1> DEFINE data == Snapshot(Updated)
           s == sequence["sender"]
<1> HIDE DEF data
<1>4. /\ data \in Seq(Entry) /\ phase["sender"] = "game" /\ s < UpdateBound["sender"]
      /\ taken' = Append(taken, data)
      /\ packets' = [packets EXCEPT !["sender"] = @ \cup {p}]
      /\ snapshots' = [snapshots EXCEPT ![s % MaxSnapshots] = [sequence |-> s, data |-> data]]
      /\ p.sequence = s /\ p.ents \in Seq(Message)
  BY <1>3 DEF Sends, data
<1>5. s \in Nat /\ s % MaxSnapshots \in 0 .. MaxSnapshots - 1
  <2>1. s \in Nat BY HostsTwo DEF Typed
  <2> HIDE DEF s
  <2> QED BY <2>1, RingPlace
<1>6. snapshots' \in [0 .. MaxSnapshots - 1 -> [sequence : Nat, data : Seq(Entry)]]
  BY <1>4, <1>5 DEF Typed
<1>7. taken' \in Seq(Seq(Entry)) /\ Len(taken') = Len(taken) + 1 BY SMTT(30), <1>4 DEF Typed, TypeOK
<1>8. packets'["sender"] = packets["sender"] \cup {p} /\ packets'["receiver"] = packets["receiver"]
      /\ DOMAIN packets' = Hosts
  BY <1>4, HostsTwo DEF Typed
<1>9. phase' \in [Hosts -> {"game", "recv"}] /\ phase'["sender"] = "recv"
      /\ phase'["receiver"] = phase["receiver"]
  BY <1>1, HostsTwo DEF Typed, TypeOK
<1>10. ecs' \in [Ids -> EcsEntry] BY <1>1, UpdatedTyped DEF Typed
<1>11. TypeOK' BY <1>1, <1>6, <1>7, <1>9, <1>10 DEF Typed, TypeOK, EcsEntry
<1>12. \A h \in Hosts : phase'[h] = "recv" => sequence'[h] < UpdateBound[h]
  BY <1>1, <1>4, <1>9, HostsTwo DEF Typed
<1>13. \A h \in Hosts : \A q \in packets'[h] : q.sequence \in 0 .. UpdateBound[h] - 1
  <2>1. p.sequence \in 0 .. UpdateBound["sender"] - 1 BY <1>4, <1>5, Constants
  <2> QED BY <1>8, <2>1, HostsTwo DEF Typed
<1>14. \A q \in packets'["sender"] : q.ents \in Seq(Message) BY <1>4, <1>8 DEF Typed
<1>15. \A q \in packets'["receiver"] : q.ack \in -1 .. UpdateBound["sender"] - 1 BY <1>8 DEF Typed
<1>16. Len(taken') = sequence'["sender"] + (IF phase'["sender"] = "recv" THEN 1 ELSE 0)
  BY <1>1, <1>4, <1>7, <1>9 DEF Typed
<1> QED BY <1>1, <1>6, <1>8, <1>11, <1>12, <1>13, <1>14, <1>15, <1>16 DEF Typed

LEMMA ReceiverUpdateTyped ==
  ASSUME Typed, ReceiverUpdate
  PROVE  Typed'
<1> DEFINE p == Packet("receiver", << >>)
<1>1. /\ packets' = [packets EXCEPT !["receiver"] = @ \cup {p}]
      /\ phase' = [phase EXCEPT !["receiver"] = "recv"] /\ sequence["receiver"] < UpdateBound["receiver"]
      /\ UNCHANGED <<sequence, incoming, ack, entities, ecs, snapshots, strays, applied, applied_at, taken>>
      /\ copies' = [i \in CopySlots |->
           IF copies[i].state = "leaving" THEN [copies[i] EXCEPT !.state = "none"] ELSE copies[i]]
  BY DEF ReceiverUpdate, registry
<1>2. p.sequence = sequence["receiver"] /\ p.ack = incoming["receiver"] BY PacketNumbers
<1> HIDE DEF p
<1>3. copies' \in [CopySlots -> CopyRec]
  <2>1. \A i \in CopySlots : copies[i] \in CopyRec BY DEF Typed, TypeOK, CopyRec
  <2>2. \A i \in CopySlots : copies'[i] \in CopyRec BY <1>1, <2>1 DEF CopyRec
  <2> QED BY <1>1, <2>2
<1>4. packets'["sender"] = packets["sender"] /\ packets'["receiver"] = packets["receiver"] \cup {p}
      /\ DOMAIN packets' = Hosts
  BY <1>1, HostsTwo DEF Typed
<1>5. phase' \in [Hosts -> {"game", "recv"}] /\ phase'["receiver"] = "recv"
      /\ phase'["sender"] = phase["sender"]
  BY <1>1, HostsTwo DEF Typed, TypeOK
<1>6. TypeOK' BY <1>1, <1>3, <1>5 DEF Typed, TypeOK, CopyRec
<1>7. \A h \in Hosts : phase'[h] = "recv" => sequence'[h] < UpdateBound[h]
  BY <1>1, <1>5, HostsTwo DEF Typed
<1>8. \A h \in Hosts : \A q \in packets'[h] : q.sequence \in 0 .. UpdateBound[h] - 1
  <2>1. p.sequence \in 0 .. UpdateBound["receiver"] - 1 BY <1>1, <1>2, Constants DEF Typed
  <2> QED BY <1>4, <2>1, HostsTwo DEF Typed
<1>9. \A q \in packets'["receiver"] : q.ack \in -1 .. UpdateBound["sender"] - 1
  <2>1. p.ack \in -1 .. UpdateBound["sender"] - 1 BY <1>2, Constants DEF Typed, TypeOK
  <2> QED BY <1>4, <2>1 DEF Typed
<1> QED BY <1>1, <1>4, <1>5, <1>6, <1>7, <1>8, <1>9 DEF Typed

LEMMA SenderRecvTyped ==
  ASSUME Typed, NEW p \in packets["receiver"], SenderRecv(p)
  PROVE  Typed'
<1>1. /\ incoming' = [incoming EXCEPT !["sender"] = p.sequence] /\ ack' = p.ack
      /\ UNCHANGED <<sequence, phase, packets, entities, ecs, snapshots, copies, strays, applied,
                     applied_at, taken>>
  BY DEF SenderRecv, registry, receiver
<1>2. p.sequence \in 0 .. UpdateBound["receiver"] - 1 /\ p.ack \in -1 .. UpdateBound["sender"] - 1
  BY Constants DEF Typed
<1>3. incoming' \in [Hosts -> Int] /\ incoming'["sender"] = p.sequence
      /\ incoming'["receiver"] = incoming["receiver"]
  BY <1>1, <1>2, HostsTwo DEF Typed
<1>4. \A h \in Hosts : incoming'[h] \in -1 .. UpdateBound[Peer(h)] - 1
  <2>1. incoming'["sender"] \in -1 .. UpdateBound[Peer("sender")] - 1
    <3>1. Peer("sender") = "receiver" BY DEF Peer
    <3>2. UpdateBound["receiver"] \in Nat BY Constants, HostsTwo
    <3> QED BY <1>2, <1>3, <3>1, <3>2
  <2>2. incoming'["receiver"] \in -1 .. UpdateBound[Peer("receiver")] - 1
    BY <1>3, HostsTwo DEF Typed, TypeOK
  <2> QED BY <2>1, <2>2, HostsTwo
<1>5. TypeOK' BY <1>1, <1>2, <1>4 DEF Typed, TypeOK
<1> QED BY <1>1, <1>3, <1>5 DEF Typed

LEMMA ReceiverRecvTyped ==
  ASSUME Typed, NEW p \in packets["sender"], ReceiverRecv(p)
  PROVE  Typed'
<1>1. /\ incoming' = [incoming EXCEPT !["receiver"] = p.sequence]
      /\ applied' = applied \cup {p.sequence} /\ applied_at' = sequence["receiver"]
      /\ UNCHANGED <<sequence, phase, ack, packets, entities, ecs, snapshots, taken>>
  BY ReceiverReads
<1>2. p.sequence \in 0 .. UpdateBound["sender"] - 1 /\ p.ents \in Seq(Message) BY Constants DEF Typed
<1>3. incoming' \in [Hosts -> Int] /\ incoming'["receiver"] = p.sequence
      /\ incoming'["sender"] = incoming["sender"]
  BY <1>1, <1>2, HostsTwo DEF Typed
<1>4. \A h \in Hosts : incoming'[h] \in -1 .. UpdateBound[Peer(h)] - 1
  <2>1. incoming["sender"] \in -1 .. UpdateBound[Peer("sender")] - 1 BY HostsTwo DEF Typed, TypeOK
  <2>2. p.sequence \in -1 .. UpdateBound[Peer("receiver")] - 1 BY <1>2, Constants
  <2> QED BY <1>3, <2>1, <2>2, HostsTwo
<1>5. copies' \in [CopySlots -> CopyRec] /\ strays' \in SUBSET Ids
  <2>1. PICK after :
          /\ \A i \in 0 .. Len(p.ents) : after[i] \in ReadState
          /\ copies' = RemoveUnseen(after[Len(p.ents)].slots) /\ strays' = after[Len(p.ents)].strays
    BY ReceiverReads
  <2>2. Len(p.ents) \in 0 .. Len(p.ents) BY <1>2
  <2>3. after[Len(p.ents)].slots \in [CopySlots -> CopyRec] /\ after[Len(p.ents)].strays \in SUBSET Ids
    BY <2>1, <2>2 DEF ReadState
  <2> DEFINE slots == after[Len(p.ents)].slots
  <2> HIDE DEF slots
  <2>4. slots \in [CopySlots -> CopyRec] /\ copies' = RemoveUnseen(slots) BY <2>1, <2>3 DEF slots
  <2>5. ASSUME NEW i \in CopySlots
        PROVE  (IF slots[i].state # "none" /\ slots[i].last # sequence["receiver"]
                  THEN [slots[i] EXCEPT !.state = "leaving"] ELSE slots[i]) \in CopyRec
    <3>1. slots[i] \in CopyRec BY <2>4
    <3> QED BY <3>1 DEF CopyRec
  <2>6. copies' \in [CopySlots -> CopyRec] BY <2>4, <2>5 DEF RemoveUnseen
  <2> QED BY <2>1, <2>3, <2>6
<1>6. applied' \subseteq 0 .. UpdateBound["sender"] - 1 /\ applied_at' \in 0 .. UpdateBound["receiver"]
  <2>1. sequence["receiver"] \in 0 .. UpdateBound["receiver"] BY HostsTwo DEF Typed, TypeOK
  <2> QED BY <1>1, <1>2, <2>1 DEF Typed, TypeOK
<1>7. TypeOK' BY <1>1, <1>4, <1>5, <1>6 DEF Typed, TypeOK, CopyRec
<1> QED BY <1>1, <1>3, <1>7 DEF Typed

LEMMA UpdateEndTyped ==
  ASSUME Typed, NEW h \in Hosts, UpdateEnd(h)
  PROVE  Typed'
<1>1. /\ phase[h] = "recv" /\ phase' = [phase EXCEPT ![h] = "game"]
      /\ sequence' = [sequence EXCEPT ![h] = @ + 1]
      /\ UNCHANGED <<incoming, ack, packets, entities, ecs, snapshots, copies, strays, applied,
                     applied_at, taken>>
  BY DEF UpdateEnd, registry, receiver
<1>2. /\ sequence' \in [Hosts -> Nat] /\ phase' \in [Hosts -> {"game", "recv"}]
      /\ \A g \in Hosts : g # h => sequence'[g] = sequence[g] /\ phase'[g] = phase[g]
      /\ sequence'[h] = sequence[h] + 1 /\ phase'[h] = "game" /\ sequence[h] < UpdateBound[h]
  BY <1>1 DEF Typed, TypeOK
<1>3. \A g \in Hosts : sequence'[g] \in 0 .. UpdateBound[g]
  <2>1. ASSUME NEW g \in Hosts PROVE sequence'[g] \in 0 .. UpdateBound[g]
    <3>1. sequence[g] \in 0 .. UpdateBound[g] /\ UpdateBound[g] \in Nat BY Constants DEF Typed, TypeOK
    <3>2. CASE g = h BY <1>2, <3>1, <3>2
    <3>3. CASE g # h BY <1>2, <3>1, <3>3
    <3> QED BY <3>2, <3>3
  <2> QED BY <2>1
<1>4. TypeOK' BY <1>1, <1>2, <1>3 DEF Typed, TypeOK
<1>5. Len(taken') = sequence'["sender"] + (IF phase'["sender"] = "recv" THEN 1 ELSE 0)
  <2>1. taken' = taken
        /\ Len(taken) = sequence["sender"] + (IF phase["sender"] = "recv" THEN 1 ELSE 0)
    BY <1>1 DEF Typed
  <2>2. CASE h = "sender" BY <1>1, <1>2, <2>1, <2>2
  <2>3. CASE h # "sender"
    <3>1. sequence'["sender"] = sequence["sender"] /\ phase'["sender"] = phase["sender"]
      BY <1>2, <2>3, HostsTwo
    <3> QED BY <2>1, <3>1
  <2> QED BY <2>2, <2>3
<1>6. \A g \in Hosts : phase'[g] = "recv" => sequence'[g] < UpdateBound[g] BY <1>2 DEF Typed
<1> QED BY <1>1, <1>2, <1>4, <1>5, <1>6 DEF Typed
-----------------------------------------------------------------------------
(* What is sent *)

LEMMA SentInit == Init => Sent
<1> SUFFICES ASSUME Init PROVE Sent OBVIOUS
<1>1. /\ applied = {} /\ packets["sender"] = {}
      /\ \A i \in 0 .. MaxSnapshots - 1 : snapshots[i].data = << >>
  BY Constants DEF Init
<1> QED BY <1>1 DEF Sent

LEMMA TakenTyped ==
  ASSUME Typed
  PROVE  /\ Len(taken) \in Nat /\ DOMAIN taken = 1 .. Len(taken) /\ taken \in Seq(Seq(Entry))
         /\ \A k \in 1 .. Len(taken) : taken[k] \in Seq(Entry)
         /\ sequence["sender"] \in Nat /\ incoming["receiver"] \in Int
BY HostsTwo DEF Typed, TypeOK

LEMMA PacketsTyped ==
  ASSUME Typed, NEW q \in packets["sender"]
  PROVE  q.sequence \in Nat /\ q.ents \in Seq(Message)
<1>1. q.sequence \in 0 .. UpdateBound["sender"] - 1 BY HostsTwo DEF Typed
<1>2. q.sequence \in Nat BY <1>1, Constants
<1> QED BY <1>2 DEF Typed

(* A packet has been made from a snapshot. *)
LEMMA PacketsSent ==
  ASSUME Typed, Sent, NEW q \in packets["sender"]
  PROVE  /\ q.sequence + 1 \in 1 .. Len(taken) /\ taken[q.sequence + 1] \in Seq(Entry)
         /\ q.sequence < Len(taken) /\ Len(q.ents) = Len(taken[q.sequence + 1])
         /\ \A i \in DOMAIN q.ents :
              Faithful(q.ents[i], taken[q.sequence + 1][i], q.sequence, applied, taken)
<1>1. q.sequence < Len(taken) BY DEF Sent
<1>2. q.sequence + 1 \in 1 .. Len(taken) BY <1>1, PacketsTyped, TakenTyped
<1>3. taken[q.sequence + 1] \in Seq(Entry) BY <1>2, TakenTyped
<1> QED BY <1>1, <1>2, <1>3 DEF Sent

(* What is faithful stays so when more snapshots are taken and applied. *)
LEMMA FaithfulStays ==
  ASSUME NEW x, NEW y, NEW s, NEW acks, NEW acks2, NEW shots, NEW shots2,
         Faithful(x, y, s, acks, shots), acks \subseteq acks2,
         \A a \in acks : shots2[a + 1] = shots[a + 1]
  PROVE  Faithful(x, y, s, acks2, shots2)
BY DEF Faithful

LEMMA SentStays ==
  ASSUME Sent, UNCHANGED <<packets, taken, snapshots, applied>>,
         incoming'["receiver"] = incoming["receiver"]
  PROVE  Sent'
BY DEF Sent

LEMMA SenderUpdateSent ==
  ASSUME AckInv, Typed, Sent, SenderUpdate
  PROVE  Sent'
<1>1. UNCHANGED <<sequence, incoming, applied>> BY SenderSends
<1>2. PICK p : \E base : Sends(p, Snapshot(Updated), base) BY SenderSends
<1>3. PICK base : Sends(p, Snapshot(Updated), base) BY <1>2
<1> DEFINE data == Snapshot(Updated)
           s == sequence["sender"]
           n == Len(taken)
<1> HIDE DEF data
<1>4. /\ data \in Seq(Entry) /\ base \in Seq(Entry) /\ phase["sender"] = "game"
      /\ taken' = Append(taken, data)
      /\ packets' = [packets EXCEPT !["sender"] = @ \cup {p}]
      /\ snapshots' = [snapshots EXCEPT ![s % MaxSnapshots] = [sequence |-> s, data |-> data]]
      /\ p.sequence = s /\ p.ents \in Seq(Message) /\ Len(p.ents) = Len(data)
      /\ \A i \in DOMAIN data :
           /\ p.ents[i].id = data[i].id
           /\ IF p.ents[i].diff THEN p.ents[i].value = data[i].value
              ELSE \E j \in DOMAIN base : base[j] = data[i]
      /\ base # << >> => ack # -1 /\ \E i \in 0 .. MaxSnapshots - 1 :
           snapshots'[i].sequence = ack /\ snapshots'[i].data = base
  BY <1>3 DEF Sends, data
<1>5. s \in Nat /\ n = s /\ taken \in Seq(Seq(Entry))
  <2>1. n = s BY <1>4, TakenTyped DEF Typed
  <2> QED BY <2>1, TakenTyped
<1>6. /\ taken' \in Seq(Seq(Entry)) /\ Len(taken') = n + 1 /\ taken'[n + 1] = data
      /\ \A k \in 1 .. n : taken'[k] = taken[k]
  BY <1>4, <1>5
<1>7. packets'["sender"] = packets["sender"] \cup {p} BY <1>4, HostsTwo DEF Typed
<1>8. applied' \subseteq 0 .. Len(taken') - 1 /\ \A a \in applied' : a <= incoming'["receiver"]
  BY <1>1, <1>5, <1>6 DEF Sent
<1>9. ASSUME NEW i \in 0 .. MaxSnapshots - 1, snapshots'[i].data # << >>
      PROVE  /\ snapshots'[i].sequence < Len(taken')
             /\ snapshots'[i].data = taken'[snapshots'[i].sequence + 1]
  <2>1. CASE i = s % MaxSnapshots
    <3>1. snapshots'[i] = [sequence |-> s, data |-> data] BY <1>4, <2>1 DEF Typed
    <3> QED BY <1>5, <1>6, <3>1
  <2>2. CASE i # s % MaxSnapshots
    <3>1. snapshots'[i] = snapshots[i] BY <1>4, <2>2 DEF Typed
    <3>2. snapshots[i].sequence < n /\ snapshots[i].data = taken[snapshots[i].sequence + 1]
      BY <1>9, <3>1 DEF Sent
    <3>3. snapshots[i].sequence \in Nat BY DEF Typed
    <3>4. snapshots[i].sequence + 1 \in 1 .. n /\ snapshots[i].sequence < n + 1 BY <1>5, <3>2, <3>3
    <3> QED BY <1>6, <3>1, <3>2, <3>4
  <2> QED BY <2>1, <2>2
<1>10. ASSUME NEW i \in DOMAIN p.ents PROVE Faithful(p.ents[i], data[i], s, applied', taken')
  <2>1. i \in DOMAIN data BY <1>4
  <2>2. CASE p.ents[i].diff
    <3>1. p.ents[i].id = data[i].id /\ p.ents[i].value = data[i].value BY <1>4, <2>1, <2>2
    <3> QED BY <2>2, <3>1 DEF Faithful
  <2>3. CASE ~p.ents[i].diff
    <3>1. PICK j \in DOMAIN base : base[j] = data[i] BY <1>4, <2>1, <2>3
    <3>2. base # << >> BY <1>4, <3>1
    <3>3. PICK m \in 0 .. MaxSnapshots - 1 : snapshots'[m].sequence = ack /\ snapshots'[m].data = base
      BY <1>4, <3>2
    <3>4. base = taken'[ack + 1] BY <1>9, <3>2, <3>3
    <3>5. ack \in applied /\ ack <= s
      <4>1. ack \in applied BY <1>4, <3>2 DEF AckInv, AcksOrdered, Acknowledged
      <4>2. ack \in 0 .. n - 1 BY <4>1 DEF Sent
      <4> QED BY <1>5, <4>1, <4>2
    <3>6. p.ents[i].id = data[i].id BY <1>4, <2>1
    <3>7. \E a \in applied' : a <= s /\ \E k \in DOMAIN taken'[a + 1] : taken'[a + 1][k] = data[i]
      BY <1>1, <3>1, <3>4, <3>5
    <3> QED BY <2>3, <3>6, <3>7 DEF Faithful
  <2> QED BY <2>2, <2>3
<1>11. \A a \in applied : taken'[a + 1] = taken[a + 1]
  <2>1. \A a \in applied : a + 1 \in 1 .. n BY <1>5 DEF Sent
  <2> QED BY <1>6, <2>1
<1>12. ASSUME NEW q \in packets'["sender"]
       PROVE  /\ q.sequence < Len(taken') /\ Len(q.ents) = Len(taken'[q.sequence + 1])
              /\ \A i \in DOMAIN q.ents :
                   Faithful(q.ents[i], taken'[q.sequence + 1][i], q.sequence, applied', taken')
  <2>1. CASE q = p
    <3>1. q.sequence < Len(taken') /\ taken'[q.sequence + 1] = data BY <1>4, <1>5, <1>6, <2>1
    <3> QED BY <1>4, <1>10, <2>1, <3>1
  <2>2. CASE q \in packets["sender"]
    <3>1. /\ q.sequence + 1 \in 1 .. n /\ q.sequence < n /\ Len(q.ents) = Len(taken[q.sequence + 1])
          /\ \A i \in DOMAIN q.ents :
               Faithful(q.ents[i], taken[q.sequence + 1][i], q.sequence, applied, taken)
      BY <2>2, PacketsSent
    <3>2. taken'[q.sequence + 1] = taken[q.sequence + 1] BY <1>6, <3>1
    <3>3. \A i \in DOMAIN q.ents :
            Faithful(q.ents[i], taken'[q.sequence + 1][i], q.sequence, applied', taken')
      BY <1>1, <1>11, <3>1, <3>2, FaithfulStays
    <3>4. q.sequence < n + 1 BY <1>5, <2>2, <3>1, PacketsTyped
    <3> QED BY <1>6, <3>1, <3>2, <3>3, <3>4
  <2> QED BY <1>7, <2>1, <2>2
<1> QED BY <1>8, <1>9, <1>12 DEF Sent

LEMMA ReceiverRecvSent ==
  ASSUME Typed, Sent, NEW p \in packets["sender"], ReceiverRecv(p)
  PROVE  Sent'
<1>1. /\ p.sequence > incoming["receiver"]
      /\ incoming' = [incoming EXCEPT !["receiver"] = p.sequence]
      /\ applied' = applied \cup {p.sequence}
      /\ UNCHANGED <<packets, snapshots, taken>>
  BY ReceiverReads
<1>2. p.sequence \in Nat /\ p.sequence < Len(taken) BY PacketsTyped, PacketsSent
<1>3. incoming'["receiver"] = p.sequence /\ incoming["receiver"] \in Int BY <1>1, HostsTwo DEF Typed
<1>4. Len(taken) \in Nat BY TakenTyped
<1>5. \A a \in applied' : a <= incoming'["receiver"] BY <1>1, <1>2, <1>3, <1>4 DEF Sent
<1>6. applied' \subseteq 0 .. Len(taken') - 1
  <2>1. p.sequence \in 0 .. Len(taken) - 1 BY <1>2, <1>4
  <2> QED BY <1>1, <2>1 DEF Sent
<1>7. ASSUME NEW q \in packets["sender"], NEW i \in DOMAIN q.ents
      PROVE  Faithful(q.ents[i], taken'[q.sequence + 1][i], q.sequence, applied', taken')
  <2>1. Faithful(q.ents[i], taken[q.sequence + 1][i], q.sequence, applied, taken) BY DEF Sent
  <2> QED BY <1>1, <2>1, FaithfulStays
<1> QED BY <1>1, <1>5, <1>6, <1>7 DEF Sent
-----------------------------------------------------------------------------
(* The table of the sender, and its snapshots *)

LEMMA WorldInit == Init => World
<1> SUFFICES ASSUME Init PROVE World OBVIOUS
<1>1. \A i \in Slots : ~Registered(i, ecs) /\ entities[i] = 0
  BY Constants DEF Init, Registered, Ids
<1>2. \A e \in Ids : ~Present(e) BY DEF Init, Present
<1> QED BY <1>1, <1>2 DEF World

LEMMA WorldStays ==
  ASSUME Typed, World, UNCHANGED entities, DOMAIN ecs' = DOMAIN ecs,
         \A e \in Ids : ecs'[e].state = ecs[e].state
  PROVE  World'
<1>1. ASSUME NEW i \in Slots PROVE Registered(i, ecs)' <=> Registered(i, ecs) BY DEF Registered
<1>2. \A e \in Ids : Present(e)' <=> Present(e) BY DEF Present
<1>3. ASSUME NEW i \in Slots, NEW j \in 1 .. i PROVE j \in Slots BY Constants DEF Slots
<1>4. \A i \in Slots : Registered(i, ecs) => entities[i] \in Ids BY DEF Registered
<1>5. \A i \in Slots : entities[i] # 0 => entities[i] \in Ids BY DEF Typed, TypeOK
<1> QED BY <1>1, <1>2, <1>3, <1>4, <1>5 DEF World

(* An entity takes the first free slot, and none is about to go. *)
LEMMA WorldSpawn ==
  ASSUME Tidy, Typed, World, Spawn
  PROVE  World'
<1> DEFINE unborn == {e \in Ids : ecs[e].state = "unborn"}
           free == {i \in Slots : ~Registered(i, ecs)}
           new == FirstOf(unborn)
           f == FirstOf(free)
<1>1. /\ unborn # {} /\ free # {} /\ entities' = [entities EXCEPT ![f] = new]
      /\ ecs' = [ecs EXCEPT ![new].state = "alive"] /\ \A e \in Ids : ecs[e].state # "leaving"
  BY DEF Spawn, Register
<1>2. unborn \in SUBSET Nat /\ free \in SUBSET Nat
  <2>1. Ids \subseteq Nat BY Constants DEF Ids
  <2> QED BY <2>1, SlotsAreNumbers
<1>3. /\ new \in Ids /\ ecs[new].state = "unborn"
      /\ f \in Slots /\ ~Registered(f, ecs) /\ \A j \in Slots : ~Registered(j, ecs) => f <= j
  BY <1>1, <1>2, FirstIsLeast
<1> HIDE DEF unborn, free, new, f
<1>4. entities \in [Slots -> Ids \cup {0}] /\ ecs \in [Ids -> EcsEntry] BY DEF Typed, TypeOK, EcsEntry
<1>5. /\ entities'[f] = new /\ \A i \in Slots : i # f => entities'[i] = entities[i]
      /\ ecs'[new].state = "alive" /\ \A e \in Ids : e # new => ecs'[e] = ecs[e]
  BY <1>1, <1>3, <1>4 DEF EcsEntry
<1>6. \A i \in Slots : entities[i] # new /\ (entities[i] # 0 => entities[i] \in Ids)
  <2>1. 0 \notin Ids BY Constants DEF Ids
  <2> QED BY <1>3, <1>4, <2>1 DEF World
<1>7. ASSUME NEW i \in Slots
      PROVE  /\ Registered(i, ecs)' <=> (i = f \/ Registered(i, ecs))
             /\ i # f => entities'[i] = entities[i] /\ entities[i] # new
             /\ i # f /\ entities[i] # 0 => ecs'[entities[i]] = ecs[entities[i]]
             /\ Registered(i, ecs) => i # f /\ entities[i] \in Ids
  <2>1. CASE i = f BY <1>3, <1>5, <2>1 DEF Registered
  <2>2. CASE i # f
    <3>1. entities'[i] = entities[i] /\ entities[i] # new BY <1>5, <1>6, <2>2
    <3>2. entities[i] \in Ids => ecs'[entities[i]] = ecs[entities[i]] BY <1>5, <3>1
    <3> QED BY <1>6, <2>2, <3>1, <3>2 DEF Registered
  <2> QED BY <2>1, <2>2
<1>8. ASSUME NEW i \in Slots, entities'[i] # 0 PROVE ecs'[entities'[i]].state # "unborn"
  <2>1. CASE i = f BY <1>5, <2>1
  <2>2. CASE i # f BY <1>7, <1>8, <2>2 DEF World
  <2> QED BY <2>1, <2>2
<1>9. ASSUME NEW i \in Slots, Registered(i, ecs)', NEW j \in 1 .. i PROVE Registered(j, ecs)'
  <2>1. j \in Slots BY Constants DEF Slots
  <2>2. CASE i = f
    <3>1. CASE j = f BY <1>7, <2>1, <3>1
    <3>2. CASE j # f
      <4>1. ~(f <= j) BY <1>3, <2>2, <3>2, SlotsAreNumbers
      <4> QED BY <1>3, <1>7, <2>1, <4>1
    <3> QED BY <3>1, <3>2
  <2>3. CASE i # f
    <3>1. Registered(i, ecs) BY <1>7, <1>9, <2>3
    <3>2. Registered(j, ecs) BY <3>1 DEF World
    <3> QED BY <1>7, <2>1, <3>2
  <2> QED BY <2>2, <2>3
<1>10. ASSUME NEW i \in Slots, NEW j \in Slots, Registered(i, ecs)', Registered(j, ecs)',
              entities'[i] = entities'[j]
       PROVE  i = j
  <2>1. CASE i = f \/ j = f BY <1>5, <1>7, <1>10, <2>1
  <2>2. CASE i # f /\ j # f BY <1>7, <1>10, <2>2 DEF World
  <2> QED BY <2>1, <2>2
<1>11. ASSUME NEW i \in Slots, Registered(i, ecs)' PROVE ecs'[entities'[i]].state # "leaving"
  <2>1. CASE i = f BY <1>5, <2>1
  <2>2. CASE i # f
    <3>1. Registered(i, ecs) BY <1>7, <1>11, <2>2
    <3>2. entities[i] # 0 /\ entities[i] \in Ids
      <4>1. 0 \notin Ids BY Constants DEF Ids
      <4> QED BY <1>7, <3>1, <4>1
    <3> QED BY <1>1, <1>7, <2>2, <3>1, <3>2
  <2> QED BY <2>1, <2>2
<1>12. ASSUME NEW e \in Ids, Present(e)' PROVE \E i \in Slots : entities'[i] = e
  <2>1. CASE e = new BY <1>3, <1>5, <2>1
  <2>2. CASE e # new
    <3>1. Present(e) BY <1>5, <1>12, <2>2 DEF Present
    <3>2. PICK i \in Slots : entities[i] = e BY <3>1 DEF World
    <3>3. Registered(i, ecs) BY <3>1, <3>2 DEF Registered, Present
    <3> QED BY <1>7, <3>2, <3>3
  <2> QED BY <2>1, <2>2
<1> QED BY <1>8, <1>9, <1>10, <1>11, <1>12 DEF World

(* The last entity of the table is removed. *)
LEMMA WorldDespawn ==
  ASSUME Tidy, Typed, World, NEW d \in Slots, Despawn(d)
  PROVE  World'
<1> DEFINE gone == entities[d]
<1>1. /\ Registered(d, ecs) /\ \A j \in Slots : j > d => ~Registered(j, ecs)
      /\ ecs' = [ecs EXCEPT ![gone].state = "leaving"] /\ entities' = entities
  BY DEF Despawn
<1>2. gone \in Ids /\ ecs[gone].state \in {"alive", "leaving"} BY <1>1 DEF Registered
<1>3. ecs \in [Ids -> EcsEntry] BY DEF Typed, TypeOK, EcsEntry
<1> HIDE DEF gone
<1>4. ecs'[gone].state = "leaving" /\ \A e \in Ids : e # gone => ecs'[e] = ecs[e]
  BY <1>1, <1>2, <1>3 DEF EcsEntry
<1>5. \A e \in Ids : Present(e)' <=> Present(e) BY <1>2, <1>4 DEF Present
<1>6. ASSUME NEW i \in Slots PROVE Registered(i, ecs)' <=> Registered(i, ecs)
  BY <1>1, <1>5 DEF Registered, Present
<1>7. ASSUME NEW i \in Slots, entities[i] # 0 PROVE ecs'[entities[i]].state # "unborn"
  <2>1. entities[i] \in Ids BY <1>7 DEF Typed, TypeOK
  <2>2. ecs[entities[i]].state # "unborn" BY <1>7 DEF World
  <2> QED BY <1>4, <2>1, <2>2
<1>8. ASSUME NEW i \in Slots, NEW j \in Slots, Registered(i, ecs), Registered(j, ecs),
             ecs'[entities[i]].state = "leaving"
      PROVE  j <= i
  <2>1. CASE entities[i] = gone
    <3>1. i = d BY <1>1, <1>8, <2>1 DEF World, gone
    <3> QED BY <1>1, <1>8, <3>1, SlotsAreNumbers
  <2>2. CASE entities[i] # gone
    <3>1. entities[i] \in Ids BY <1>8 DEF Registered
    <3> QED BY <1>4, <1>8, <2>2, <3>1 DEF World
  <2> QED BY <2>1, <2>2
<1>9. ASSUME NEW i \in Slots, NEW j \in 1 .. i PROVE j \in Slots BY Constants DEF Slots
<1> QED BY <1>1, <1>5, <1>6, <1>7, <1>8, <1>9 DEF World

(* ecs_update, with which the one about to go goes. *)
LEMMA UpdatedFacts ==
  ASSUME Typed, NEW e \in Ids
  PROVE  /\ Updated[e].value = ecs[e].value
         /\ Updated[e].state = IF ecs[e].state = "leaving" THEN "gone" ELSE ecs[e].state
         /\ ecs[e].state \in {"unborn", "alive", "leaving", "gone"}
<1>1. ecs[e] \in EcsEntry BY DEF Typed, TypeOK, EcsEntry
<1> QED BY <1>1 DEF Updated, EcsEntry

LEMMA WorldUpdated ==
  ASSUME Typed, World, ecs' = Updated, UNCHANGED entities
  PROVE  World'
<1>1. \A i \in Slots : entities[i] # 0 => entities[i] \in Ids BY DEF Typed, TypeOK
<1>2. ASSUME NEW i \in Slots
      PROVE  /\ Registered(i, ecs)' <=> (Registered(i, ecs) /\ ecs[entities[i]].state # "leaving")
             /\ Registered(i, ecs)' => ecs'[entities[i]].state # "leaving"
  BY UpdatedFacts DEF Registered
<1>3. ASSUME NEW i \in Slots, NEW j \in 1 .. i, Registered(i, ecs)' PROVE Registered(j, ecs)'
  <2>1. j \in Slots BY Constants DEF Slots
  <2>2. Registered(i, ecs) /\ Registered(j, ecs) BY <1>2, <1>3 DEF World
  <2>3. CASE i = j BY <1>3, <2>3
  <2>4. CASE i # j
    <3>1. ~(i <= j) BY <2>4, SlotsAreNumbers
    <3> QED BY <1>2, <2>1, <2>2, <3>1 DEF World
  <2> QED BY <2>3, <2>4
<1>4. ASSUME NEW i \in Slots, entities[i] # 0 PROVE ecs'[entities[i]].state # "unborn"
  BY <1>1, <1>4, UpdatedFacts DEF World
<1>5. ASSUME NEW e \in Ids, Present(e)' PROVE Present(e) BY <1>5, UpdatedFacts DEF Present
<1> QED BY <1>2, <1>3, <1>4, <1>5 DEF World

(* A snapshot then has all that live, each once. *)
LEMMA SnapshotOfWorld ==
  ASSUME Typed, World
  PROVE  /\ Snapshot(Updated) \in Seq(Entry)
         /\ \A i \in DOMAIN Snapshot(Updated) :
              LET x == Snapshot(Updated)[i]
              IN  x.id \in Ids /\ ecs[x.id].state = "alive" /\ x.value = ecs[x.id].value
         /\ \A i, j \in DOMAIN Snapshot(Updated) :
              Snapshot(Updated)[i].id = Snapshot(Updated)[j].id => i = j
         /\ \A e \in Ids : ecs[e].state = "alive" =>
              \E i \in DOMAIN Snapshot(Updated) : Snapshot(Updated)[i].id = e
<1> DEFINE data == Snapshot(Updated)
<1>1. PICK size \in 0 .. MaxEntities :
        /\ data = [i \in 1 .. size |-> [id |-> entities[i], value |-> Updated[entities[i]].value]]
        /\ \A i \in 1 .. size : Registered(i, Updated)
        /\ size < MaxEntities => ~Registered(size + 1, Updated)
  BY UpdatedTyped, SnapshotFacts DEF Typed
<1>2. data \in Seq(Entry) BY UpdatedTyped, SnapshotFacts DEF Typed
<1> HIDE DEF data
<1>3. DOMAIN data = 1 .. size /\ 1 .. size \subseteq Slots BY <1>1, Constants DEF Slots
<1>4. ASSUME NEW i \in 1 .. size
      PROVE  /\ data[i].id = entities[i] /\ data[i].id \in Ids /\ ecs[data[i].id].state = "alive"
             /\ data[i].value = ecs[data[i].id].value /\ Registered(i, ecs)
  <2>1. data[i].id = entities[i] /\ data[i].value = Updated[entities[i]].value BY <1>1
  <2>2. entities[i] \in Ids /\ Updated[entities[i]].state \in {"alive", "leaving"} BY <1>1 DEF Registered
  <2> QED BY <2>1, <2>2, UpdatedFacts DEF Registered
<1>5. ASSUME NEW i \in 1 .. size, NEW j \in 1 .. size, data[i].id = data[j].id PROVE i = j
  BY <1>3, <1>4, <1>5 DEF World
<1>6. ASSUME NEW e \in Ids, ecs[e].state = "alive" PROVE \E i \in 1 .. size : data[i].id = e
  <2>1. PICK i \in Slots : entities[i] = e BY <1>6 DEF World, Present
  <2>2. Registered(i, ecs) /\ Registered(i, Updated) BY <1>6, <2>1, UpdatedFacts DEF Registered
  <2>3. i \in 1 .. size
    <3> SUFFICES ASSUME i > size PROVE FALSE BY <2>1, Constants DEF Slots
    <3>1. size < MaxEntities /\ size + 1 \in 1 .. i /\ size + 1 \in Slots BY Constants DEF Slots
    <3>2. Registered(size + 1, ecs) /\ ~Registered(size + 1, Updated) BY <1>1, <2>2, <3>1 DEF World
    <3>3. ecs[entities[size + 1]].state = "leaving" BY <3>2, UpdatedFacts DEF Registered
    <3>4. i <= size + 1 BY <2>2, <3>1, <3>2, <3>3 DEF World
    <3>5. i = size + 1 BY <3>1, <3>4, SlotsAreNumbers
    <3> QED BY <2>2, <3>2, <3>5
  <2> QED BY <1>4, <2>1, <2>3
<1> QED BY <1>2, <1>3, <1>4, <1>5, <1>6 DEF data

LEMMA HistoryInit == Init => History
<1> SUFFICES ASSUME Init PROVE History OBVIOUS
<1>1. DOMAIN taken = {} BY DEF Init
<1> QED BY <1>1 DEF History

(* Values go up, and nothing comes back, in the steps between two snapshots. *)
LEMMA HistoryStays ==
  ASSUME Typed, History, taken' = taken,
         \A e \in Ids : ecs[e].state # "unborn" => ecs'[e].state # "unborn" /\ (Present(e)' => Present(e)),
         Fresh => \A e \in Ids : ecs[e].value <= ecs'[e].value, \A e \in Ids : ecs'[e].value \in Nat
  PROVE  History'
<1>1. ASSUME NEW k \in DOMAIN taken, NEW i \in DOMAIN taken[k]
      PROVE  taken[k][i].id \in Ids /\ taken[k][i].value \in Nat /\ ecs[taken[k][i].id].value \in Nat
  <2>1. taken[k] \in Seq(Entry) BY TakenTyped
  <2>2. taken[k][i] \in Entry BY <2>1
  <2>3. taken[k][i].id \in Ids /\ taken[k][i].value \in Nat BY <2>2, Constants DEF Entry
  <2>4. ecs[taken[k][i].id] \in EcsEntry BY <2>3 DEF Typed, TypeOK, EcsEntry
  <2> QED BY <2>3, <2>4, Constants DEF EcsEntry
<1>2. ASSUME NEW k \in DOMAIN taken, NEW i \in DOMAIN taken[k]
      PROVE  /\ ecs'[taken[k][i].id].state # "unborn"
             /\ Fresh => taken[k][i].value <= ecs'[taken[k][i].id].value
  <2> DEFINE e == taken[k][i].id
  <2>1. /\ e \in Ids /\ ecs[e].state # "unborn" /\ (Fresh => taken[k][i].value <= ecs[e].value)
        /\ taken[k][i].value \in Nat /\ ecs[e].value \in Nat
    BY <1>1 DEF History
  <2> HIDE DEF e
  <2>2. ecs'[e].state # "unborn" /\ ecs'[e].value \in Nat BY <2>1
  <2>3. Fresh => taken[k][i].value <= ecs'[e].value BY <2>1, <2>2
  <2> QED BY <2>2, <2>3 DEF e
<1>3. ASSUME NEW e \in Ids, NEW j \in DOMAIN taken, NEW k \in DOMAIN taken, j <= k, In(e, j), Present(e)'
      PROVE  In(e, k)
  <2>1. ecs[e].state # "unborn" BY <1>3 DEF History, In
  <2> QED BY <1>3, <2>1 DEF History
<1>4. \A e, k : In(e, k)' <=> In(e, k) BY DEF In
<1> QED BY <1>2, <1>3, <1>4 DEF History

LEMMA HistoryGame ==
  ASSUME Typed, History, Spawn \/ (\E e \in Ids, v \in Values : Move(e, v)) \/ (\E i \in Slots : Despawn(i))
  PROVE  History'
<1>1. taken' = taken BY DEF Spawn, Move, Despawn
<1>2. ecs \in [Ids -> EcsEntry] BY DEF Typed, TypeOK, EcsEntry
<1>3. ecs' \in [Ids -> EcsEntry] BY GameTyped DEF Typed, TypeOK, EcsEntry
<1>4. \A e \in Ids : ecs[e].value \in Nat /\ ecs'[e].value \in Nat BY <1>2, <1>3, Constants DEF EcsEntry
<1>5. ASSUME NEW e \in Ids
      PROVE  /\ ecs[e].state # "unborn" => ecs'[e].state # "unborn" /\ (Present(e)' => Present(e))
             /\ Fresh => ecs[e].value <= ecs'[e].value
  <2>1. CASE Spawn
    <3> DEFINE unborn == {d \in Ids : ecs[d].state = "unborn"}
               new == FirstOf(unborn)
    <3>1. unborn # {} /\ ecs' = [ecs EXCEPT ![new].state = "alive"] BY <2>1 DEF Spawn
    <3>2. unborn \in SUBSET Nat
      <4>1. Ids \subseteq Nat BY Constants DEF Ids
      <4> QED BY <4>1
    <3>3. new \in Ids /\ ecs[new].state = "unborn" BY <3>1, <3>2, FirstIsLeast
    <3> HIDE DEF new
    <3>4. e # new => ecs'[e] = ecs[e] BY <3>1
    <3>5. e = new => ecs'[e].value = ecs[e].value BY <1>2, <3>1, <3>3 DEF EcsEntry
    <3> QED BY <1>4, <3>3, <3>4, <3>5 DEF Present
  <2>2. CASE \E d \in Ids, v \in Values : Move(d, v)
    <3>1. PICK d \in Ids, v \in Values : Move(d, v) BY <2>2
    <3>2. /\ ecs' = [ecs EXCEPT ![d].value = v] /\ (Fresh => v > ecs[d].value) BY <3>1 DEF Move
    <3>3. e # d => ecs'[e] = ecs[e] BY <3>2
    <3>4. e = d => ecs'[e].value = v /\ ecs'[e].state = ecs[e].state BY <1>2, <3>2 DEF EcsEntry
    <3> QED BY <1>4, <3>2, <3>3, <3>4 DEF Present
  <2>3. CASE \E i \in Slots : Despawn(i)
    <3>1. PICK i \in Slots : Despawn(i) BY <2>3
    <3>2. /\ ecs' = [ecs EXCEPT ![entities[i]].state = "leaving"] /\ entities[i] \in Ids
          /\ ecs[entities[i]].state \in {"alive", "leaving"}
      BY <3>1 DEF Despawn, Registered
    <3> DEFINE d == entities[i]
    <3> HIDE DEF d
    <3>3. ecs' = [ecs EXCEPT ![d].state = "leaving"] /\ d \in Ids /\ ecs[d].state \in {"alive", "leaving"}
      BY <3>2 DEF d
    <3>4. e # d => ecs'[e] = ecs[e] BY <3>3
    <3>5. e = d => ecs'[e].value = ecs[e].value /\ ecs'[e].state = "leaving" BY <1>2, <3>3 DEF EcsEntry
    <3> QED BY <1>4, <3>3, <3>4, <3>5 DEF Present
  <2> QED BY <2>1, <2>2, <2>3
<1>6. Fresh => \A e \in Ids : ecs[e].value <= ecs'[e].value BY <1>5
<1> QED BY <1>1, <1>4, <1>5, <1>6, HistoryStays

(* One more snapshot is taken, of what lives. *)
LEMMA HistoryTaken ==
  ASSUME Typed, World, History, SenderUpdate
  PROVE  History'
<1> DEFINE data == Snapshot(Updated)
           n == Len(taken)
<1>1. ecs' = Updated /\ taken' = Append(taken, data) BY SenderSends DEF Sends
<1>2. /\ data \in Seq(Entry)
      /\ \A i \in DOMAIN data :
           /\ data[i].id \in Ids /\ ecs[data[i].id].state = "alive"
           /\ data[i].value = ecs[data[i].id].value
      /\ \A i, j \in DOMAIN data : data[i].id = data[j].id => i = j
      /\ \A e \in Ids : ecs[e].state = "alive" => \E i \in DOMAIN data : data[i].id = e
  BY SnapshotOfWorld
<1> HIDE DEF data
<1>3. /\ n \in Nat /\ DOMAIN taken = 1 .. n /\ taken \in Seq(Seq(Entry))
      /\ \A k \in 1 .. n : taken[k] \in Seq(Entry)
  BY TakenTyped
<1>4. DOMAIN taken' = 1 .. n + 1 /\ taken'[n + 1] = data /\ \A k \in 1 .. n : taken'[k] = taken[k]
  BY <1>1, <1>2, <1>3
<1> HIDE DEF n
<1>5. \A k \in 1 .. n + 1 : k \in 1 .. n \/ k = n + 1 BY <1>3
<1>6. \A e \in Ids : /\ ecs'[e].value = ecs[e].value /\ ecs[e].value \in Nat
                     /\ Present(e)' <=> ecs[e].state = "alive"
                     /\ ecs'[e].state = "unborn" <=> ecs[e].state = "unborn"
  <2>1. \A e \in Ids : ecs[e].value \in Nat BY Constants DEF Typed, TypeOK
  <2> QED BY <1>1, <2>1, UpdatedFacts DEF Present
<1>7. /\ \A e : \A k \in 1 .. n : In(e, k)' <=> In(e, k)
      /\ \A e : \A k \in {n + 1} : In(e, k)' <=> \E i \in DOMAIN data : data[i].id = e
  BY <1>4 DEF In
<1>8. /\ \A e \in Ids : ecs[e].state = "alive" => \A k \in {n + 1} : In(e, k)'
      /\ \A e : (\E k \in {n + 1} : In(e, k)') => e \in Ids /\ ecs[e].state = "alive"
  BY <1>2, <1>7
<1>9. ASSUME NEW k \in 1 .. n, NEW i \in DOMAIN taken[k]
      PROVE  taken[k][i].id \in Ids /\ taken[k][i].value \in Nat
  <2>1. taken[k] \in Seq(Entry) BY <1>3
  <2>2. taken[k][i] \in Entry BY <2>1
  <2> QED BY <2>2, Constants DEF Entry
<1>10. ASSUME NEW k \in 1 .. n + 1, NEW i \in DOMAIN taken'[k], NEW j \in DOMAIN taken'[k],
              taken'[k][i].id = taken'[k][j].id
       PROVE  i = j
  <2>1. CASE k = n + 1 BY <1>2, <1>4, <1>10, <2>1
  <2>2. CASE k \in 1 .. n
    <3>1. taken'[k] = taken[k] BY <1>4, <2>2
    <3> QED BY <1>3, <1>10, <2>2, <3>1 DEF History
  <2> QED BY <1>5, <2>1, <2>2
<1>11. ASSUME NEW k \in 1 .. n + 1, NEW i \in DOMAIN taken'[k]
       PROVE  /\ ecs'[taken'[k][i].id].state # "unborn"
              /\ Fresh => taken'[k][i].value <= ecs'[taken'[k][i].id].value
  <2>1. CASE k = n + 1
    <3>1. taken'[k] = data BY <1>4, <2>1
    <3>2. /\ data[i].id \in Ids /\ ecs[data[i].id].state = "alive" /\ data[i].value = ecs[data[i].id].value
      BY <1>2, <3>1
    <3>3. ecs'[data[i].id].state # "unborn" /\ ecs'[data[i].id].value = ecs[data[i].id].value
          /\ ecs[data[i].id].value \in Nat
      BY <1>6, <3>2
    <3> QED BY <3>1, <3>2, <3>3
  <2>2. CASE k \in 1 .. n
    <3>1. taken'[k] = taken[k] BY <1>4, <2>2
    <3>2. /\ taken[k][i].id \in Ids /\ ecs[taken[k][i].id].state # "unborn"
          /\ Fresh => taken[k][i].value <= ecs[taken[k][i].id].value
      BY <1>3, <1>9, <2>2, <3>1 DEF History
    <3> QED BY <1>6, <3>1, <3>2
  <2> QED BY <1>5, <2>1, <2>2
<1>12. ASSUME NEW e \in Ids, NEW j \in 1 .. n + 1, NEW k \in 1 .. n + 1, j <= k, In(e, j)', Present(e)'
       PROVE  In(e, k)'
  <2>1. ecs[e].state = "alive" /\ Present(e) BY <1>6, <1>12 DEF Present
  <2>2. CASE k = n + 1 BY <1>8, <2>1, <2>2
  <2>3. CASE k \in 1 .. n
    <3>1. j \in 1 .. n BY <1>3, <1>12, <2>3
    <3>2. In(e, j) BY <1>7, <1>12, <3>1
    <3>3. In(e, k) BY <1>3, <1>12, <2>1, <2>3, <3>1, <3>2 DEF History
    <3> QED BY <1>7, <2>3, <3>3
  <2> QED BY <1>5, <2>2, <2>3
<1>13. ASSUME NEW e \in Ids, NEW j \in 1 .. n + 1, NEW k \in 1 .. n + 1, NEW m \in 1 .. n + 1,
              j <= k, k <= m, In(e, j)', In(e, m)'
       PROVE  In(e, k)'
  <2>1. CASE k = n + 1
    <3>1. m = k BY <1>3, <1>13, <2>1
    <3> QED BY <1>13, <3>1
  <2>2. CASE k \in 1 .. n
    <3>1. j \in 1 .. n BY <1>3, <1>13, <2>2
    <3>2. In(e, j) BY <1>7, <1>13, <3>1
    <3>3. CASE m \in 1 .. n
      <4>1. In(e, m) BY <1>7, <1>13, <3>3
      <4>2. In(e, k) BY <1>3, <1>13, <2>2, <3>1, <3>2, <3>3, <4>1 DEF History
      <4> QED BY <1>7, <2>2, <4>2
    <3>4. CASE m = n + 1
      <4>1. Present(e) BY <1>8, <1>13, <3>4 DEF Present
      <4>2. In(e, k) BY <1>3, <1>13, <2>2, <3>1, <3>2, <4>1 DEF History
      <4> QED BY <1>7, <2>2, <4>2
    <3> QED BY <1>5, <3>3, <3>4
  <2> QED BY <1>5, <2>1, <2>2
<1>14. ASSUME Fresh, NEW j \in 1 .. n + 1, NEW k \in 1 .. n + 1, j <= k,
              NEW i \in DOMAIN taken'[j], NEW l \in DOMAIN taken'[k], taken'[j][i].id = taken'[k][l].id
       PROVE  taken'[j][i].value <= taken'[k][l].value
  <2>1. CASE k = n + 1
    <3>1. taken'[k] = data BY <1>4, <2>1
    <3>2. data[l].id \in Ids /\ data[l].value = ecs[data[l].id].value BY <1>2, <3>1
    <3>3. taken'[j][i].value <= ecs'[data[l].id].value BY <1>11, <1>14, <3>1
    <3> QED BY <1>6, <3>1, <3>2, <3>3
  <2>2. CASE k \in 1 .. n
    <3>1. j \in 1 .. n BY <1>3, <1>14, <2>2
    <3>2. taken'[k] = taken[k] /\ taken'[j] = taken[j] BY <1>4, <2>2, <3>1
    <3> QED BY <1>3, <1>14, <2>2, <3>1, <3>2 DEF History
  <2> QED BY <1>5, <2>1, <2>2
<1>15. History' BY <1>4, <1>10, <1>11, <1>12, <1>13, <1>14 DEF History
<1> QED BY <1>15
-----------------------------------------------------------------------------
(* The copies of the receiver *)

(* If an entity of a new packet has a copy, then that lives, and it has the value
   that the packet leaves out. *)
LEMMA KnownCopies ==
  ASSUME AckInv, Typed, Sent, History, Matching,
         NEW p \in packets["sender"], p.sequence > incoming["receiver"], NEW i \in 1 .. Len(p.ents)
  PROVE  LET y == taken[p.sequence + 1][i]
         IN  /\ y \in Entry
             /\ \A q \in CopySlots : copies[q].remote = y.id => copies[q].state = "live"
             /\ ~p.ents[i].diff => y.id \in strays \/ \E q \in CopySlots :
                  /\ copies[q].state = "live" /\ copies[q].remote = y.id
                  /\ Fresh => copies[q].value = y.value
<1> DEFINE s == p.sequence
           n == incoming["receiver"]
           y == taken[s + 1][i]
<1>1. /\ s \in Nat /\ s + 1 \in 1 .. Len(taken) /\ i \in DOMAIN taken[s + 1] /\ taken[s + 1] \in Seq(Entry)
      /\ Faithful(p.ents[i], y, s, applied, taken)
  <2>1. i \in DOMAIN p.ents BY PacketsTyped
  <2> QED BY <2>1, PacketsTyped, PacketsSent
<1>2. y \in Entry /\ y.id \in Ids /\ y.id # 0 /\ y.value \in Nat
  <2>1. y \in Entry BY <1>1
  <2>2. 0 \notin Ids BY Constants DEF Ids
  <2> QED BY <2>1, <2>2, Constants DEF Entry
<1>3. n \in Int /\ n < s /\ n \in applied \cup {-1} /\ \A a \in applied : a \in 0 .. Len(taken) - 1 /\ a <= n
  BY TakenTyped DEF AckInv, AcksOrdered, Acknowledged, Sent
<1>4. In(y.id, s + 1) BY <1>1 DEF In
<1>5. DOMAIN taken = 1 .. Len(taken) /\ Len(taken) \in Nat BY TakenTyped
<1> HIDE DEF y, s, n
<1>6. ASSUME NEW a \in applied, In(y.id, a + 1)
      PROVE  /\ In(y.id, n + 1) /\ n # -1
             /\ a + 1 \in DOMAIN taken /\ n + 1 \in DOMAIN taken /\ s + 1 \in DOMAIN taken
             /\ a + 1 <= n + 1 /\ n + 1 <= s + 1
  <2>1. n # -1 /\ n \in applied BY <1>3
  <2>2. /\ a + 1 \in DOMAIN taken /\ n + 1 \in DOMAIN taken /\ s + 1 \in DOMAIN taken
        /\ a + 1 <= n + 1 /\ n + 1 <= s + 1
    BY <1>1, <1>3, <1>5, <2>1
  <2>3. In(y.id, n + 1) BY <1>2, <1>4, <1>6, <2>2 DEF History
  <2> QED BY <2>1, <2>2, <2>3
<1>7. ASSUME n # -1, NEW l \in DOMAIN taken[n + 1]
      PROVE  /\ \A q \in CopySlots : copies[q].remote = taken[n + 1][l].id => copies[q].state = "live"
             /\ taken[n + 1][l].id \in strays \/ \E q \in CopySlots :
                  /\ copies[q].state = "live" /\ copies[q].remote = taken[n + 1][l].id
                  /\ Fresh => copies[q].value = taken[n + 1][l].value
  <2>1. taken[n + 1][l] \in ToSet(taken[n + 1]) BY <1>7 DEF ToSet
  <2> QED BY <1>7, <2>1 DEF Matching, n
<1>8. ASSUME NEW q \in CopySlots, copies[q].remote = y.id PROVE copies[q].state = "live"
  <2>1. PICK a \in applied : In(y.id, a + 1) BY <1>2, <1>8 DEF Matching
  <2>2. PICK l \in DOMAIN taken[n + 1] : taken[n + 1][l].id = y.id BY <1>6, <2>1 DEF In
  <2> QED BY <1>6, <1>7, <1>8, <2>1, <2>2
<1>9. ASSUME ~p.ents[i].diff, y.id \notin strays
      PROVE  \E q \in CopySlots : /\ copies[q].state = "live" /\ copies[q].remote = y.id
                                  /\ Fresh => copies[q].value = y.value
  <2>1. PICK a \in applied : \E j \in DOMAIN taken[a + 1] : taken[a + 1][j] = y
    BY <1>1, <1>9 DEF Faithful
  <2>2. PICK j \in DOMAIN taken[a + 1] : taken[a + 1][j] = y BY <2>1
  <2>3. In(y.id, a + 1) BY <2>2 DEF In
  <2>4. PICK l \in DOMAIN taken[n + 1] : taken[n + 1][l].id = y.id BY <1>6, <2>3 DEF In
  <2>5. PICK q \in CopySlots : /\ copies[q].state = "live" /\ copies[q].remote = y.id
                               /\ Fresh => copies[q].value = taken[n + 1][l].value
    BY <1>6, <1>7, <1>9, <2>3, <2>4
  <2>6. ASSUME Fresh PROVE taken[n + 1][l].value = y.value
    <3>1. y.value <= taken[n + 1][l].value BY <1>6, <2>2, <2>3, <2>4, <2>6 DEF History
    <3>2. taken[n + 1][l].value <= taken[s + 1][i].value
      BY <1>1, <1>6, <2>3, <2>4, <2>6 DEF History, y
    <3>3. taken[n + 1][l].value \in Nat
      <4>1. taken[n + 1] \in Seq(Entry) BY <1>6, <2>3, TakenTyped
      <4>2. taken[n + 1][l] \in Entry BY <4>1
      <4> QED BY <4>2, Constants DEF Entry
    <3> QED BY <1>2, <3>1, <3>2, <3>3 DEF y
  <2> QED BY <2>5, <2>6
<1> QED BY <1>2, <1>8, <1>9 DEF y, s

(* When the first i entities of the snapshot have been read, they have copies,
   those in slots live, and slots that live have not changed hands. *)
ReadOK(c, data, i) ==
  /\ strays \subseteq c.strays
  /\ \A q \in CopySlots : c.slots[q] = copies[q] \/ \E j \in 1 .. i : c.slots[q].remote = data[j].id
  /\ \A q \in CopySlots : copies[q].state = "live" => c.slots[q].remote = copies[q].remote
  /\ \A q, r \in CopySlots : c.slots[q].remote # 0 /\ c.slots[q].remote = c.slots[r].remote => q = r
  /\ \A q \in CopySlots : c.slots[q].state # "none" => c.slots[q].remote # 0
  /\ \A j \in 1 .. i : \A q \in CopySlots : c.slots[q].remote = data[j].id =>
       c.slots[q].state = "live" /\ c.slots[q].last = sequence["receiver"]
  /\ \A j \in 1 .. i : data[j].id \in c.strays \/ \E q \in CopySlots :
       /\ c.slots[q].state = "live" /\ c.slots[q].remote = data[j].id
       /\ Fresh => c.slots[q].value = data[j].value

LEMMA ReadStep ==
  ASSUME AckInv, Typed, Sent, History, Matching,
         NEW p \in packets["sender"], p.sequence > incoming["receiver"], NEW i \in 1 .. Len(p.ents),
         NEW c \in ReadState, ReadOK(c, taken[p.sequence + 1], i - 1),
         NEW d \in ReadState, d = ReadEntity(c, p.ents[i])
  PROVE  ReadOK(d, taken[p.sequence + 1], i)
<1> DEFINE data == taken[p.sequence + 1]
           x == p.ents[i]
           y == data[i]
           seq == sequence["receiver"]
<1>1. /\ y \in Entry /\ x \in Message /\ x.id = y.id /\ (x.diff => x.value = y.value)
      /\ \A q \in CopySlots : copies[q].remote = y.id => copies[q].state = "live"
      /\ ~x.diff => y.id \in strays \/ \E q \in CopySlots :
           /\ copies[q].state = "live" /\ copies[q].remote = y.id
           /\ Fresh => copies[q].value = y.value
  <2>1. x \in Message /\ i \in DOMAIN p.ents BY PacketsTyped
  <2>2. Faithful(x, y, p.sequence, applied, taken) BY <2>1, PacketsSent
  <2> QED BY <2>1, <2>2, KnownCopies DEF Faithful
<1>2. y.id \in Ids /\ y.id # 0 BY <1>1, Constants DEF Entry, Ids
<1>3. \A j \in 1 .. i - 1 : data[j].id # y.id
  <2>1. p.sequence + 1 \in DOMAIN taken /\ Len(p.ents) = Len(data) /\ DOMAIN data = 1 .. Len(data)
    BY PacketsSent, TakenTyped
  <2>2. Len(p.ents) \in Nat BY PacketsTyped
  <2>3. \A j \in 1 .. i - 1 : j \in DOMAIN data /\ i \in DOMAIN data /\ j # i BY <2>1, <2>2
  <2> QED BY <2>1, <2>3 DEF History
<1> HIDE DEF data, x, y
<1>4. /\ \A q \in CopySlots : c.slots[q] = copies[q] \/ \E j \in 1 .. i - 1 : c.slots[q].remote = data[j].id
      /\ \A q \in CopySlots : copies[q].state = "live" => c.slots[q].remote = copies[q].remote
      /\ \A q, r \in CopySlots : c.slots[q].remote # 0 /\ c.slots[q].remote = c.slots[r].remote => q = r
      /\ \A q \in CopySlots : c.slots[q].state # "none" => c.slots[q].remote # 0
  BY DEF ReadOK, data
<1>a. /\ strays \subseteq c.strays
      /\ \A j \in 1 .. i - 1 : \A q \in CopySlots : c.slots[q].remote = data[j].id =>
           c.slots[q].state = "live" /\ c.slots[q].last = seq
      /\ \A j \in 1 .. i - 1 : data[j].id \in c.strays \/ \E q \in CopySlots :
           /\ c.slots[q].state = "live" /\ c.slots[q].remote = data[j].id
           /\ Fresh => c.slots[q].value = data[j].value
  BY DEF ReadOK, data
<1>5. ASSUME NEW q \in CopySlots, c.slots[q].remote = x.id
      PROVE  c.slots[q] = copies[q] /\ c.slots[q].state = "live"
  BY <1>1, <1>3, <1>4, <1>5
<1>6. c.slots \in [CopySlots -> CopyRec] BY DEF ReadState
<1>7. d = ReadEntity(c, x) BY DEF x
<1>8. \A j \in 1 .. i : j \in 1 .. i - 1 \/ j = i
  <2>1. Len(p.ents) \in Nat BY PacketsTyped
  <2> QED BY <2>1
<1>b. y.id \in strays => y.id \in c.strays BY <1>a
<1>9. CASE \E q \in CopySlots :
             /\ c.slots[q].remote = x.id
             /\ d = [c EXCEPT !.slots = [c.slots EXCEPT ![q] = SeenCopy(c.slots[q], x)]]
  <2>1. PICK q \in CopySlots :
             /\ c.slots[q].remote = x.id
             /\ d = [c EXCEPT !.slots = [c.slots EXCEPT ![q] = SeenCopy(c.slots[q], x)]]
    BY <1>9
  <2>2. d.strays = c.strays /\ d.slots = [c.slots EXCEPT ![q] = SeenCopy(c.slots[q], x)]
    BY <2>1 DEF ReadState
  <2>3. c.slots[q] \in CopyRec BY <1>6
  <2>4. /\ d.slots[q].remote = x.id /\ d.slots[q].state = "live" /\ d.slots[q].last = seq
        /\ d.slots[q].value = IF x.diff THEN x.value ELSE c.slots[q].value
        /\ \A r \in CopySlots : r # q => d.slots[r] = c.slots[r]
    BY <1>5, <1>6, <2>1, <2>2, <2>3 DEF SeenCopy, CopyRec
  <2>5. \A r \in CopySlots : d.slots[r].remote = c.slots[r].remote /\ d.slots[r].state = c.slots[r].state
    BY <1>5, <2>1, <2>4
  <2>6. ASSUME Fresh, y.id \notin strays PROVE d.slots[q].value = y.value
    <3>1. CASE x.diff BY <1>1, <2>4, <3>1
    <3>2. CASE ~x.diff
      <4>1. PICK r \in CopySlots : /\ copies[r].state = "live" /\ copies[r].remote = y.id
                                   /\ Fresh => copies[r].value = y.value
        BY <1>1, <2>6, <3>2
      <4>2. c.slots[r].remote = y.id BY <1>4, <4>1
      <4>3. r = q BY <1>1, <1>2, <1>4, <2>1, <4>2
      <4> QED BY <1>5, <2>1, <2>4, <2>6, <3>2, <4>1, <4>3
    <3> QED BY <3>1, <3>2
  <2>7. ASSUME NEW r \in CopySlots
        PROVE  d.slots[r] = copies[r] \/ \E j \in 1 .. i : d.slots[r].remote = data[j].id
    <3>1. CASE r = q BY <1>1, <2>4, <3>1 DEF y
    <3>2. CASE r # q BY <1>4, <2>4, <3>2
    <3> QED BY <3>1, <3>2
  <2>8. ASSUME NEW j \in 1 .. i
        PROVE  data[j].id \in d.strays \/ \E r \in CopySlots :
                  /\ d.slots[r].state = "live" /\ d.slots[r].remote = data[j].id
                  /\ Fresh => d.slots[r].value = data[j].value
    <3>1. CASE j = i BY <1>1, <1>b, <2>2, <2>4, <2>6, <3>1 DEF y
    <3>2. CASE j \in 1 .. i - 1
      <4>1. CASE data[j].id \in c.strays BY <2>2, <4>1
      <4>2. CASE data[j].id \notin c.strays
        <5>1. PICK r \in CopySlots : /\ c.slots[r].state = "live" /\ c.slots[r].remote = data[j].id
                                     /\ Fresh => c.slots[r].value = data[j].value
          BY <1>a, <3>2, <4>2
        <5>2. r # q BY <1>1, <1>3, <2>1, <3>2, <5>1
        <5> QED BY <2>4, <5>1, <5>2
      <4> QED BY <4>1, <4>2
    <3> QED BY <1>8, <3>1, <3>2
  <2>9. ASSUME NEW j \in 1 .. i, NEW r \in CopySlots, d.slots[r].remote = data[j].id
        PROVE  d.slots[r].state = "live" /\ d.slots[r].last = seq
    <3>1. CASE r = q BY <2>4, <3>1
    <3>2. CASE r # q /\ j = i BY <1>1, <1>2, <1>4, <2>1, <2>4, <2>9, <3>2 DEF y
    <3>3. CASE r # q /\ j \in 1 .. i - 1 BY <1>a, <2>4, <2>9, <3>3
    <3> QED BY <1>8, <3>1, <3>2, <3>3
  <2>10. ReadOK(d, data, i)
    <3>1. \A r \in CopySlots : copies[r].state = "live" => d.slots[r].remote = copies[r].remote
      BY <1>4, <2>5
    <3>2. \A r, t \in CopySlots : d.slots[r].remote # 0 /\ d.slots[r].remote = d.slots[t].remote => r = t
      BY <1>4, <2>5
    <3>3. \A r \in CopySlots : d.slots[r].state # "none" => d.slots[r].remote # 0 BY <1>4, <2>5
    <3> QED BY <1>a, <2>2, <2>7, <2>8, <2>9, <3>1, <3>2, <3>3 DEF ReadOK
  <2> QED BY <2>10 DEF data
<1>10. CASE /\ \A q \in CopySlots : c.slots[q].remote # x.id
            /\ \E q \in CopySlots :
                 /\ c.slots[q].state = "none"
                 /\ d = [c EXCEPT !.slots = [c.slots EXCEPT ![q] = NewCopy(x)]]
  <2>1. PICK q \in CopySlots :
                 /\ c.slots[q].state = "none"
                 /\ d = [c EXCEPT !.slots = [c.slots EXCEPT ![q] = NewCopy(x)]]
    BY <1>10
  <2>2. d.strays = c.strays /\ d.slots = [c.slots EXCEPT ![q] = NewCopy(x)] BY <2>1 DEF ReadState
  <2>3. /\ d.slots[q].remote = x.id /\ d.slots[q].state = "live" /\ d.slots[q].last = seq
        /\ d.slots[q].value = x.value
        /\ \A r \in CopySlots : r # q => d.slots[r] = c.slots[r]
    BY <1>6, <2>2 DEF NewCopy
  <2>4. x.diff \/ y.id \in strays
    <3> SUFFICES ASSUME ~x.diff, y.id \notin strays PROVE FALSE OBVIOUS
    <3>1. PICK r \in CopySlots : copies[r].state = "live" /\ copies[r].remote = y.id BY <1>1
    <3>2. c.slots[r].remote = x.id BY <1>1, <1>4, <3>1
    <3> QED BY <1>10, <3>2
  <2>5. ASSUME NEW r \in CopySlots
        PROVE  d.slots[r] = copies[r] \/ \E j \in 1 .. i : d.slots[r].remote = data[j].id
    <3>1. CASE r = q BY <1>1, <2>3, <3>1 DEF y
    <3>2. CASE r # q BY <1>4, <2>3, <3>2
    <3> QED BY <3>1, <3>2
  <2>6. ASSUME NEW r \in CopySlots, copies[r].state = "live" PROVE d.slots[r].remote = copies[r].remote
    <3>1. r # q
      <4> SUFFICES ASSUME r = q PROVE FALSE OBVIOUS
      <4>1. PICK j \in 1 .. i - 1 : c.slots[q].remote = data[j].id BY <1>4, <2>1, <2>6
      <4> QED BY <1>a, <2>1, <4>1
    <3> QED BY <1>4, <2>3, <2>6, <3>1
  <2>7. \A r, t \in CopySlots : d.slots[r].remote # 0 /\ d.slots[r].remote = d.slots[t].remote => r = t
    BY <1>4, <1>10, <2>3
  <2>8. \A r \in CopySlots : d.slots[r].state # "none" => d.slots[r].remote # 0
    BY <1>1, <1>2, <1>4, <2>3
  <2>9. ASSUME NEW j \in 1 .. i
        PROVE  data[j].id \in d.strays \/ \E r \in CopySlots :
                  /\ d.slots[r].state = "live" /\ d.slots[r].remote = data[j].id
                  /\ Fresh => d.slots[r].value = data[j].value
    <3>1. CASE j = i BY <1>1, <1>b, <2>2, <2>3, <2>4, <3>1 DEF y
    <3>2. CASE j \in 1 .. i - 1
      <4>1. CASE data[j].id \in c.strays BY <2>2, <4>1
      <4>2. CASE data[j].id \notin c.strays
        <5>1. PICK r \in CopySlots : /\ c.slots[r].state = "live" /\ c.slots[r].remote = data[j].id
                                     /\ Fresh => c.slots[r].value = data[j].value
          BY <1>a, <3>2, <4>2
        <5>2. r # q BY <2>1, <5>1
        <5> QED BY <2>3, <5>1, <5>2
      <4> QED BY <4>1, <4>2
    <3> QED BY <1>8, <3>1, <3>2
  <2>10. ASSUME NEW j \in 1 .. i, NEW r \in CopySlots, d.slots[r].remote = data[j].id
         PROVE  d.slots[r].state = "live" /\ d.slots[r].last = seq
    <3>1. CASE r = q BY <2>3, <3>1
    <3>2. CASE r # q /\ j = i BY <1>1, <1>10, <2>3, <2>10, <3>2 DEF y
    <3>3. CASE r # q /\ j \in 1 .. i - 1 BY <1>a, <2>3, <2>10, <3>3
    <3> QED BY <1>8, <3>1, <3>2, <3>3
  <2>11. ReadOK(d, data, i) BY <1>a, <2>2, <2>5, <2>6, <2>7, <2>8, <2>9, <2>10 DEF ReadOK
  <2> QED BY <2>11 DEF data
<1>11. CASE /\ \A q \in CopySlots : c.slots[q].remote # x.id /\ c.slots[q].state # "none"
            /\ d = [slots |-> c.slots, strays |-> c.strays \cup {x.id}]
  <2>1. d.slots = c.slots /\ c.strays \subseteq d.strays /\ x.id \in d.strays BY <1>11
  <2>2. x.id = y.id BY <1>1
  <2>3. \A q \in CopySlots : d.slots[q] = copies[q] \/ \E j \in 1 .. i : d.slots[q].remote = data[j].id
    <3>1. \A j \in 1 .. i - 1 : j \in 1 .. i
      <4>1. Len(p.ents) \in Nat BY PacketsTyped
      <4> QED BY <4>1
    <3> QED BY <1>4, <2>1, <3>1
  <2>4. ASSUME NEW j \in 1 .. i
        PROVE  data[j].id \in d.strays \/ \E r \in CopySlots :
                  /\ d.slots[r].state = "live" /\ d.slots[r].remote = data[j].id
                  /\ Fresh => d.slots[r].value = data[j].value
    <3>1. CASE j = i BY <2>1, <2>2, <3>1 DEF y
    <3>2. CASE j \in 1 .. i - 1 BY <1>a, <2>1, <3>2
    <3> QED BY <1>8, <3>1, <3>2
  <2>5. ASSUME NEW j \in 1 .. i, NEW r \in CopySlots, d.slots[r].remote = data[j].id
        PROVE  d.slots[r].state = "live" /\ d.slots[r].last = seq
    <3>1. CASE j = i BY <1>1, <1>11, <2>1, <2>5, <3>1 DEF y
    <3>2. CASE j \in 1 .. i - 1 BY <1>a, <2>1, <2>5, <3>2
    <3> QED BY <1>8, <3>1, <3>2
  <2>6. strays \subseteq d.strays BY <1>a, <2>1
  <2>7. ReadOK(d, data, i) BY <1>4, <2>1, <2>3, <2>4, <2>5, <2>6 DEF ReadOK
  <2> QED BY <2>7 DEF data
<1>12. \A q \in CopySlots : c.slots[q].remote = x.id => c.slots[q].state # "none" BY <1>5
<1> QED BY <1>1, <1>7, <1>9, <1>10, <1>11, <1>12, ReadEntityCases

LEMMA MatchingInit == Init => Matching
<1> SUFFICES ASSUME Init PROVE Matching OBVIOUS
<1>1. /\ \A i \in CopySlots : copies[i].remote = 0 /\ copies[i].state = "none"
      /\ incoming["receiver"] = -1
  BY HostsTwo DEF Init
<1> QED BY <1>1 DEF Matching

(* The other steps take more snapshots, or free the slots of the copies that were
   leaving. *)
LEMMA MatchingStays ==
  ASSUME AckInv, Typed, Sent, Matching, UNCHANGED <<strays, applied, applied_at>>,
         incoming'["receiver"] = incoming["receiver"],
         \A k \in 1 .. Len(taken) : taken'[k] = taken[k],
         \A i \in CopySlots :
           /\ copies'[i].remote = copies[i].remote /\ copies'[i].value = copies[i].value
           /\ copies'[i].last = copies[i].last
           /\ copies'[i].state = copies[i].state
              \/ (copies[i].state = "leaving" /\ copies'[i].state = "none")
  PROVE  Matching'
<1>1. \A a \in applied : a + 1 \in 1 .. Len(taken) BY TakenTyped DEF Sent
<1>2. \A a \in applied : \A e : In(e, a + 1) => In(e, a + 1)'
  <2> SUFFICES ASSUME NEW a \in applied, NEW e, In(e, a + 1) PROVE In(e, a + 1)' OBVIOUS
  <2>1. taken'[a + 1] = taken[a + 1] BY <1>1
  <2> QED BY <2>1 DEF In
<1>3. ASSUME NEW n \in {incoming["receiver"]}, n # -1 PROVE taken'[n + 1] = taken[n + 1]
  <2>1. n \in applied BY <1>3 DEF AckInv, AcksOrdered, Acknowledged
  <2> QED BY <1>1, <2>1
<1>4. ASSUME NEW i \in CopySlots, copies'[i].remote # 0
      PROVE  \E a \in applied' : In(copies[i].remote, a + 1)'
  <2>1. PICK a \in applied : In(copies[i].remote, a + 1) BY <1>4 DEF Matching
  <2> DEFINE e == copies[i].remote
  <2> HIDE DEF e
  <2>2. In(e, a + 1) /\ copies'[i].remote = e BY <2>1 DEF e
  <2>3. taken'[a + 1] = taken[a + 1] BY <1>1
  <2> QED BY <2>2, <2>3 DEF In
<1>5. ASSUME NEW n \in {incoming'["receiver"]}, n # -1, NEW x \in ToSet(taken'[n + 1])
      PROVE  /\ \A i \in CopySlots : copies'[i].remote = x.id => copies'[i].state = "live"
             /\ x.id \in strays' \/ \E i \in CopySlots :
                  /\ copies'[i].state = "live" /\ copies'[i].remote = x.id
                  /\ Fresh => copies'[i].value = x.value
  <2>1. n \in {incoming["receiver"]} /\ x \in ToSet(taken[n + 1]) BY <1>3, <1>5
  <2>2. /\ \A i \in CopySlots : copies[i].remote = x.id => copies[i].state = "live"
        /\ x.id \in strays \/ \E i \in CopySlots :
             /\ copies[i].state = "live" /\ copies[i].remote = x.id
             /\ Fresh => copies[i].value = x.value
    BY <1>5, <2>1 DEF Matching
  <2>3. \A i \in CopySlots : copies'[i].remote = x.id => copies'[i].state = "live" BY <2>2
  <2>4. CASE x.id \in strays BY <2>3, <2>4
  <2>5. CASE x.id \notin strays
    <3>1. PICK i \in CopySlots : /\ copies[i].state = "live" /\ copies[i].remote = x.id
                                 /\ Fresh => copies[i].value = x.value
      BY <2>2, <2>5
    <3> QED BY <2>3, <3>1
  <2> QED BY <2>4, <2>5
<1>6. \A i, j \in CopySlots : copies'[i].remote # 0 /\ copies'[i].remote = copies'[j].remote => i = j
  BY DEF Matching
<1>7. \A i \in CopySlots : copies'[i].state # "none" => copies'[i].remote # 0 BY DEF Matching
<1>8. \A i \in CopySlots : copies'[i].state = "live" => copies'[i].last = applied_at'
  BY DEF Matching
<1> QED BY <1>4, <1>5, <1>6, <1>7, <1>8 DEF Matching

LEMMA ReadNothing ==
  ASSUME Matching, NEW data
  PROVE  ReadOK([slots |-> copies, strays |-> strays], data, 0)
BY DEF Matching, ReadOK

(* When the receiver has read the packet, the copies are those of its snapshot,
   and the others leave. *)
LEMMA MatchingRecv ==
  ASSUME AckInv, Typed, Sent, History, Matching, NEW p \in packets["sender"], ReceiverRecv(p)
  PROVE  Matching'
<1> DEFINE s == p.sequence
           data == taken[s + 1]
           n == Len(p.ents)
           seq == sequence["receiver"]
<1>1. /\ s > incoming["receiver"] /\ incoming' = [incoming EXCEPT !["receiver"] = s]
      /\ applied' = applied \cup {s} /\ applied_at' = seq /\ taken' = taken
  BY ReceiverReads
<1>2. PICK after :
        /\ after[0] = [slots |-> copies, strays |-> strays]
        /\ \A i \in 0 .. n : after[i] \in ReadState
        /\ \A i \in 1 .. n : after[i] = ReadEntity(after[i - 1], p.ents[i])
        /\ copies' = RemoveUnseen(after[n].slots) /\ strays' = after[n].strays
  BY ReceiverReads
<1>3. /\ n \in Nat /\ s \in Nat /\ p.ents \in Seq(Message) /\ data \in Seq(Entry) /\ Len(data) = n
      /\ \A i \in 1 .. n : p.ents[i] \in Message
  BY PacketsTyped, PacketsSent
<1> HIDE DEF data
<1> DEFINE Bad == {i \in 0 .. n : ~ReadOK(after[i], data, i)}
<1>4. Bad = {}
  <2> SUFFICES ASSUME Bad # {} PROVE FALSE OBVIOUS
  <2>0. Bad \in SUBSET Nat BY <1>3
  <2>1. PICK m \in Bad : \A j \in Bad : m <= j BY <2>0, LeastNat
  <2>2. m # 0
    <3>1. ReadOK(after[0], data, 0) BY <1>2, ReadNothing
    <3> QED BY <2>1, <3>1
  <2>3. m \in 1 .. n /\ m - 1 \in 0 .. n /\ m \in 0 .. n /\ ~(m <= m - 1) BY <1>3, <2>1, <2>2
  <2>4. ReadOK(after[m - 1], data, m - 1) BY <2>1, <2>3
  <2>5. after[m] = ReadEntity(after[m - 1], p.ents[m]) /\ after[m] \in ReadState /\ after[m - 1] \in ReadState
    BY <1>2, <2>3
  <2>6. ReadOK(after[m], data, m) BY <1>1, <2>3, <2>4, <2>5, ReadStep DEF data
  <2> QED BY <2>1, <2>6
<1> DEFINE c == after[n]
<1>5. /\ ReadOK(c, data, n)
      /\ c \in ReadState /\ copies' = RemoveUnseen(c.slots) /\ strays' = c.strays
  <2>1. n \in 0 .. n BY <1>3
  <2>2. ReadOK(c, data, n) BY <1>4, <2>1
  <2>3. c \in ReadState /\ copies' = RemoveUnseen(c.slots) /\ strays' = c.strays BY <1>2, <2>1
  <2> QED BY <2>2, <2>3
<1> USE DEF data
<1> HIDE DEF c, Bad
<1>6. /\ c.slots \in [CopySlots -> CopyRec]
      /\ \A q \in CopySlots :
           /\ copies'[q].remote = c.slots[q].remote /\ copies'[q].value = c.slots[q].value
           /\ copies'[q].last = c.slots[q].last
           /\ copies'[q].state = IF c.slots[q].state # "none" /\ c.slots[q].last # seq
                                   THEN "leaving" ELSE c.slots[q].state
  <2>1. c.slots \in [CopySlots -> CopyRec] BY <1>5 DEF ReadState
  <2>2. ASSUME NEW q \in CopySlots
        PROVE  /\ copies'[q].remote = c.slots[q].remote /\ copies'[q].value = c.slots[q].value
               /\ copies'[q].last = c.slots[q].last
               /\ copies'[q].state = IF c.slots[q].state # "none" /\ c.slots[q].last # seq
                                       THEN "leaving" ELSE c.slots[q].state
    <3>1. c.slots[q] \in CopyRec BY <2>1
    <3> QED BY <1>5, <3>1 DEF RemoveUnseen, CopyRec
  <2> QED BY <2>1, <2>2
<1>7. incoming'["receiver"] = s BY <1>1, HostsTwo DEF Typed
<1>8. /\ \A q \in CopySlots : c.slots[q] = copies[q] \/ \E j \in 1 .. n : c.slots[q].remote = data[j].id
      /\ \A q, r \in CopySlots : c.slots[q].remote # 0 /\ c.slots[q].remote = c.slots[r].remote => q = r
      /\ \A q \in CopySlots : c.slots[q].state # "none" => c.slots[q].remote # 0
      /\ \A j \in 1 .. n : \A q \in CopySlots : c.slots[q].remote = data[j].id =>
           c.slots[q].state = "live" /\ c.slots[q].last = seq
      /\ \A j \in 1 .. n : data[j].id \in c.strays \/ \E q \in CopySlots :
           /\ c.slots[q].state = "live" /\ c.slots[q].remote = data[j].id
           /\ Fresh => c.slots[q].value = data[j].value
  BY <1>5 DEF ReadOK
<1>9. DOMAIN data = 1 .. n /\ s \in applied' BY <1>1, <1>3
<1>10. ASSUME NEW q \in CopySlots, copies'[q].remote # 0
      PROVE  \E a \in applied' : In(copies'[q].remote, a + 1)
  <2>1. CASE c.slots[q] = copies[q]
    <3>1. PICK a \in applied : In(copies[q].remote, a + 1) BY <1>5, <1>6, <1>10, <2>1 DEF Matching
    <3> QED BY <1>1, <1>6, <2>1, <3>1
  <2>2. CASE \E j \in 1 .. n : c.slots[q].remote = data[j].id
    <3>1. In(c.slots[q].remote, s + 1) BY <1>9, <2>2 DEF In
    <3> QED BY <1>6, <1>9, <3>1
  <2> QED BY <1>8, <2>1, <2>2
<1>11. ASSUME NEW q \in CopySlots, copies'[q].remote # 0
      PROVE  \E a \in applied' : \E i \in DOMAIN taken'[a + 1] : taken'[a + 1][i].id = copies'[q].remote
  BY <1>1, <1>10, <1>11 DEF In
<1>12. ASSUME NEW x \in ToSet(data)
       PROVE  /\ \A q \in CopySlots : copies'[q].remote = x.id => copies'[q].state = "live"
              /\ x.id \in strays' \/ \E q \in CopySlots :
                   /\ copies'[q].state = "live" /\ copies'[q].remote = x.id
                   /\ Fresh => copies'[q].value = x.value
  <2>1. PICK j \in 1 .. n : data[j] = x BY <1>9 DEF ToSet
  <2>2. \A q \in CopySlots : copies'[q].remote = x.id => copies'[q].state = "live"
    BY <1>6, <1>8, <2>1
  <2>3. CASE x.id \in c.strays BY <1>5, <2>2, <2>3
  <2>4. CASE x.id \notin c.strays
    <3>1. PICK q \in CopySlots : /\ c.slots[q].state = "live" /\ c.slots[q].remote = data[j].id
                                 /\ Fresh => c.slots[q].value = data[j].value
      BY <1>8, <2>1, <2>4
    <3> QED BY <1>6, <2>1, <2>2, <3>1
  <2> QED BY <2>3, <2>4
<1>13. ASSUME NEW q \in CopySlots, copies'[q].state = "live" PROVE copies'[q].last = applied_at'
  BY <1>1, <1>6, <1>13
<1>14. \A q, r \in CopySlots : copies'[q].remote # 0 /\ copies'[q].remote = copies'[r].remote => q = r
  BY <1>6, <1>8
<1>15. \A q \in CopySlots : copies'[q].state # "none" => copies'[q].remote # 0 BY <1>6, <1>8
<1>16. \A k \in {incoming'["receiver"]} : \A x \in ToSet(taken'[k + 1]) : x \in ToSet(data)
  BY <1>1, <1>7
<1> QED BY <1>11, <1>12, <1>13, <1>14, <1>15, <1>16 DEF Matching, In
-----------------------------------------------------------------------------
(* All of it, and what follows *)

LEMMA InvariantInit == Init => CInv
BY AckInit, TypedInit, SentInit, WorldInit, HistoryInit, MatchingInit DEF CInv

LEMMA GameKeeps ==
  ASSUME CInv, Spawn \/ (\E e \in Ids, v \in Values : Move(e, v)) \/ (\E i \in Slots : Despawn(i))
  PROVE  CInv'
<1>1. AckInv' BY GameStutters, AckStutters DEF CInv
<1>2. Typed' BY GameTyped DEF CInv
<1>3. UNCHANGED <<incoming, packets, taken, snapshots, applied, applied_at, copies, strays>>
  BY DEF Spawn, Move, Despawn, receiver
<1>4. Sent' BY <1>3, SentStays DEF CInv
<1>5. ASSUME Tidy PROVE World' /\ History' /\ Matching'
  <2>1. World /\ History /\ Matching /\ AckInv /\ Typed /\ Sent BY <1>5 DEF CInv
  <2>2. World'
    <3>1. CASE Spawn BY <1>5, <2>1, <3>1, WorldSpawn
    <3>2. CASE \E e \in Ids, v \in Values : Move(e, v)
      <4>1. PICK e \in Ids, v \in Values : Move(e, v) BY <3>2
      <4>2. ecs' = [ecs EXCEPT ![e].value = v] /\ UNCHANGED entities BY <4>1 DEF Move
      <4>3. DOMAIN ecs' = DOMAIN ecs /\ \A d \in Ids : ecs'[d].state = ecs[d].state
        <5>1. ecs \in [Ids -> [state : {"unborn", "alive", "leaving", "gone"}, value : Values]]
          BY <2>1 DEF Typed, TypeOK
        <5> QED BY <4>2, <5>1
      <4> QED BY <2>1, <4>2, <4>3, WorldStays
    <3>3. CASE \E i \in Slots : Despawn(i) BY <1>5, <2>1, <3>3, WorldDespawn
    <3> QED BY <3>1, <3>2, <3>3
  <2>3. History' BY <2>1, HistoryGame
  <2>4. Matching' BY <1>3, <2>1, MatchingStays
  <2> QED BY <2>2, <2>3, <2>4
<1> QED BY <1>1, <1>2, <1>4, <1>5 DEF CInv

(* Where the world and the snapshots do not change, what is known of them stays. *)
LEMMA StillWorld ==
  ASSUME Typed, World, History, UNCHANGED <<entities, ecs, taken>>
  PROVE  World' /\ History'
<1>1. World' BY WorldStays
<1>2. History'
  <2>1. \A e \in Ids : Present(e)' => Present(e) BY DEF Present
  <2>2. \A e \in Ids : ecs[e].value \in Nat BY Constants DEF Typed, TypeOK
  <2> QED BY <2>1, <2>2, HistoryStays
<1> QED BY <1>1, <1>2

LEMMA SenderUpdateKeepsAll ==
  ASSUME CInv, SenderUpdate
  PROVE  CInv'
<1>1. AckInv' BY SenderUpdateKeeps DEF CInv
<1>2. Typed' /\ Sent' BY SenderUpdateTyped, SenderUpdateSent DEF CInv
<1>3. /\ ecs' = Updated
      /\ UNCHANGED <<sequence, incoming, ack, entities, copies, strays, applied, applied_at>>
      /\ taken' = Append(taken, Snapshot(Updated))
  BY SenderSends DEF CInv, SenderUpdate
<1>4. ASSUME Tidy PROVE World' /\ History' /\ Matching'
  <2>1. World /\ History /\ Matching /\ AckInv /\ Typed /\ Sent BY <1>4 DEF CInv
  <2>2. \A k \in 1 .. Len(taken) : taken'[k] = taken[k]
    <3>1. Snapshot(Updated) \in Seq(Entry) BY <2>1, SnapshotOfWorld
    <3> QED BY <1>3, <2>1, <3>1, TakenTyped
  <2> QED BY <1>3, <2>1, <2>2, WorldUpdated, HistoryTaken, MatchingStays
<1> QED BY <1>1, <1>2, <1>4 DEF CInv

LEMMA ReceiverUpdateKeepsAll ==
  ASSUME CInv, ReceiverUpdate
  PROVE  CInv'
<1>1. AckInv' BY ReceiverUpdateKeeps DEF CInv
<1>2. Typed' BY ReceiverUpdateTyped DEF CInv
<1>3. /\ UNCHANGED <<incoming, entities, ecs, snapshots, strays, applied, applied_at, taken>>
      /\ packets'["sender"] = packets["sender"]
      /\ copies' = [i \in CopySlots |->
           IF copies[i].state = "leaving" THEN [copies[i] EXCEPT !.state = "none"] ELSE copies[i]]
  BY HostsTwo DEF ReceiverUpdate, registry, CInv, Typed
<1>4. Sent' BY <1>3 DEF CInv, Sent
<1>5. ASSUME Tidy PROVE World' /\ History' /\ Matching'
  <2>1. World /\ History /\ Matching /\ AckInv /\ Typed /\ Sent BY <1>5 DEF CInv
  <2>2. World' /\ History' BY <1>3, <2>1, StillWorld
  <2>3. ASSUME NEW i \in CopySlots
        PROVE  /\ copies'[i].remote = copies[i].remote /\ copies'[i].value = copies[i].value
               /\ copies'[i].last = copies[i].last
               /\ copies'[i].state = copies[i].state
                  \/ (copies[i].state = "leaving" /\ copies'[i].state = "none")
    <3>1. copies[i] \in CopyRec BY <2>1 DEF Typed, TypeOK, CopyRec
    <3> QED BY <1>3, <3>1 DEF CopyRec
  <2> QED BY <1>3, <2>1, <2>2, <2>3, MatchingStays
<1> QED BY <1>1, <1>2, <1>4, <1>5 DEF CInv

LEMMA ReceiverRecvKeepsAll ==
  ASSUME CInv, NEW p \in packets["sender"], ReceiverRecv(p)
  PROVE  CInv'
<1>1. AckInv' BY ReceiverRecvKeeps DEF CInv
<1>2. Typed' /\ Sent' BY ReceiverRecvTyped, ReceiverRecvSent DEF CInv
<1>3. UNCHANGED <<entities, ecs, taken>> BY ReceiverReads DEF CInv
<1>4. ASSUME Tidy PROVE World' /\ History' /\ Matching'
  <2>1. World /\ History /\ Matching /\ AckInv /\ Typed /\ Sent BY <1>4 DEF CInv
  <2> QED BY <1>3, <2>1, StillWorld, MatchingRecv
<1> QED BY <1>1, <1>2, <1>4 DEF CInv

LEMMA RestKeeps ==
  ASSUME CInv, (\E p \in packets["receiver"] : SenderRecv(p)) \/ (\E h \in Hosts : UpdateEnd(h))
               \/ UNCHANGED vars
  PROVE  CInv'
<1>1. /\ AckInv' /\ incoming'["receiver"] = incoming["receiver"]
      /\ UNCHANGED <<packets, entities, ecs, snapshots, copies, strays, applied, applied_at, taken>>
  <2>1. AckInv' BY AckStep DEF CInv, Next
  <2>2. UNCHANGED <<packets, entities, ecs, snapshots, copies, strays, applied, applied_at, taken>>
    BY DEF SenderRecv, UpdateEnd, vars, registry, receiver
  <2>3. incoming'["receiver"] = incoming["receiver"]
    <3>1. CASE \E p \in packets["receiver"] : SenderRecv(p)
      BY <3>1, HostsTwo DEF SenderRecv, CInv, Typed
    <3>2. CASE ~(\E p \in packets["receiver"] : SenderRecv(p)) BY <3>2 DEF UpdateEnd, vars
    <3> QED BY <3>1, <3>2
  <2> QED BY <2>1, <2>2, <2>3
<1>2. Typed'
  <2>1. CASE UNCHANGED vars BY <2>1 DEF vars, registry, receiver, CInv, Typed, TypeOK
  <2>2. CASE ~UNCHANGED vars BY <2>2, SenderRecvTyped, UpdateEndTyped DEF CInv
  <2> QED BY <2>1, <2>2
<1>3. Sent' BY <1>1, SentStays DEF CInv
<1>4. ASSUME Tidy PROVE World' /\ History' /\ Matching'
  <2>1. World /\ History /\ Matching /\ AckInv /\ Typed /\ Sent BY <1>4 DEF CInv
  <2> QED BY <1>1, <2>1, StillWorld, MatchingStays
<1> QED BY <1>1, <1>2, <1>3, <1>4 DEF CInv

LEMMA InvariantStep ==
  ASSUME CInv, [Next]_vars
  PROVE  CInv'
<1>1. CASE Spawn \/ (\E e \in Ids, v \in Values : Move(e, v)) \/ (\E i \in Slots : Despawn(i))
  BY <1>1, GameKeeps
<1>2. CASE SenderUpdate BY <1>2, SenderUpdateKeepsAll
<1>3. CASE ReceiverUpdate BY <1>3, ReceiverUpdateKeepsAll
<1>4. CASE \E p \in packets["sender"] : ReceiverRecv(p) BY <1>4, ReceiverRecvKeepsAll
<1>5. CASE (\E p \in packets["receiver"] : SenderRecv(p)) \/ (\E h \in Hosts : UpdateEnd(h))
           \/ UNCHANGED vars
  BY <1>5, RestKeeps
<1> QED BY <1>1, <1>2, <1>3, <1>4, <1>5 DEF Next

(* The copies have the values of the newest snapshot applied. *)
LEMMA MatchingCopies ==
  ASSUME Fresh, Matching
  PROVE  CopiesCurrent
BY DEF Matching, CopiesCurrent, Newest, Live

LEMMA MatchingGhosts ==
  ASSUME Matching, Typed
  PROVE  NoGhosts
<1>1. \A i \in Live : i \in CopySlots /\ copies[i].state = "live" BY DEF Live
<1>2. \A i \in Live : copies[i].last = applied_at /\ copies[i].remote # 0 BY <1>1 DEF Matching
<1>3. \A i, j \in Live : copies[i].remote = copies[j].remote => i = j BY <1>1, <1>2 DEF Matching
<1> QED BY <1>2, <1>3 DEF NoGhosts

-----------------------------------------------------------------------------
(* Every variable has its type: no sequence number runs ahead of the updates, and
   the slots of both hosts hold entities that the sender has made. *)
THEOREM TypeCorrect == Spec => []TypeOK
<1>1. CInv => TypeOK BY DEF CInv, Typed
<1>2. CInv /\ [Next]_vars => CInv' BY InvariantStep
<1> QED BY InvariantInit, <1>1, <1>2, PTL DEF Spec

(* If values that changed do not come back, and the game removes entities from
   the end, the receiver has the newest snapshot's values, whatever is lost, late
   or twice, and whatever the deltas leave out, of all entities but those that
   once found the connection's slots taken. *)
THEOREM CopiesAreCurrent ==
  ASSUME Fresh, Tidy
  PROVE  Spec => []CopiesCurrent
<1>1. CInv => CopiesCurrent BY MatchingCopies DEF CInv
<1>2. CInv /\ [Next]_vars => CInv' BY InvariantStep
<1> QED BY InvariantInit, <1>1, <1>2, PTL DEF Spec

(* No copy in a slot outlives its entity's last snapshot, and none has two slots,
   whether or not values come back, and whether or not all slots were taken. *)
THEOREM NoGhostsLeft ==
  ASSUME Tidy
  PROVE  Spec => []NoGhosts
<1>1. CInv => NoGhosts BY MatchingGhosts DEF CInv
<1>2. CInv /\ [Next]_vars => CInv' BY InvariantStep
<1> QED BY InvariantInit, <1>1, <1>2, PTL DEF Spec

(* A delta is only ever taken against a snapshot that the receiver has
   applied, whatever packets come, late or twice. *)
THEOREM BaselinesApplied == Spec => []BaselineApplied
<1>1. AckInv => BaselineApplied BY DEF AckInv, AcksOrdered, Acknowledged, BaselineApplied
<1>2. AckInv /\ [Next]_vars => AckInv' BY AckStep
<1> QED BY AckInit, <1>1, <1>2, PTL DEF Spec

(* And no late packet takes the acknowledgement back. *)
THEOREM AcksGoForward == Spec => AckForward
<1>1. AckInv /\ [Next]_vars => AckInv' BY AckStep
<1>2. AckInv /\ [Next]_vars => [ack' >= ack]_vars BY AckStep
<1> QED BY AckInit, <1>1, <1>2, PTL DEF Spec, AckForward
=============================================================================
