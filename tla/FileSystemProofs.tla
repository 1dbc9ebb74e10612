-------------------------- MODULE FileSystemProofs --------------------------
(***************************************************************************)
(* Proofs about FileSystem, for any files, uses and number of works.       *)
(***************************************************************************)
EXTENDS FileSystem, WellFoundedInduction, SequenceTheorems, TLAPS

(* The thread that a work is for, and whether a worker is at it. *)
Where(k) == QueueOf(works[k].op, works[k].path)
Active == {"open", "transfer", "close", "signal"}
Positions(w) == 1 .. Len(queues[w])

(* A work not done is in one place, that of its kind: with the client that is
   about to push it, in a queue behind all submitted before it, or with the
   worker; the NULL work is the last of its queue, and what a worker ends on. *)
Located ==
  /\ \A w \in Workers, k \in Works : \A i \in Positions(w) :
       queues[w][i] = k => k \in Submitted \ done /\ Where(k) = w
  /\ \A w \in Workers : \A i, j \in Positions(w) : i < j =>
       queues[w][i] # Stop /\ (queues[w][j] # Stop => queues[w][i] < queues[w][j])
  /\ \A w \in Workers : worker[w].pc \in Active =>
       /\ worker[w].work \in Submitted \ done /\ Where(worker[w].work) = w
       /\ \A i \in Positions(w) : queues[w][i] # Stop => worker[w].work < queues[w][i]
  /\ client.pc = "push" =>
       /\ client.work = Len(works) /\ client.work \in Submitted \ done
       /\ \A w \in Workers : \A i \in Positions(w) : queues[w][i] # client.work
       /\ \A w \in Workers : worker[w].pc \in Active => worker[w].work # client.work
  /\ \A w \in Workers : worker[w].pc = "exit" => worker[w].work = Stop /\ queues[w] = << >>

(* The workers are stopped one after the other, once nothing is submitted any
   more. *)
Stopping ==
  /\ client.pc = "push" => client.stage = 1
  /\ client.pc \in {"stop", "join"} => client.stage \in 1 .. 3
  /\ \A i \in 1 .. 3 : StopOrder[i] \in destroyed <=> i < client.stage
  /\ \A w \in destroyed : worker[w].pc = "exit"
  /\ \A i \in 1 .. 3 : i > client.stage \/ (i = client.stage /\ client.pc # "join") =>
       /\ worker[StopOrder[i]].pc # "exit"
       /\ \A j \in Positions(StopOrder[i]) : queues[StopOrder[i]][j] # Stop

(* Who owns what is allocated: a work is freed when it is done, and the
   compressed data when they are written. *)
Owned ==
  /\ \A k \in Submitted : Freed(k) => k \in done
  /\ \A k \in Works : <<"work", k>> \in blocks => k \in Submitted
  /\ \A k \in Works : <<"buffer", k>> \in blocks => k \in Submitted /\ works[k].op = "read"
  /\ \A k \in Works : <<"buffer_2", k>> \in blocks =>
       /\ k \in Submitted \ done /\ works[k].op = "write"
       /\ \A w \in Workers : worker[w].work = k => worker[w].pc \notin {"close", "signal"}

(* A work that has failed is nowhere any more, and never done; and a compressed
   write keeps its buffer_2 until it is written. *)
Lost ==
  /\ \A k \in failed :
       /\ k \notin done
       /\ client.pc = "push" => client.work # k
       /\ \A w \in Workers : \A i \in Positions(w) : queues[w][i] # k
       /\ \A w \in Workers : worker[w].pc \in Active => worker[w].work # k
  /\ \A k \in Submitted \ done : works[k].op = "write" /\ works[k].path \in Compressed =>
       \/ <<"buffer_2", k>> \in blocks
       \/ \E w \in Workers : worker[w].work = k /\ worker[w].pc \in {"close", "signal"}

(* A write to the file at path has failed. *)
Spoiled(path) == \E j \in failed : works[j].op = "write" /\ works[j].path = path
Transferring(w) == worker[w].pc \in {"transfer", "close"}

(* Files are not open for reading and for writing at a time, and hold a part of
   a write only while it is made or after it has failed. *)
Shared ==
  /\ \A v, w \in Workers : Transferring(v) /\ Transferring(w) /\ Path(v) = Path(w) => Op(v) = Op(w)
  /\ \A p \in Paths : files[p] = Torn =>
       Spoiled(p) \/ \E w \in Workers : worker[w].pc = "transfer" /\ Op(w) = "write" /\ Path(w) = p
  /\ \A k \in Submitted : works[k].op = "read" /\ buffer[k] = Torn => Spoiled(works[k].path)
  /\ \A k \in Works : k \notin Submitted => buffer[k] = Old

(* What has been read or written is done or about to be. *)
Transferred(k) ==
  k \in done \/ \E w \in Workers : worker[w].work = k /\ worker[w].pc \in {"close", "signal"}
Writes(path) == {k \in OnPath(path) : works[k].op = "write"}

(* The greatest of some works, if any. *)
Last(k, S) == (k = Old /\ S = {}) \/ (k \in S /\ \A j \in S : j <= k)

Before(k) == {j \in Writes(works[k].path) : j < k}
Expectation == \A k \in Submitted : Last(expected[k], Before(k))

(* With a careful client nothing fails and nothing is lost, the works on a file
   are done in the order submitted, and a file holds the last write made. *)
InOrder ==
  /\ failed = {}
  /\ \A k \in Submitted \ done :
       \/ client.pc = "push" /\ client.work = k
       \/ \E i \in Positions(Where(k)) : queues[Where(k)][i] = k
       \/ worker[Where(k)].pc \in Active /\ worker[Where(k)].work = k
  /\ \A j, k \in Submitted :
       /\ j < k /\ works[j].path = works[k].path
       /\ k \in done \/ works[k].path \in Compressed
       => j \in done
  /\ \A p \in Paths :
       \/ \E w \in Workers : worker[w].pc = "transfer" /\ Op(w) = "write" /\ Path(w) = p
       \/ Last(files[p], {k \in Writes(p) : Transferred(k)})
  /\ \A k \in Submitted : works[k].op = "read" /\ Transferred(k) => buffer[k] = expected[k]

IInv ==
  /\ TypeOK /\ Located /\ Stopping /\ Owned /\ Lost /\ Shared /\ Expectation
  /\ Careful => InOrder
-----------------------------------------------------------------------------
LEMMA Numbers ==
  ASSUME TypeOK
  PROVE  /\ Len(works) \in Nat /\ Submitted \subseteq Works /\ Works \subseteq Nat
         /\ Stop \notin Submitted /\ Stop \notin Works /\ Torn \notin Works /\ Torn # Old
         /\ \A k \in Submitted : works[k].op \in {"read", "write"} /\ works[k].path \in Paths
         /\ \A w \in Workers : Len(queues[w]) \in Nat /\ queues[w] \in Seq(Works \cup {Stop})
<1>1. /\ Len(works) \in Nat /\ Submitted \subseteq Works /\ Works \subseteq Nat
      /\ Stop \notin Submitted /\ Stop \notin Works /\ Torn \notin Works /\ Torn # Old
  BY FileSystemAssumption DEF TypeOK, Submitted, Works, Stop, Torn, Old
<1>2. ASSUME NEW k \in Submitted
      PROVE  works[k].op \in {"read", "write"} /\ works[k].path \in Paths
  <2>1. works \in Seq([op : {"read", "write"}, path : Paths]) /\ k \in 1 .. Len(works)
    BY DEF TypeOK, Submitted
  <2>2. works[k] \in [op : {"read", "write"}, path : Paths] BY <2>1, ElementOfSeq
  <2> QED BY <2>2
<1>3. \A w \in Workers : Len(queues[w]) \in Nat /\ queues[w] \in Seq(Works \cup {Stop})
  BY DEF TypeOK
<1> QED BY <1>1, <1>2, <1>3

LEMMA Order ==
  /\ Workers = {"file", "compress", "decompress"}
  /\ StopOrder[1] = "file" /\ StopOrder[2] = "compress" /\ StopOrder[3] = "decompress"
  /\ \A i \in 1 .. 3 : StopOrder[i] \in Workers
  /\ \A i, j \in 1 .. 3 : StopOrder[i] = StopOrder[j] => i = j
  /\ \A w \in Workers : \E i \in 1 .. 3 : w = StopOrder[i]
  /\ \A op \in {"read", "write"}, p \in Paths : QueueOf(op, p) \in Workers
<1>1. \A i \in 1 .. 3 : i = 1 \/ i = 2 \/ i = 3 OBVIOUS
<1>2. 1 \in 1 .. 3 /\ 2 \in 1 .. 3 /\ 3 \in 1 .. 3 OBVIOUS
<1>3. StopOrder[1] = "file" /\ StopOrder[2] = "compress" /\ StopOrder[3] = "decompress"
  BY DEF StopOrder
<1>4. "file" # "compress" /\ "file" # "decompress" /\ "compress" # "decompress" OBVIOUS
<1>5. \A i, j \in 1 .. 3 : StopOrder[i] = StopOrder[j] => i = j BY <1>1, <1>3, <1>4
<1>6. \A op \in {"read", "write"}, p \in Paths : QueueOf(op, p) \in Workers
  BY DEF QueueOf, Workers
<1> QED BY <1>1, <1>2, <1>3, <1>5, <1>6 DEF Workers

LEMMA InitHolds == Init => IInv
<1> SUFFICES ASSUME Init PROVE IInv OBVIOUS
<1> USE FileSystemAssumption DEF Init
<1>0. Submitted = {} BY DEF Submitted
<1>1. TypeOK BY <1>0 DEF TypeOK, Works, Data, Workers, Old, Stop
<1>2. Located BY <1>0 DEF Located, Positions, Active, Stop
<1>3. Stopping BY Order DEF Stopping, Positions
<1>4. Owned BY <1>0 DEF Owned
<1>5. Shared BY <1>0, <1>1, Numbers DEF Shared, Transferring, Old
<1>6. Expectation BY <1>0 DEF Expectation
<1>7. InOrder
  <2>1. \A p \in Paths : {k \in Writes(p) : Transferred(k)} = {} BY <1>0 DEF Writes, OnPath
  <2> QED BY <1>0, <2>1 DEF InOrder, Last
<1>8. Lost BY <1>0 DEF Lost
<1> QED BY <1>1, <1>2, <1>3, <1>4, <1>5, <1>6, <1>7, <1>8 DEF IInv

(* A step of the client that calls no queue: it moves between calls. *)
LEMMA ClientKeeps ==
  ASSUME IInv, UNCHANGED <<use, fs, done, queues, worker, destroyed>>,
         client.pc \notin {"push", "join"}, client'.pc \notin {"push", "join"},
         client' \in [pc : {"idle", "push", "wait", "destroy", "stop", "join"},
                      work : Works \cup {Stop}, stage : 1 .. 4],
         client'.stage = client.stage, client'.pc = "stop" => client.stage \in 1 .. 3
  PROVE  IInv'
<1> USE DEF IInv, fs
<1>0. /\ Submitted' = Submitted /\ \A k : Where(k)' = Where(k)
      /\ \A w : Positions(w)' = Positions(w)
      /\ \A w : Op(w)' = Op(w) /\ Path(w)' = Path(w)
      /\ \A k : Transferred(k)' = Transferred(k)
      /\ \A p : Writes(p)' = Writes(p)
  BY DEF Submitted, Where, Positions, Op, Path, Transferred, Writes, OnPath
<1>1. TypeOK' BY <1>0 DEF TypeOK
<1>2. Located' BY <1>0 DEF Located
<1>3. Stopping' BY <1>0 DEF Stopping
<1>4. Owned' BY <1>0 DEF Owned, Freed
<1>5. Shared' BY <1>0 DEF Shared, Transferring, Spoiled
<1>6. Expectation' BY <1>0 DEF Expectation, Last, Before
<1>7. Careful' => InOrder' BY <1>0 DEF InOrder, Last, Careful
<1>8. Lost' BY <1>0 DEF Lost
<1> QED BY <1>1, <1>2, <1>3, <1>4, <1>5, <1>6, <1>7, <1>8

(* Some works have a last one. *)
LEMMA LastOfWorks ==
  ASSUME NEW n \in Nat, NEW S \in SUBSET (1 .. n), S # {}
  PROVE  \E m \in S : \A j \in S : j <= m
<1> DEFINE T == {m \in Nat : \A j \in S : j <= m}
<1>1. n \in T OBVIOUS
<1>2. PICK m \in T : \A j \in T : ~(<<j, m>> \in OpToRel(<, Nat))
  <2>1. T \subseteq Nat /\ T # {} BY <1>1
  <2> HIDE DEF T
  <2> QED BY <2>1, NatLessThanWellFounded, WFMin
<1>3. m \in S
  <2> SUFFICES ASSUME m \notin S PROVE FALSE OBVIOUS
  <2>1. PICK x \in S : TRUE OBVIOUS
  <2>2. m \in Nat /\ m - 1 \in Nat /\ m - 1 < m BY <2>1
  <2>3. m - 1 \in T BY <2>2
  <2>4. {ss \in Nat \X Nat : ss[1] < ss[2]} = OpToRel(<, Nat) BY Zenon DEF OpToRel
  <2>5. <<m - 1, m>> \in {ss \in Nat \X Nat : ss[1] < ss[2]} BY <2>2
  <2> QED BY <1>2, <2>3, <2>4, <2>5
<1> QED BY <1>2, <1>3

LEMMA FsSubmitKeeps ==
  ASSUME IInv, NEW op \in {"read", "write"}, NEW path \in Paths, FsSubmit(op, path)
  PROVE  IInv'
<1> USE DEF IInv
<1>0. PICK k \in Nat : k = Len(works) + 1 BY Numbers
<1>1. /\ client.pc = "idle" /\ client.stage = 1 /\ k <= MaxWorks
      /\ use.waits /\ path \in Compressed => OnPath(path) \subseteq done
      /\ works' = Append(works, [op |-> op, path |-> path])
      /\ blocks' = blocks \cup {<<"work", k>>}
                     \cup (IF op = "write" /\ path \in Compressed THEN {<<"buffer_2", k>>} ELSE {})
      /\ expected' = [expected EXCEPT ![k] = LastWrite(path)]
      /\ client' = [client EXCEPT !.pc = "push", !.work = k]
      /\ UNCHANGED <<use, done, failed, buffer, files, queues, worker, destroyed>>
  BY <1>0 DEF FsSubmit
<1>2. /\ Len(works') = k /\ works'[k] = [op |-> op, path |-> path]
      /\ \A j \in Submitted : works'[j] = works[j]
      /\ Submitted' = Submitted \cup {k} /\ k \notin Submitted /\ k \in Works /\ k \in Nat
      /\ \A j \in Submitted : j < k
      /\ works' \in Seq([op : {"read", "write"}, path : Paths])
  BY <1>0, <1>1, Numbers DEF Submitted, TypeOK, Works
<1>3. /\ client' \in [pc : {"idle", "push", "wait", "destroy", "stop", "join"},
                      work : Works \cup {Stop}, stage : 1 .. 4]
      /\ client'.pc = "push" /\ client'.work = k /\ client'.stage = 1
  BY <1>1, <1>2 DEF TypeOK
<1>4. /\ k \notin done /\ k \notin failed /\ done \subseteq Submitted /\ failed \subseteq Submitted
      /\ \A w \in Workers : worker[w].pc \in Active => worker[w].work \in Submitted
      /\ \A w \in Workers : worker[w].pc \in Active => worker[w].work # k
  BY <1>2 DEF TypeOK, Located
<1>5. /\ \A w \in Workers : Positions(w)' = Positions(w)
      /\ \A j \in Submitted : Where(j)' = Where(j)
      /\ \A w \in Workers : worker[w].pc \in Active => Op(w)' = Op(w) /\ Path(w)' = Path(w)
      /\ \A j : Transferred(j)' = Transferred(j)
      /\ ~Transferred(k)
  BY <1>1, <1>2, <1>4 DEF Positions, Where, Op, Path, Transferred, Active
<1>6. /\ \A p \in Paths : Writes(p) \subseteq Writes(p)' /\ Writes(p)' \subseteq Writes(p) \cup {k}
      /\ \A j \in Submitted : Before(j)' = Before(j)
      /\ Before(k)' = Writes(path)
      /\ \A p \in Paths : Writes(p) \subseteq Submitted
  <2>1. \A p \in Paths : Writes(p) \subseteq Writes(p)' /\ Writes(p)' \subseteq Writes(p) \cup {k}
    BY <1>2 DEF Writes, OnPath
  <2>2. \A p \in Paths : Writes(p) \subseteq Submitted BY DEF Writes, OnPath
  <2>3. \A j \in Submitted : j < k /\ ~(k < j) /\ ~(k < k)
    BY <1>0, <1>2, Numbers DEF Submitted
  <2>4. \A j \in Submitted : Before(j)' = Before(j)
    BY <1>2, <2>1, <2>3, Numbers DEF Before
  <2>5. Before(k)' = Writes(path)
    <3>1. Before(k)' = {j \in Writes(path)' : j < k} BY <1>2 DEF Before
    <3> QED BY <2>1, <2>2, <2>3, <3>1
  <2> QED BY <2>1, <2>2, <2>4, <2>5
<1>7. Last(LastWrite(path), Writes(path)) /\ LastWrite(path) \in Data
  <2>1. Writes(path) \subseteq 1 .. Len(works) BY DEF Writes, OnPath, Submitted
  <2>2. CASE Writes(path) = {} BY <2>2, FileSystemAssumption DEF LastWrite, Last, Writes, Old, Data
  <2>3. CASE Writes(path) # {}
    <3>1. \E m \in Writes(path) : \A j \in Writes(path) : j <= m
      BY <2>1, <2>3, LastOfWorks, Numbers
    <3>2. LastWrite(path) = CHOOSE m \in Writes(path) : \A j \in Writes(path) : j <= m
      BY <2>3 DEF LastWrite, Writes
    <3>3. LastWrite(path) \in Writes(path) /\ \A j \in Writes(path) : j <= LastWrite(path)
      BY <3>1, <3>2
    <3>4. LastWrite(path) \in 1 .. MaxWorks BY <2>1, <3>3, Numbers DEF Submitted, Works
    <3> QED BY <2>3, <3>3, <3>4, FileSystemAssumption DEF Last, Data
  <2> QED BY <2>2, <2>3
<1>11. TypeOK'
  <2>1. blocks' \subseteq {"work", "buffer", "buffer_2"} \X Works BY <1>1, <1>2 DEF TypeOK
  <2>2. expected' \in [Works -> Data] BY <1>1, <1>2, <1>7 DEF TypeOK
  <2> QED BY <1>1, <1>2, <1>3, <1>4, <2>1, <2>2 DEF TypeOK
<1>12. Located'
  <2>1. \A w \in Workers : \A i \in Positions(w) : queues[w][i] # k
    BY <1>2, Numbers DEF Located
  <2> QED BY <1>1, <1>2, <1>3, <1>4, <1>5, <2>1 DEF Located
<1>13. Stopping' BY <1>1, <1>3, <1>5, Order DEF Stopping
<1>14. Owned'
  <2>1. /\ \A j \in Works : <<"work", j>> \in blocks' <=> <<"work", j>> \in blocks \/ j = k
        /\ \A j \in Works : <<"buffer", j>> \in blocks' <=> <<"buffer", j>> \in blocks
        /\ \A j \in Works : <<"buffer_2", j>> \in blocks' =>
             <<"buffer_2", j>> \in blocks \/ (j = k /\ op = "write")
    BY <1>1
  <2>2. \A w \in Workers : worker[w].work = k => worker[w].pc \notin {"close", "signal"}
    BY <1>4 DEF Active
  <2>3. \A j \in Submitted' : Freed(j)' => j \in done'
    BY <1>1, <1>2, <2>1, Numbers DEF Owned, Freed
  <2>4. \A j \in Works : <<"work", j>> \in blocks' => j \in Submitted'
    BY <1>2, <2>1 DEF Owned
  <2>5. \A j \in Works : <<"buffer", j>> \in blocks' => j \in Submitted' /\ works'[j].op = "read"
    BY <1>2, <2>1 DEF Owned
  <2>6. \A j \in Works : <<"buffer_2", j>> \in blocks' =>
          /\ j \in Submitted' \ done' /\ works'[j].op = "write"
          /\ \A w \in Workers : worker'[w].work = j => worker'[w].pc \notin {"close", "signal"}
    <3> SUFFICES ASSUME NEW j \in Works, <<"buffer_2", j>> \in blocks'
                 PROVE  /\ j \in Submitted' \ done' /\ works'[j].op = "write"
                        /\ \A w \in Workers : worker'[w].work = j => worker'[w].pc \notin {"close", "signal"}
      OBVIOUS
    <3>1. CASE j = k /\ op = "write" BY <1>1, <1>2, <1>4, <2>2, <3>1
    <3>2. CASE <<"buffer_2", j>> \in blocks BY <1>1, <1>2, <3>2 DEF Owned
    <3> QED BY <2>1, <3>1, <3>2
  <2> QED BY <2>3, <2>4, <2>5, <2>6 DEF Owned
<1>15. Shared'
  <2>1. \A p : Spoiled(p)' = Spoiled(p) BY <1>1, <1>2, <1>4 DEF Spoiled
  <2>2. buffer[k] = Old BY <1>2 DEF Shared
  <2>3. \A v, w \in Workers :
          Transferring(v)' /\ Transferring(w)' /\ Path(v)' = Path(w)' => Op(v)' = Op(w)'
    BY <1>1, <1>5 DEF Shared, Transferring, Active
  <2>4. ASSUME NEW p \in Paths, files'[p] = Torn
        PROVE  Spoiled(p)' \/ \E w \in Workers : worker'[w].pc = "transfer" /\ Op(w)' = "write" /\ Path(w)' = p
    <3>1. ASSUME NEW w \in Workers, worker[w].pc = "transfer" PROVE Op(w)' = Op(w) /\ Path(w)' = Path(w)
      BY <1>5, <3>1 DEF Active
    <3> QED BY <1>1, <2>1, <2>4, <3>1 DEF Shared
  <2>5. ASSUME NEW j \in Submitted', works'[j].op = "read" /\ buffer'[j] = Torn
        PROVE  Spoiled(works[j].path)'
    <3>1. j # k BY <1>1, <2>2, <2>5, Numbers
    <3>2. j \in Submitted /\ works'[j] = works[j] BY <1>2, <3>1
    <3>3. Spoiled(works[j].path) BY <1>1, <2>5, <3>2 DEF Shared
    <3> QED BY <2>1, <3>2, <3>3
  <2>6. \A j \in Works : j \notin Submitted' => buffer'[j] = Old BY <1>1, <1>2 DEF Shared
  <2> QED BY <2>3, <2>4, <2>5, <2>6 DEF Shared
<1>16. Expectation'
  <2>1. expected'[k] = LastWrite(path) /\ \A j \in Submitted : expected'[j] = expected[j]
    BY <1>1, <1>2, Numbers DEF TypeOK
  <2> SUFFICES ASSUME NEW j \in Submitted' PROVE Last(expected'[j], Before(j)')
    BY DEF Expectation, Last
  <2>2. CASE j = k BY <1>6, <1>7, <2>1, <2>2
  <2>3. CASE j \in Submitted BY <1>6, <2>1, <2>3 DEF Expectation
  <2> QED BY <1>2, <2>2, <2>3
<1>17. ASSUME Careful' PROVE InOrder'
  <2>1. Careful /\ InOrder /\ use.waits BY <1>1, <1>17 DEF Careful
  <2>2. \A j \in Submitted' \ done' :
          \/ client'.pc = "push" /\ client'.work = j
          \/ \E i \in Positions(Where(j))' : queues'[Where(j)'][i] = j
          \/ worker'[Where(j)'].pc \in Active /\ worker'[Where(j)'].work = j
    <3> SUFFICES ASSUME NEW j \in Submitted \ done
                 PROVE  \/ \E i \in Positions(Where(j))' : queues'[Where(j)'][i] = j
                        \/ worker'[Where(j)'].pc \in Active /\ worker'[Where(j)'].work = j
      BY <1>1, <1>2, <1>3
    <3>1. Where(j)' = Where(j) /\ Positions(Where(j))' = Positions(Where(j))
      BY <1>1, <1>5 DEF Positions
    <3> QED BY <1>1, <2>1, <3>1 DEF InOrder
  <2>3. \A i, j \in Submitted' :
          /\ i < j /\ works'[i].path = works'[j].path
          /\ j \in done' \/ works'[j].path \in Compressed
          => i \in done'
    <3> SUFFICES ASSUME NEW i \in Submitted', NEW j \in Submitted', i < j,
                        works'[i].path = works'[j].path,
                        j \in done' \/ works'[j].path \in Compressed
                 PROVE  i \in done'
      OBVIOUS
    <3>1. CASE j \in Submitted
      <4>1. i # k
        <5>1. j < k /\ j \in Nat /\ k \in Nat BY <1>2, <3>1, Numbers
        <5> QED BY <5>1
      <4>2. i \in Submitted /\ works[i].path = works[j].path /\ works'[j] = works[j]
        BY <1>2, <3>1, <4>1
      <4> QED BY <1>1, <2>1, <3>1, <4>2 DEF InOrder
    <3>2. CASE j = k
      <4>1. i \in Submitted BY <1>2, <3>2
      <4>2. works'[i] = works[i] BY <1>2, <4>1
      <4>4. works'[j].path = path BY <1>2, <3>2
      <4>5. works'[j].path \in Compressed BY <1>1, <1>4, <3>2
      <4>3. works[i].path = path /\ path \in Compressed BY <4>2, <4>4, <4>5
      <4> QED BY <1>1, <2>1, <4>1, <4>3 DEF OnPath
    <3> QED BY <1>2, <3>1, <3>2
  <2>4. ASSUME NEW p \in Paths
        PROVE  \/ \E w \in Workers : worker'[w].pc = "transfer" /\ Op(w)' = "write" /\ Path(w)' = p
               \/ Last(files[p], {j \in Writes(p)' : Transferred(j)'})
    <3>1. {j \in Writes(p)' : Transferred(j)'} = {j \in Writes(p) : Transferred(j)}
      BY <1>5, <1>6
    <3>2. ASSUME NEW w \in Workers, worker[w].pc = "transfer" PROVE Op(w)' = Op(w) /\ Path(w)' = Path(w)
      BY <1>5, <3>2 DEF Active
    <3>3. CASE Last(files[p], {j \in Writes(p) : Transferred(j)}) BY <3>1, <3>3
    <3>4. CASE \E w \in Workers : worker[w].pc = "transfer" /\ Op(w) = "write" /\ Path(w) = p
      BY <1>1, <3>2, <3>4
    <3> QED BY <2>1, <3>3, <3>4 DEF InOrder
  <2>5. \A j \in Submitted' : works'[j].op = "read" /\ Transferred(j)' => buffer'[j] = expected'[j]
    <3> SUFFICES ASSUME NEW j \in Submitted', works'[j].op = "read", Transferred(j)'
                 PROVE  buffer'[j] = expected'[j]
      OBVIOUS
    <3>1. Transferred(j) /\ j # k BY <1>5
    <3>2. j \in Submitted /\ works'[j] = works[j] /\ j \in Works BY <1>2, <3>1, Numbers
    <3>3. expected'[j] = expected[j] BY <1>1, <3>1, <3>2 DEF TypeOK
    <3> QED BY <1>1, <2>1, <3>1, <3>2, <3>3 DEF InOrder
  <2> QED BY <1>1, <2>1, <2>2, <2>3, <2>4, <2>5 DEF InOrder, Last
<1>18. Lost'
  <2>1. ASSUME NEW j \in failed
        PROVE  /\ j \notin done' /\ client'.work # j
               /\ \A w \in Workers : \A i \in Positions(w)' : queues'[w][i] # j
               /\ \A w \in Workers : worker'[w].pc \in Active => worker'[w].work # j
    BY <1>1, <1>3, <1>4, <1>5 DEF Lost
  <2>2. ASSUME NEW j \in Submitted' \ done', works'[j].op = "write", works'[j].path \in Compressed
        PROVE  \/ <<"buffer_2", j>> \in blocks'
               \/ \E w \in Workers : worker'[w].work = j /\ worker'[w].pc \in {"close", "signal"}
    <3>1. CASE j = k
      <4>1. op = "write" /\ path \in Compressed BY <1>2, <2>2, <3>1
      <4> QED BY <1>1, <3>1, <4>1
    <3>2. CASE j # k
      <4>1. j \in Submitted \ done /\ works[j].op = "write" /\ works[j].path \in Compressed
        BY <1>1, <1>2, <2>2, <3>2
      <4> QED BY <1>1, <4>1 DEF Lost
    <3> QED BY <3>1, <3>2
  <2> QED BY <1>1, <2>1, <2>2 DEF Lost
<1> QED BY <1>11, <1>12, <1>13, <1>14, <1>15, <1>16, <1>17, <1>18
(* An item is appended to a queue: what is in it, and its capacity. *)
LEMMA PushTypes ==
  ASSUME TypeOK, NEW q \in Workers, NEW k \in Works \cup {Stop},
         Len(queues[q]) < use.capacity, queues' = [queues EXCEPT ![q] = Append(@, k)],
         use' = use
  PROVE  /\ queues' \in [Workers -> Seq(Works \cup {Stop})]
         /\ \A w \in Workers : Len(queues'[w]) <= use'.capacity
         /\ Positions(q)' = 1 .. Len(queues[q]) + 1 /\ Len(queues[q]) \in Nat
         /\ queues'[q][Len(queues[q]) + 1] = k
         /\ \A i \in Positions(q) : queues'[q][i] = queues[q][i]
         /\ \A w \in Workers : w # q => queues'[w] = queues[w] /\ Positions(w)' = Positions(w)
<1>1. queues[q] \in Seq(Works \cup {Stop}) /\ queues'[q] = Append(queues[q], k)
  BY DEF TypeOK
<1>2. /\ Len(queues[q]) \in Nat /\ queues'[q] \in Seq(Works \cup {Stop})
      /\ Len(queues'[q]) = Len(queues[q]) + 1 /\ queues'[q][Len(queues[q]) + 1] = k
      /\ \A i \in 1 .. Len(queues[q]) : queues'[q][i] = queues[q][i]
  BY <1>1
<1>3. \A w \in Workers : w # q => queues'[w] = queues[w] BY DEF TypeOK
<1>4. queues' \in [Workers -> Seq(Works \cup {Stop})] BY <1>2 DEF TypeOK
<1>5. use.capacity \in Nat BY FileSystemAssumption DEF TypeOK
<1>6. Len(queues'[q]) <= use.capacity BY <1>2, <1>5
<1>7. \A w \in Workers : Len(queues'[w]) <= use'.capacity BY <1>3, <1>6 DEF TypeOK
<1> QED BY <1>2, <1>3, <1>4, <1>7 DEF Positions

LEMMA FsPushKeeps ==
  ASSUME IInv, FsPush
  PROVE  IInv'
<1> USE DEF IInv
<1>1. PICK q \in Workers, k \in Works :
        /\ q = Where(k) /\ k = client.work /\ client.pc = "push" /\ Len(queues[q]) < use.capacity
        /\ queues' = [queues EXCEPT ![q] = Append(@, k)]
        /\ client' = [client EXCEPT !.pc = "idle", !.work = Stop]
        /\ UNCHANGED <<use, works, failed, buffer, blocks, files, expected, done, worker, destroyed>>
  <2>1. client.work \in Submitted /\ client.work \in Works /\ client.pc = "push"
    BY Numbers DEF FsPush, Located
  <2>2. Where(client.work) \in Workers BY <2>1, Numbers, Order DEF Where
  <2> QED BY <2>1, <2>2 DEF FsPush, Where, fs
<1>2. /\ k \in Submitted \ done /\ k = Len(works) /\ client.stage = 1
      /\ \A w \in Workers : \A i \in Positions(w) : queues[w][i] # k
      /\ \A w \in Workers : worker[w].pc \in Active => worker[w].work # k
  BY <1>1 DEF Located, Stopping
<1>3. \A w \in Workers : worker[w].pc # "exit" /\ \A i \in Positions(w) : queues[w][i] # Stop
  <2> SUFFICES ASSUME NEW j \in 1 .. 3
               PROVE  /\ worker[StopOrder[j]].pc # "exit"
                      /\ \A i \in Positions(StopOrder[j]) : queues[StopOrder[j]][i] # Stop
    BY Order
  <2> QED BY <1>1, <1>2 DEF Stopping
<1>4. /\ queues' \in [Workers -> Seq(Works \cup {Stop})]
      /\ \A w \in Workers : Len(queues'[w]) <= use'.capacity
      /\ Positions(q)' = 1 .. Len(queues[q]) + 1 /\ Len(queues[q]) \in Nat
      /\ queues'[q][Len(queues[q]) + 1] = k
      /\ \A i \in Positions(q) : queues'[q][i] = queues[q][i]
      /\ \A w \in Workers : w # q => queues'[w] = queues[w] /\ Positions(w)' = Positions(w)
  BY <1>1, PushTypes
<1>5. /\ \A i \in Positions(q)' : i \in Positions(q) \/ (i = Len(queues[q]) + 1 /\ queues'[q][i] = k)
      /\ \A i \in Positions(q) : i \in Positions(q)' /\ i < Len(queues[q]) + 1 /\ ~(Len(queues[q]) + 1 < i)
      /\ Len(queues[q]) + 1 \in Positions(q)'
  BY <1>4 DEF Positions
<1>6. /\ Submitted' = Submitted
      /\ \A j : Where(j)' = Where(j)
      /\ \A w : Op(w)' = Op(w) /\ Path(w)' = Path(w)
      /\ \A j : Transferred(j)' = Transferred(j)
      /\ \A p : Writes(p)' = Writes(p)
  BY <1>1 DEF Submitted, Where, Op, Path, Transferred, Writes, OnPath
<1>7. /\ client' \in [pc : {"idle", "push", "wait", "destroy", "stop", "join"},
                      work : Works \cup {Stop}, stage : 1 .. 4]
      /\ client'.pc = "idle" /\ client'.stage = 1
  BY <1>1, <1>2 DEF TypeOK
<1>8. \A j \in Submitted : j # k => j < k
  BY <1>2, Numbers DEF Submitted
<1>11. TypeOK' BY <1>1, <1>4, <1>6, <1>7 DEF TypeOK
<1>12. Located'
  <2>1. ASSUME NEW w \in Workers, NEW j \in Works, NEW i \in Positions(w)', queues'[w][i] = j
        PROVE  j \in Submitted' \ done' /\ Where(j)' = w
    <3>1. CASE w = q /\ i \notin Positions(q)
      BY <1>1, <1>2, <1>5, <1>6, <2>1, <3>1
    <3>2. CASE w # q \/ i \in Positions(q)
      <4>1. i \in Positions(w) /\ queues'[w][i] = queues[w][i] BY <1>4, <3>2
      <4> QED BY <1>1, <1>6, <2>1, <4>1 DEF Located
    <3> QED BY <3>1, <3>2
  <2>2. ASSUME NEW w \in Workers, NEW i \in Positions(w)', NEW j \in Positions(w)', i < j
        PROVE  queues'[w][i] # Stop /\ (queues'[w][j] # Stop => queues'[w][i] < queues'[w][j])
    <3>1. CASE w # q BY <1>4, <2>2, <3>1 DEF Located
    <3>2. CASE w = q /\ j \in Positions(q)
      <4>1. i \in Positions(q) BY <1>4, <1>5, <2>2, <3>2 DEF Positions
      <4> QED BY <1>4, <2>2, <3>2, <4>1 DEF Located
    <3>3. CASE w = q /\ j = Len(queues[q]) + 1
      <4>1. i \in Positions(q) BY <1>4, <2>2, <3>3 DEF Positions
      <4>2. queues'[q][i] = queues[q][i] /\ queues'[q][j] = k /\ queues[q][i] # Stop
            /\ queues[q][i] # k
        BY <1>2, <1>3, <1>4, <3>3, <4>1
      <4>3. queues[q][i] \in Works
        <5>1. queues[q] \in Seq(Works \cup {Stop}) BY DEF TypeOK
        <5>2. queues[q][i] \in Works \cup {Stop} BY <4>1, <5>1, ElementOfSeq DEF Positions
        <5> QED BY <4>2, <5>2
      <4>4. queues[q][i] \in Submitted BY <4>1, <4>3 DEF Located
      <4> QED BY <1>8, <3>3, <4>2, <4>4
    <3> QED BY <1>5, <2>2, <3>1, <3>2, <3>3
  <2>3. ASSUME NEW w \in Workers, worker'[w].pc \in Active
        PROVE  /\ worker[w].work \in Submitted' \ done' /\ Where(worker[w].work) = w
               /\ \A i \in Positions(w)' : queues'[w][i] # Stop => worker'[w].work < queues'[w][i]
    <3>1. worker[w].work \in Submitted \ done /\ Where(worker[w].work) = w /\ worker[w].work # k
      BY <1>1, <1>2, <2>3 DEF Located
    <3>2. ASSUME NEW i \in Positions(w)', queues'[w][i] # Stop PROVE worker'[w].work < queues'[w][i]
      <4>1. CASE w = q /\ i \notin Positions(q)
        <5>1. queues'[w][i] = k BY <1>5, <4>1
        <5> QED BY <1>1, <1>8, <3>1, <5>1
      <4>2. CASE w # q \/ i \in Positions(q)
        <5>1. i \in Positions(w) /\ queues'[w][i] = queues[w][i] BY <1>4, <4>2
        <5> QED BY <1>1, <2>3, <3>2, <5>1 DEF Located
      <4> QED BY <4>1, <4>2
    <3> QED BY <1>1, <1>6, <3>1, <3>2
  <2>4. \A w \in Workers : worker'[w].pc # "exit" BY <1>1, <1>3
  <2> QED BY <1>1, <1>6, <1>7, <2>1, <2>2, <2>3, <2>4 DEF Located
<1>13. Stopping'
  <2>1. \A w \in Workers : \A i \in Positions(w)' : queues'[w][i] # Stop
    <3> SUFFICES ASSUME NEW w \in Workers, NEW i \in Positions(w)' PROVE queues'[w][i] # Stop
      OBVIOUS
    <3>1. CASE w = q /\ i \notin Positions(q) BY <1>5, <3>1, Numbers
    <3>2. CASE w # q \/ i \in Positions(q) BY <1>3, <1>4, <3>2
    <3> QED BY <3>1, <3>2
  <2>2. ASSUME NEW i \in 1 .. 3
        PROVE  /\ worker'[StopOrder[i]].pc # "exit"
               /\ \A j \in Positions(StopOrder[i])' : queues'[StopOrder[i]][j] # Stop
    BY <1>1, <1>3, <2>1, Order
  <2>3. \A i \in 1 .. 3 : StopOrder[i] \in destroyed' <=> i < client'.stage
    BY <1>1, <1>2, <1>7 DEF Stopping
  <2>4. \A w \in destroyed' : worker'[w].pc = "exit" BY <1>1 DEF Stopping
  <2> QED BY <1>7, <2>2, <2>3, <2>4 DEF Stopping
<1>14. Owned' BY <1>1, <1>6 DEF Owned, Freed
<1>15. Shared' BY <1>1, <1>6 DEF Shared, Transferring, Spoiled
<1>16. Expectation' BY <1>1, <1>6 DEF Expectation, Last, Before
<1>17. ASSUME Careful' PROVE InOrder'
  <2>1. InOrder BY <1>1, <1>17 DEF Careful
  <2>2. ASSUME NEW j \in Submitted' \ done'
        PROVE  \/ \E i \in Positions(Where(j))' : queues'[Where(j)][i] = j
               \/ worker'[Where(j)].pc \in Active /\ worker'[Where(j)].work = j
    <3>0. Where(j) \in Workers BY <1>1, <1>6, Numbers, Order DEF Where
    <3>1. CASE j = k BY <1>1, <1>4, <1>5, <1>6, <3>1
    <3>2. CASE worker[Where(j)].pc \in Active /\ worker[Where(j)].work = j BY <1>1, <3>2
    <3>3. CASE \E i \in Positions(Where(j)) : queues[Where(j)][i] = j
      <4>1. PICK i \in Positions(Where(j)) : queues[Where(j)][i] = j BY <3>3
      <4>2. i \in Positions(Where(j))' /\ queues'[Where(j)][i] = j
        <5>1. Positions(Where(j))' = 1 .. Len(queues'[Where(j)]) BY <1>6 DEF Positions
        <5>2. CASE Where(j) = q BY <1>4, <1>5, <4>1, <5>1, <5>2 DEF Positions
        <5>3. CASE Where(j) # q BY <1>4, <3>0, <4>1, <5>1, <5>3 DEF Positions
        <5> QED BY <5>2, <5>3
      <4> QED BY <4>2
    <3> QED BY <1>1, <1>6, <2>1, <3>1, <3>2, <3>3 DEF InOrder
  <2>3. \A j \in Submitted' \ done' :
          \/ \E i \in Positions(Where(j))' : queues'[Where(j)'][i] = j
          \/ worker'[Where(j)'].pc \in Active /\ worker'[Where(j)'].work = j
    BY <1>6, <2>2
  <2> QED BY <1>1, <1>6, <2>1, <2>3 DEF InOrder, Last
<1>18. Lost'
  <2>1. \A j \in failed : j # k BY <1>1 DEF Lost
  <2>2. ASSUME NEW j \in failed, NEW w \in Workers, NEW i \in Positions(w)' PROVE queues'[w][i] # j
    <3>1. CASE w # q BY <1>4, <2>2, <3>1 DEF Lost
    <3>2. CASE w = q
      <4>1. CASE i \in Positions(q) BY <1>4, <2>2, <3>2, <4>1 DEF Lost
      <4>2. CASE i = Len(queues[q]) + 1 BY <1>4, <2>1, <2>2, <3>2, <4>2
      <4> QED BY <1>5, <2>2, <3>2, <4>1, <4>2
    <3> QED BY <3>1, <3>2
  <2>3. client'.pc = "idle" BY <1>1 DEF TypeOK
  <2> QED BY <1>1, <1>6, <2>2, <2>3 DEF Lost
<1> QED BY <1>11, <1>12, <1>13, <1>14, <1>15, <1>16, <1>17, <1>18
LEMMA CallKeeps ==
  ASSUME IInv,
         \/ \E k \in Submitted, call \in {"wait", "destroy"} : WorkCall(k, call)
         \/ WaitReturn \/ FsDestroy
  PROVE  IInv'
<1> USE DEF IInv
<1>1. /\ UNCHANGED <<use, fs, done, queues, worker, destroyed>>
      /\ client.pc \in {"idle", "wait"} /\ client'.pc \in {"idle", "wait", "destroy", "stop"}
      /\ client' \in [pc : {"idle", "push", "wait", "destroy", "stop", "join"},
                      work : Works \cup {Stop}, stage : 1 .. 4]
      /\ client'.stage = client.stage /\ (client'.pc = "stop" => client.stage \in 1 .. 3)
  <2>1. ASSUME NEW k \in Submitted, NEW call \in {"wait", "destroy"}, WorkCall(k, call)
        PROVE  <1>1!:
    BY <2>1, Numbers DEF WorkCall, TypeOK
  <2>2. CASE WaitReturn BY <2>2 DEF WaitReturn, TypeOK
  <2>3. CASE FsDestroy
    <3>1. /\ UNCHANGED <<use, fs, done, queues, worker, destroyed>>
          /\ client.pc = "idle" /\ client.stage = 1 /\ client' = [client EXCEPT !.pc = "stop"]
      BY <2>3 DEF FsDestroy
    <3>2. /\ client' \in [pc : {"idle", "push", "wait", "destroy", "stop", "join"},
                         work : Works \cup {Stop}, stage : 1 .. 4]
          /\ client'.pc = "stop" /\ client'.stage = client.stage
      BY <3>1 DEF TypeOK
    <3>3. 1 \in 1 .. 3 OBVIOUS
    <3> QED BY <3>1, <3>2, <3>3
  <2> QED BY <2>1, <2>2, <2>3
<1> QED BY <1>1, ClientKeeps

LEMMA DestroyReturnKeeps ==
  ASSUME IInv, DestroyReturn
  PROVE  IInv'
<1> USE DEF IInv
<1>1. PICK k \in done :
        /\ client.pc = "destroy" /\ blocks' = blocks \ {<<"work", k>>}
        /\ client' = [client EXCEPT !.pc = "idle", !.work = Stop]
        /\ UNCHANGED <<use, works, failed, buffer, files, expected, done, queues, worker, destroyed>>
  BY DEF DestroyReturn
<1>2. /\ client' \in [pc : {"idle", "push", "wait", "destroy", "stop", "join"},
                      work : Works \cup {Stop}, stage : 1 .. 4]
      /\ client'.pc = "idle" /\ client'.stage = client.stage
  BY <1>1 DEF TypeOK
<1>3. /\ Submitted' = Submitted /\ \A j : Where(j)' = Where(j)
      /\ \A w : Positions(w)' = Positions(w)
      /\ \A w : Op(w)' = Op(w) /\ Path(w)' = Path(w)
      /\ \A j : Transferred(j)' = Transferred(j)
      /\ \A p : Writes(p)' = Writes(p)
  BY <1>1 DEF Submitted, Where, Positions, Op, Path, Transferred, Writes, OnPath
<1>11. TypeOK' BY <1>1, <1>2, <1>3 DEF TypeOK
<1>12. Located' BY <1>1, <1>2, <1>3 DEF Located
<1>13. Stopping' BY <1>1, <1>2, <1>3 DEF Stopping
<1>14. Owned'
  <2>1. \A j \in Submitted : Freed(j)' => Freed(j) \/ j = k BY <1>1 DEF Freed
  <2> QED BY <1>1, <1>3, <2>1 DEF Owned
<1>15. Shared' BY <1>1, <1>3 DEF Shared, Transferring, Spoiled
<1>16. Expectation' BY <1>1, <1>3 DEF Expectation, Last, Before
<1>17. Careful' => InOrder' BY <1>1, <1>2, <1>3 DEF InOrder, Last, Careful
<1>18. Lost' BY <1>1, <1>2, <1>3 DEF Lost
<1> QED BY <1>11, <1>12, <1>13, <1>14, <1>15, <1>16, <1>17, <1>18

LEMMA StopPushKeeps ==
  ASSUME IInv, StopPush
  PROVE  IInv'
<1> USE DEF IInv
<1>1. PICK n \in 1 .. 3, q \in Workers :
        /\ n = client.stage /\ q = StopOrder[n] /\ client.pc = "stop" /\ Len(queues[q]) < use.capacity
        /\ queues' = [queues EXCEPT ![q] = Append(@, Stop)]
        /\ client' = [client EXCEPT !.pc = "join"]
        /\ UNCHANGED <<use, works, failed, buffer, blocks, files, expected, done, worker, destroyed>>
  <2>1. client.stage \in 1 .. 3 BY DEF StopPush, Stopping
  <2> QED BY <2>1, Order DEF StopPush, fs
<1>2. worker[q].pc # "exit" /\ \A i \in Positions(q) : queues[q][i] # Stop
  BY <1>1 DEF Stopping
<1>4. /\ queues' \in [Workers -> Seq(Works \cup {Stop})]
      /\ \A w \in Workers : Len(queues'[w]) <= use'.capacity
      /\ Positions(q)' = 1 .. Len(queues[q]) + 1 /\ Len(queues[q]) \in Nat
      /\ queues'[q][Len(queues[q]) + 1] = Stop
      /\ \A i \in Positions(q) : queues'[q][i] = queues[q][i]
      /\ \A w \in Workers : w # q => queues'[w] = queues[w] /\ Positions(w)' = Positions(w)
  BY <1>1, PushTypes
<1>5. /\ \A i \in Positions(q)' : i \in Positions(q) \/ (i = Len(queues[q]) + 1 /\ queues'[q][i] = Stop)
      /\ \A i \in Positions(q) : i \in Positions(q)' /\ i < Len(queues[q]) + 1 /\ ~(Len(queues[q]) + 1 < i)
  BY <1>4 DEF Positions
<1>6. /\ Submitted' = Submitted
      /\ \A j : Where(j)' = Where(j)
      /\ \A w : Op(w)' = Op(w) /\ Path(w)' = Path(w)
      /\ \A j : Transferred(j)' = Transferred(j)
      /\ \A p : Writes(p)' = Writes(p)
  BY <1>1 DEF Submitted, Where, Op, Path, Transferred, Writes, OnPath
<1>7. /\ client' \in [pc : {"idle", "push", "wait", "destroy", "stop", "join"},
                      work : Works \cup {Stop}, stage : 1 .. 4]
      /\ client'.pc = "join" /\ client'.stage = n
  BY <1>1 DEF TypeOK
<1>8. \A w \in Workers : \A i \in Positions(w)' : queues'[w][i] # Stop =>
        i \in Positions(w) /\ queues'[w][i] = queues[w][i]
  BY <1>4, <1>5
<1>11. TypeOK' BY <1>1, <1>4, <1>6, <1>7 DEF TypeOK
<1>12. Located'
  <2>1. ASSUME NEW w \in Workers, NEW j \in Works, NEW i \in Positions(w)', queues'[w][i] = j
        PROVE  j \in Submitted' \ done' /\ Where(j)' = w
    BY ZenonT(40), <1>1, <1>6, <1>8, <2>1, Numbers DEF Located
  <2>2. ASSUME NEW w \in Workers, NEW i \in Positions(w)', NEW j \in Positions(w)', i < j
        PROVE  queues'[w][i] # Stop /\ (queues'[w][j] # Stop => queues'[w][i] < queues'[w][j])
    <3>1. CASE w # q BY <1>4, <2>2, <3>1 DEF Located
    <3>2. CASE w = q
      <4>1. i \in Positions(q) BY <1>4, <1>5, <2>2, <3>2 DEF Positions
      <4>2. queues'[w][i] = queues[w][i] /\ queues[w][i] # Stop BY <1>2, <1>4, <3>2, <4>1
      <4> QED BY <1>8, <2>2, <3>2, <4>1, <4>2 DEF Located
    <3> QED BY <3>1, <3>2
  <2>3. ASSUME NEW w \in Workers, worker'[w].pc \in Active
        PROVE  \A i \in Positions(w)' : queues'[w][i] # Stop => worker'[w].work < queues'[w][i]
    BY <1>1, <1>8, <2>3 DEF Located
  <2>4. \A w \in Workers : worker'[w].pc = "exit" => worker'[w].work = Stop /\ queues'[w] = << >>
    BY <1>1, <1>2, <1>4 DEF Located
  <2> QED BY <1>1, <1>6, <1>7, <2>1, <2>2, <2>3, <2>4 DEF Located
<1>13. Stopping'
  <2>2. ASSUME NEW i \in 1 .. 3, i > n
        PROVE  /\ worker'[StopOrder[i]].pc # "exit"
               /\ \A j \in Positions(StopOrder[i])' : queues'[StopOrder[i]][j] # Stop
    <3>1. StopOrder[i] \in Workers /\ StopOrder[i] # q BY <1>1, <2>2, Order
    <3> QED BY <1>1, <1>4, <2>2, <3>1 DEF Stopping
  <2>3. \A i \in 1 .. 3 : StopOrder[i] \in destroyed' <=> i < client'.stage
    BY <1>1, <1>7 DEF Stopping
  <2>4. \A w \in destroyed' : worker'[w].pc = "exit" BY <1>1 DEF Stopping
  <2> QED BY <1>7, <2>2, <2>3, <2>4 DEF Stopping
<1>14. Owned' BY <1>1, <1>6 DEF Owned, Freed
<1>15. Shared' BY <1>1, <1>6 DEF Shared, Transferring, Spoiled
<1>16. Expectation' BY <1>1, <1>6 DEF Expectation, Last, Before
<1>17. ASSUME Careful' PROVE InOrder'
  <2>1. InOrder BY <1>1, <1>17 DEF Careful
  <2>2. ASSUME NEW j \in Submitted' \ done'
        PROVE  \/ \E i \in Positions(Where(j))' : queues'[Where(j)][i] = j
               \/ worker'[Where(j)].pc \in Active /\ worker'[Where(j)].work = j
    <3>0. Where(j) \in Workers BY <1>1, <1>6, Numbers, Order DEF Where
    <3>2. CASE worker[Where(j)].pc \in Active /\ worker[Where(j)].work = j BY <1>1, <3>2
    <3>3. CASE \E i \in Positions(Where(j)) : queues[Where(j)][i] = j
      <4>1. PICK i \in Positions(Where(j)) : queues[Where(j)][i] = j BY <3>3
      <4>2. i \in Positions(Where(j))' /\ queues'[Where(j)][i] = j
        <5>1. Positions(Where(j))' = 1 .. Len(queues'[Where(j)]) BY <1>6 DEF Positions
        <5>2. CASE Where(j) = q BY <1>4, <1>5, <4>1, <5>1, <5>2 DEF Positions
        <5>3. CASE Where(j) # q BY <1>4, <3>0, <4>1, <5>1, <5>3 DEF Positions
        <5> QED BY <5>2, <5>3
      <4> QED BY <4>2
    <3> QED BY <1>1, <1>6, <2>1, <3>2, <3>3 DEF InOrder
  <2>3. \A j \in Submitted' \ done' :
          \/ \E i \in Positions(Where(j))' : queues'[Where(j)'][i] = j
          \/ worker'[Where(j)'].pc \in Active /\ worker'[Where(j)'].work = j
    BY <1>6, <2>2
  <2> QED BY <1>1, <1>6, <2>1, <2>3 DEF InOrder, Last
<1>18. Lost'
  <2>1. \A j \in failed : j # Stop BY Numbers DEF TypeOK
  <2>2. ASSUME NEW j \in failed, NEW w \in Workers, NEW i \in Positions(w)' PROVE queues'[w][i] # j
    BY <1>8, <2>1, <2>2 DEF Lost
  <2> QED BY <1>1, <1>6, <1>7, <2>2 DEF Lost
<1> QED BY <1>11, <1>12, <1>13, <1>14, <1>15, <1>16, <1>17, <1>18

LEMMA StopJoinKeeps ==
  ASSUME IInv, StopJoin
  PROVE  IInv'
<1> USE DEF IInv
<1>1. PICK n \in 1 .. 3, q \in Workers :
        /\ n = client.stage /\ q = StopOrder[n] /\ client.pc = "join" /\ worker[q].pc = "exit"
        /\ destroyed' = destroyed \cup {q}
        /\ client' = [client EXCEPT !.stage = @ + 1, !.pc = IF n = 3 THEN "idle" ELSE "stop"]
        /\ UNCHANGED <<use, works, failed, buffer, blocks, files, expected, done, queues, worker>>
  <2>1. client.stage \in 1 .. 3 BY DEF StopJoin, Stopping
  <2> QED BY <2>1, Order DEF StopJoin, fs
<1>2. /\ client' \in [pc : {"idle", "push", "wait", "destroy", "stop", "join"},
                      work : Works \cup {Stop}, stage : 1 .. 4]
      /\ client'.stage = n + 1 /\ client'.pc = IF n = 3 THEN "idle" ELSE "stop"
  <2>1. client \in [pc : {"idle", "push", "wait", "destroy", "stop", "join"},
                      work : Works \cup {Stop}, stage : 1 .. 4]
    BY DEF TypeOK
  <2>2. client.stage + 1 \in 1 .. 4 /\ client.stage + 1 = n + 1 BY <1>1
  <2> QED BY <1>1, <2>1, <2>2
<1>3. /\ Submitted' = Submitted /\ \A j : Where(j)' = Where(j)
      /\ \A w : Positions(w)' = Positions(w)
      /\ \A w : Op(w)' = Op(w) /\ Path(w)' = Path(w)
      /\ \A j : Transferred(j)' = Transferred(j)
      /\ \A p : Writes(p)' = Writes(p)
  BY <1>1 DEF Submitted, Where, Positions, Op, Path, Transferred, Writes, OnPath
<1>11. TypeOK' BY <1>1, <1>2, <1>3 DEF TypeOK
<1>12. Located' BY <1>1, <1>2, <1>3 DEF Located
<1>13. Stopping'
  <2>1. client'.pc = "stop" => client'.stage \in 1 .. 3 BY <1>2
  <2>2. \A i \in 1 .. 3 : StopOrder[i] \in destroyed' <=> i < client'.stage
    <3> SUFFICES ASSUME NEW i \in 1 .. 3 PROVE StopOrder[i] \in destroyed' <=> i < n + 1
      BY <1>2
    <3>1. StopOrder[i] = q <=> i = n BY <1>1, Order
    <3>2. StopOrder[i] \in destroyed <=> i < n BY <1>1 DEF Stopping
    <3> QED BY <1>1, <3>1, <3>2
  <2>3. \A w \in destroyed' : worker'[w].pc = "exit" BY <1>1 DEF Stopping
  <2>4. ASSUME NEW i \in 1 .. 3, i > n
        PROVE  /\ worker'[StopOrder[i]].pc # "exit"
               /\ \A j \in Positions(StopOrder[i])' : queues'[StopOrder[i]][j] # Stop
    BY <1>1, <1>3, <2>4 DEF Stopping
  <2>5. \A i \in 1 .. 3 : i > n + 1 \/ i = n + 1 => i > n OBVIOUS
  <2> QED BY <1>2, <2>1, <2>2, <2>3, <2>4, <2>5 DEF Stopping
<1>14. Owned' BY <1>1, <1>3 DEF Owned, Freed
<1>15. Shared' BY <1>1, <1>3 DEF Shared, Transferring, Spoiled
<1>16. Expectation' BY <1>1, <1>3 DEF Expectation, Last, Before
<1>17. Careful' => InOrder' BY <1>1, <1>2, <1>3 DEF InOrder, Last, Careful
<1>18. Lost' BY <1>1, <1>2, <1>3 DEF Lost
<1> QED BY <1>11, <1>12, <1>13, <1>14, <1>15, <1>16, <1>17, <1>18
-----------------------------------------------------------------------------
(* A worker goes on to pc with the work it has. *)
LEMMA MoveFacts ==
  ASSUME TypeOK, NEW w \in Workers, NEW to \in {"pop", "transfer", "close", "signal"},
         worker' = [worker EXCEPT ![w].pc = to], UNCHANGED works
  PROVE  /\ worker' \in [Workers -> [pc : {"pop", "open", "transfer", "close", "signal", "exit"},
                                     work : Works \cup {Stop}]]
         /\ worker'[w].pc = to /\ worker'[w].work = worker[w].work
         /\ \A v \in Workers : v # w => worker'[v] = worker[v]
         /\ \A v \in Workers : worker'[v].work = worker[v].work
         /\ \A v \in Workers : Op(v)' = Op(v) /\ Path(v)' = Path(v)
         /\ Submitted' = Submitted
         /\ \A j : Where(j)' = Where(j)
         /\ \A p : Writes(p)' = Writes(p)
<1>1. /\ worker' \in [Workers -> [pc : {"pop", "open", "transfer", "close", "signal", "exit"},
                                  work : Works \cup {Stop}]]
      /\ worker'[w].pc = to /\ worker'[w].work = worker[w].work
      /\ \A v \in Workers : v # w => worker'[v] = worker[v]
  BY DEF TypeOK
<1>2. \A v \in Workers : worker'[v].work = worker[v].work BY <1>1
<1>3. \A v \in Workers : Op(v)' = Op(v) /\ Path(v)' = Path(v) BY <1>2 DEF Op, Path
<1>4. Submitted' = Submitted /\ \A j : Where(j)' = Where(j) BY DEF Submitted, Where
<1>5. \A p : Writes(p)' = Writes(p) BY <1>4 DEF Writes, OnPath
<1> QED BY <1>1, <1>2, <1>3, <1>4, <1>5

(* The work of an active worker. *)
LEMMA HeldFacts ==
  ASSUME TypeOK, Located, NEW w \in Workers, worker[w].pc \in Active
  PROVE  /\ worker[w].work \in Submitted \ done /\ worker[w].work \in Works
         /\ Op(w) \in {"read", "write"} /\ Path(w) \in Paths
         /\ Op(w) = works[worker[w].work].op /\ Path(w) = works[worker[w].work].path
         /\ Where(worker[w].work) = w
         /\ \A v \in Workers : worker[v].pc \in Active /\ worker[v].work = worker[w].work => v = w
         /\ \A v \in Workers : \A i \in Positions(v) : queues[v][i] # worker[w].work
<1>1. worker[w].work \in Submitted \ done /\ Where(worker[w].work) = w /\ worker[w].work \in Works
  BY Numbers DEF Located
<1>2. Op(w) \in {"read", "write"} /\ Path(w) \in Paths BY <1>1, Numbers DEF Op, Path
<1>3. ASSUME NEW v \in Workers, worker[v].pc \in Active, worker[v].work = worker[w].work
      PROVE  v = w
  BY <1>1, <1>3 DEF Located
<1>4. ASSUME NEW v \in Workers, NEW i \in Positions(v), queues[v][i] = worker[w].work
      PROVE  FALSE
  <2>1. v = w BY <1>1, <1>4 DEF Located
  <2>2. worker[w].work < queues[w][i] BY <1>1, <1>4, <2>1, Numbers DEF Located
  <2>3. worker[w].work \in Nat BY <1>1, Numbers
  <2> QED BY <1>4, <2>1, <2>2, <2>3
<1> QED BY <1>1, <1>2, <1>3, <1>4 DEF Op, Path

(* Careful, a worker is at a work only when those before it on the file are
   done. *)
LEMMA HeldInOrder ==
  ASSUME TypeOK, Located, InOrder, NEW w \in Workers, worker[w].pc \in Active,
         NEW j \in Submitted, j < worker[w].work, works[j].path = Path(w)
  PROVE  j \in done
<1> DEFINE k == worker[w].work
<1>1. k \in Submitted \ done /\ Where(k) = w /\ Path(w) = works[k].path
      /\ k \in Nat /\ j \in Nat
  BY HeldFacts, Numbers
<1>2. CASE Path(w) \in Compressed BY <1>1, <1>2 DEF InOrder
<1>3. CASE Path(w) \notin Compressed
  <2>1. Where(j) = w BY <1>1, <1>3 DEF Where, QueueOf
  <2> SUFFICES ASSUME j \notin done PROVE FALSE OBVIOUS
  <2>2. ~(client.pc = "push" /\ client.work = j)
    <3>1. k <= Len(works) /\ Len(works) \in Nat BY <1>1, Numbers DEF Submitted
    <3> QED BY <1>1, <3>1 DEF Located
  <2>3. ASSUME NEW i \in Positions(w), queues[w][i] = j PROVE FALSE
    <3>1. k < queues[w][i] BY <2>3, Numbers DEF Located
    <3> QED BY <1>1, <2>3, <3>1
  <2>4. worker[w].work # j BY <1>1
  <2> QED BY <2>1, <2>2, <2>3, <2>4 DEF InOrder
<1> QED BY <1>2, <1>3

(* What follows from a worker's place alone. *)
LEMMA MoveKeeps ==
  ASSUME IInv, NEW w \in Workers, worker[w].pc \in Active,
         NEW to \in {"pop", "transfer", "close", "signal"},
         worker' = [worker EXCEPT ![w].pc = to],
         UNCHANGED <<works, queues, client, destroyed>>,
         done' = done \/ (to = "pop" /\ done' = done \cup {worker[w].work})
  PROVE  Located' /\ Stopping'
<1> USE DEF IInv
<1>1. /\ worker'[w].pc = to /\ worker'[w].work = worker[w].work
      /\ \A v \in Workers : v # w => worker'[v] = worker[v]
      /\ \A v \in Workers : worker'[v].work = worker[v].work
      /\ Submitted' = Submitted
      /\ \A j : Where(j)' = Where(j)
      /\ \A v : Positions(v)' = Positions(v)
  BY MoveFacts DEF Positions
<1>2. /\ worker[w].work \in Submitted \ done
      /\ \A v \in Workers : worker[v].pc \in Active /\ worker[v].work = worker[w].work => v = w
      /\ \A v \in Workers : \A i \in Positions(v) : queues[v][i] # worker[w].work
      /\ client.pc = "push" => client.work # worker[w].work
  BY HeldFacts DEF Located
<1>3. Located'
  <2>1. ASSUME NEW v \in Workers, worker'[v].pc \in Active
        PROVE  /\ worker[v].work \in Submitted \ done' /\ Where(worker[v].work) = v
               /\ \A i \in Positions(v) : queues[v][i] # Stop => worker[v].work < queues[v][i]
    <3>1. worker[v].pc \in Active BY <1>1, <2>1
    <3>2. v = w => to # "pop" BY <1>1, <2>1 DEF Active
    <3> QED BY <1>2, <3>1, <3>2 DEF Located
  <2>2. \A v, k : \A i \in Positions(v) : queues[v][i] = k /\ v \in Workers /\ k \in Works =>
          k \in Submitted \ done' /\ Where(k) = v
    BY <1>2 DEF Located
  <2>3. client.pc = "push" => client.work \in Submitted \ done' BY <1>2 DEF Located
  <2>4. \A v \in Workers : worker'[v].pc \in Active => worker[v].pc \in Active BY <1>1
  <2>5. \A v \in Workers : worker'[v].pc = "exit" => worker[v].pc = "exit" BY <1>1
  <2> QED BY <1>1, <2>1, <2>2, <2>3, <2>4, <2>5 DEF Located
<1>4. Stopping'
  <2>1. \A v \in Workers : worker'[v].pc = "exit" <=> worker[v].pc = "exit"
    BY <1>1 DEF Active
  <2>2. destroyed \subseteq Workers BY DEF TypeOK
  <2> QED BY <1>1, <2>1, <2>2, Order DEF Stopping
<1> QED BY <1>3, <1>4
LEMMA WorkerPopKeeps ==
  ASSUME IInv, NEW w \in Workers, WorkerPop(w)
  PROVE  IInv'
<1> USE DEF IInv
<1>1. PICK k \in Works \cup {Stop} :
        /\ worker[w].pc = "pop" /\ queues[w] # << >> /\ k = Head(queues[w])
        /\ queues' = [queues EXCEPT ![w] = Tail(@)]
        /\ worker' = [worker EXCEPT ![w] = [pc |-> IF k = Stop THEN "exit" ELSE "open", work |-> k]]
        /\ UNCHANGED <<use, works, failed, buffer, blocks, files, expected, done, client, destroyed>>
  <2>1. queues[w] \in Seq(Works \cup {Stop}) BY DEF TypeOK
  <2>2. queues[w] # << >> => Head(queues[w]) \in Works \cup {Stop} BY <2>1
  <2> QED BY <2>2 DEF WorkerPop, fs
<1>2. /\ queues' \in [Workers -> Seq(Works \cup {Stop})]
      /\ 1 \in Positions(w) /\ queues[w][1] = k /\ Len(queues[w]) \in Nat
      /\ Len(queues'[w]) = Len(queues[w]) - 1
      /\ \A i \in Positions(w)' : i + 1 \in Positions(w) /\ queues'[w][i] = queues[w][i + 1]
      /\ \A v \in Workers : v # w => queues'[v] = queues[v] /\ Positions(v)' = Positions(v)
  <2>1. queues[w] \in Seq(Works \cup {Stop}) /\ queues'[w] = Tail(queues[w]) BY <1>1 DEF TypeOK
  <2>2. /\ 1 \in 1 .. Len(queues[w]) /\ queues[w][1] = k /\ Len(queues[w]) \in Nat
        /\ Len(queues'[w]) = Len(queues[w]) - 1 /\ queues'[w] \in Seq(Works \cup {Stop})
        /\ \A i \in 1 .. Len(queues'[w]) : i + 1 \in 1 .. Len(queues[w]) /\ queues'[w][i] = queues[w][i + 1]
    <3> DEFINE q == queues[w]
    <3>1. q \in Seq(Works \cup {Stop}) /\ q # << >> /\ k = Head(q) /\ queues'[w] = Tail(q) BY <1>1, <2>1
    <3>2. /\ Len(q) \in Nat /\ Len(q) # 0 /\ Tail(q) \in Seq(Works \cup {Stop})
          /\ Len(Tail(q)) = Len(q) - 1 /\ \A i \in 1 .. Len(q) - 1 : Tail(q)[i] = q[i + 1]
      <4> HIDE DEF q
      <4> QED BY <3>1, EmptySeq
    <3>3. Head(q) = q[1] BY <3>1
    <3> HIDE DEF q
    <3>4. \A i \in 1 .. Len(q) - 1 : i + 1 \in 1 .. Len(q) BY <3>2
    <3>5. 1 \in 1 .. Len(q) BY <3>2
    <3> QED BY <3>1, <3>2, <3>3, <3>4, <3>5 DEF q
  <2>3. queues' \in [Workers -> Seq(Works \cup {Stop})] BY <1>1, <2>2 DEF TypeOK
  <2>4. \A v \in Workers : v # w => queues'[v] = queues[v] BY <1>1 DEF TypeOK
  <2> QED BY <2>2, <2>3, <2>4 DEF Positions
<1>3. /\ worker' \in [Workers -> [pc : {"pop", "open", "transfer", "close", "signal", "exit"},
                                  work : Works \cup {Stop}]]
      /\ worker'[w].pc = (IF k = Stop THEN "exit" ELSE "open") /\ worker'[w].work = k
      /\ \A v \in Workers : v # w => worker'[v] = worker[v]
  BY <1>1 DEF TypeOK
<1>4. /\ Submitted' = Submitted
      /\ \A j : Where(j)' = Where(j)
      /\ \A v \in Workers : v # w => Op(v)' = Op(v) /\ Path(v)' = Path(v)
      /\ \A p : Writes(p)' = Writes(p)
      /\ \A j : Transferred(j)' <=> Transferred(j)
  <2>1. ASSUME NEW v \in Workers PROVE worker'[v].pc \in {"close", "signal"} <=> worker[v].pc \in {"close", "signal"}
    BY <1>1, <1>3
  <2>2. ASSUME NEW v \in Workers, worker[v].pc \in {"close", "signal"} PROVE worker'[v] = worker[v]
    BY <1>1, <1>3, <2>2
  <2>3. \A j : Transferred(j)' <=> Transferred(j) BY <1>1, <2>1, <2>2 DEF Transferred
  <2> QED BY <1>1, <1>3, <2>3 DEF Submitted, Where, Op, Path, Writes, OnPath
<1>5. /\ k = Stop => queues'[w] = << >>
      /\ k # Stop => k \in Submitted \ done /\ Where(k) = w /\ (client.pc = "push" => client.work # k)
      /\ \A i \in Positions(w)' : queues'[w][i] # Stop => k < queues'[w][i]
  <2>1. ASSUME NEW i \in Positions(w)'
        PROVE  k # Stop /\ (queues'[w][i] # Stop => k < queues'[w][i])
    <3>1. 1 < i + 1 /\ i + 1 \in Positions(w) /\ queues'[w][i] = queues[w][i + 1]
      BY <1>2 DEF Positions
    <3> QED BY <1>2, <3>1 DEF Located
  <2>2. k = Stop => Len(queues'[w]) = 0
    <3>1. Len(queues'[w]) \in Nat BY <1>2
    <3>2. Len(queues'[w]) # 0 => 1 \in Positions(w)' BY <3>1 DEF Positions
    <3> QED BY <2>1, <3>1, <3>2
  <2>3. queues'[w] \in Seq(Works \cup {Stop}) BY <1>2
  <2>4. k # Stop => k \in Works BY <1>1
  <2> QED BY <1>2, <2>1, <2>2, <2>3, <2>4, EmptySeq DEF Located
<1>6. \A v \in Workers : \A j : \A i \in Positions(v)' : queues'[v][i] = j =>
        \E n \in Positions(v) : queues[v][n] = j
  BY <1>2
<1>11. TypeOK'
  <2>1. Len(queues'[w]) <= use.capacity
    <3>1. use.capacity \in Nat BY FileSystemAssumption DEF TypeOK
    <3> QED BY <1>2, <3>1 DEF TypeOK
  <2> QED BY <1>1, <1>2, <1>3, <1>4, <2>1 DEF TypeOK
<1>12. Located'
  <2>1. ASSUME NEW v \in Workers, NEW j \in Works, NEW i \in Positions(v)', queues'[v][i] = j
        PROVE  j \in Submitted' \ done' /\ Where(j)' = v
    BY <1>1, <1>4, <1>6, <2>1 DEF Located
  <2>2. ASSUME NEW v \in Workers, NEW i \in Positions(v)', NEW j \in Positions(v)', i < j
        PROVE  queues'[v][i] # Stop /\ (queues'[v][j] # Stop => queues'[v][i] < queues'[v][j])
    <3>1. CASE v # w BY <1>2, <2>2, <3>1 DEF Located
    <3>2. CASE v = w
      <4>1. i + 1 \in Positions(w) /\ j + 1 \in Positions(w) /\ i + 1 < j + 1
        BY <1>2, <2>2, <3>2 DEF Positions
      <4> QED BY <1>2, <3>2, <4>1 DEF Located
    <3> QED BY <3>1, <3>2
  <2>3. ASSUME NEW v \in Workers, worker'[v].pc \in Active
        PROVE  /\ worker'[v].work \in Submitted \ done /\ Where(worker'[v].work) = v
               /\ \A i \in Positions(v)' : queues'[v][i] # Stop => worker'[v].work < queues'[v][i]
               /\ client.pc = "push" => worker'[v].work # client.work
    <3>1. CASE v = w BY <1>3, <1>5, <2>3, <3>1 DEF Active
    <3>2. CASE v # w BY <1>2, <1>3, <2>3, <3>2 DEF Located
    <3> QED BY <3>1, <3>2
  <2>4. \A v \in Workers : worker'[v].pc = "exit" => worker'[v].work = Stop /\ queues'[v] = << >>
    BY <1>2, <1>3, <1>5 DEF Located
  <2>5. client.pc = "push" => \A v \in Workers : \A i \in Positions(v)' : queues'[v][i] # client.work
    BY <1>6 DEF Located
  <2>6. \A v \in Workers : worker'[v].pc \in Active =>
          /\ worker'[v].work \in Submitted' \ done' /\ Where(worker[v].work)' = v
          /\ \A i \in Positions(v)' : queues'[v][i] # Stop => worker'[v].work < queues'[v][i]
    BY <1>1, <1>4, <2>3
  <2>7. client'.pc = "push" =>
          /\ client'.work = Len(works') /\ client'.work \in Submitted' \ done'
          /\ \A v \in Workers : \A i \in Positions(v)' : queues'[v][i] # client'.work
          /\ \A v \in Workers : worker'[v].pc \in Active => worker'[v].work # client'.work
    <3>1. client.pc = "push" => client.work = Len(works) /\ client.work \in Submitted \ done
      BY DEF Located
    <3> QED BY <1>1, <1>4, <2>3, <2>5, <3>1
  <2> QED BY <2>1, <2>2, <2>4, <2>6, <2>7 DEF Located
<1>13. Stopping'
  <2>1. ASSUME NEW i \in 1 .. 3, i > client.stage \/ (i = client.stage /\ client.pc # "join")
        PROVE  /\ worker'[StopOrder[i]].pc # "exit"
               /\ \A j \in Positions(StopOrder[i])' : queues'[StopOrder[i]][j] # Stop
    <3>1. /\ worker[StopOrder[i]].pc # "exit" /\ StopOrder[i] \in Workers
          /\ \A j \in Positions(StopOrder[i]) : queues[StopOrder[i]][j] # Stop
      BY <2>1, Order DEF Stopping
    <3>2. CASE StopOrder[i] = w
      <4>1. k # Stop BY <1>2, <3>1, <3>2
      <4> QED BY <1>2, <1>3, <3>1, <3>2, <4>1
    <3>3. CASE StopOrder[i] # w BY <1>2, <1>3, <3>1, <3>3
    <3> QED BY <3>2, <3>3
  <2>2. \A v \in destroyed' : worker'[v].pc = "exit"
    <3>1. destroyed \subseteq Workers BY DEF TypeOK
    <3> QED BY <1>1, <1>3, <3>1 DEF Stopping
  <2> QED BY <1>1, <2>1, <2>2 DEF Stopping
<1>14. Owned'
  <2>1. ASSUME NEW v \in Workers, NEW j \in Works, worker'[v].work = j,
               \A u \in Workers : worker[u].work = j => worker[u].pc \notin {"close", "signal"}
        PROVE  worker'[v].pc \notin {"close", "signal"}
    BY <1>3, <2>1
  <2> QED BY <1>1, <1>4, <2>1 DEF Owned, Freed
<1>15. Shared'
  <2>1. \A v \in Workers : Transferring(v)' => v # w /\ Transferring(v)
    BY <1>1, <1>3 DEF Transferring
  <2>2. \A p : Spoiled(p)' = Spoiled(p) BY <1>1 DEF Spoiled
  <2>3. \A v \in Workers : worker[v].pc = "transfer" => v # w /\ worker'[v].pc = "transfer"
    BY <1>1, <1>3
  <2>4. \A v, u \in Workers :
          Transferring(v)' /\ Transferring(u)' /\ Path(v)' = Path(u)' => Op(v)' = Op(u)'
    BY <1>4, <2>1 DEF Shared
  <2>5. ASSUME NEW p \in Paths, files'[p] = Torn
        PROVE  Spoiled(p)' \/ \E v \in Workers : worker'[v].pc = "transfer" /\ Op(v)' = "write" /\ Path(v)' = p
    BY <1>1, <1>4, <2>2, <2>3, <2>5 DEF Shared
  <2> QED BY <1>1, <1>4, <2>2, <2>4, <2>5 DEF Shared
<1>16. Expectation' BY <1>1, <1>4 DEF Expectation, Last, Before
<1>17. ASSUME Careful' PROVE InOrder'
  <2>1. InOrder BY <1>1, <1>17 DEF Careful
  <2>2. ASSUME NEW j \in Submitted \ done, ~(client.pc = "push" /\ client.work = j)
        PROVE  \/ \E i \in Positions(Where(j))' : queues'[Where(j)][i] = j
               \/ worker'[Where(j)].pc \in Active /\ worker'[Where(j)].work = j
    <3>0. Where(j) \in Workers /\ j # Stop BY Numbers, Order DEF Where
    <3>4. Positions(Where(j))' = 1 .. Len(queues'[Where(j)]) BY <1>4 DEF Positions
    <3>1. CASE worker[Where(j)].pc \in Active /\ worker[Where(j)].work = j
      <4>1. Where(j) # w BY <1>1, <3>1 DEF Active
      <4> QED BY <1>3, <3>0, <3>1, <4>1
    <3>2. CASE \E i \in Positions(Where(j)) : queues[Where(j)][i] = j
      <4>1. PICK i \in Positions(Where(j)) : queues[Where(j)][i] = j BY <3>2
      <4>2. CASE Where(j) # w BY <1>2, <3>0, <3>4, <4>1, <4>2 DEF Positions
      <4>3. CASE Where(j) = w /\ i = 1
        <5>1. k = j BY <1>2, <4>1, <4>3
        <5> QED BY <1>3, <3>0, <4>3, <5>1 DEF Active
      <4>4. CASE Where(j) = w /\ i # 1
        <5>1. i - 1 \in 1 .. Len(queues'[w]) /\ (i - 1) + 1 = i BY <1>2, <4>1, <4>4 DEF Positions
        <5>2. i - 1 \in Positions(w)' BY <5>1 DEF Positions
        <5>3. queues'[w][i - 1] = j BY <1>2, <4>1, <4>4, <5>1, <5>2
        <5> QED BY <3>4, <4>4, <5>1, <5>3
      <4> QED BY <4>2, <4>3, <4>4
    <3> QED BY <2>1, <2>2, <3>1, <3>2 DEF InOrder
  <2>3. \A j \in Submitted' \ done' :
          \/ client'.pc = "push" /\ client'.work = j
          \/ \E i \in Positions(Where(j))' : queues'[Where(j)'][i] = j
          \/ worker'[Where(j)'].pc \in Active /\ worker'[Where(j)'].work = j
    BY <1>1, <1>4, <2>2
  <2>4. ASSUME NEW p \in Paths
        PROVE  \/ \E v \in Workers : worker'[v].pc = "transfer" /\ Op(v)' = "write" /\ Path(v)' = p
               \/ Last(files[p], {j \in Writes(p) : Transferred(j)})
    <3>1. \A v \in Workers : worker[v].pc = "transfer" => v # w /\ worker'[v].pc = "transfer"
      BY <1>1, <1>3
    <3> QED BY <1>4, <2>1, <3>1 DEF InOrder
  <2>5. \A p : {j \in Writes(p)' : Transferred(j)'} = {j \in Writes(p) : Transferred(j)} BY <1>4
  <2> QED BY <1>1, <1>4, <2>1, <2>3, <2>4, <2>5 DEF InOrder, Last
<1>18. Lost'
  <2>1. ASSUME NEW j \in failed
        PROVE  /\ \A v \in Workers : \A i \in Positions(v)' : queues'[v][i] # j
               /\ \A v \in Workers : worker'[v].pc \in Active => worker'[v].work # j
    <3>1. k # j BY <1>2 DEF Lost
    <3>2. ASSUME NEW v \in Workers, NEW i \in Positions(v)' PROVE queues'[v][i] # j
      BY <1>2, <3>2 DEF Lost
    <3>3. \A v \in Workers : worker'[v].pc \in Active => worker'[v].work # j
      BY <1>3, <3>1 DEF Lost
    <3> QED BY <3>2, <3>3
  <2>2. \A v \in Workers : worker[v].pc \in {"close", "signal"} => worker'[v] = worker[v]
    BY <1>1, <1>3
  <2>3. ASSUME NEW j \in Submitted \ done, works[j].op = "write", works[j].path \in Compressed
        PROVE  \/ <<"buffer_2", j>> \in blocks
               \/ \E v \in Workers : worker'[v].work = j /\ worker'[v].pc \in {"close", "signal"}
    BY <2>2, <2>3 DEF Lost
  <2>4. \A j \in failed : j \notin done /\ (client.pc = "push" => client.work # j) BY DEF Lost
  <2>5. Submitted' = Submitted BY <1>1 DEF Submitted
  <2> QED BY <1>1, <2>1, <2>3, <2>4, <2>5 DEF Lost
<1> QED BY <1>11, <1>12, <1>13, <1>14, <1>15, <1>16, <1>17, <1>18
LEMMA FileOpenKeeps ==
  ASSUME IInv, NEW w \in Workers, FileOpen(w)
  PROVE  IInv'
<1> USE DEF IInv
<1>1. PICK k \in Submitted \ done :
        /\ k = worker[w].work /\ k \in Works /\ worker[w].pc = "open"
        /\ worker' = [worker EXCEPT ![w].pc = "transfer"]
        /\ Sharable(w)
        /\ files' = IF Op(w) = "write" THEN [files EXCEPT ![Path(w)] = Torn] ELSE files
        /\ blocks' = IF Op(w) = "read" THEN blocks \cup {<<"buffer", k>>} ELSE blocks
        /\ UNCHANGED <<use, works, failed, buffer, expected, done, queues, client, destroyed>>
  BY HeldFacts DEF FileOpen, Goto, Active
<1>2. /\ Op(w) \in {"read", "write"} /\ Path(w) \in Paths
      /\ Op(w) = works[k].op /\ Path(w) = works[k].path
  BY <1>1, HeldFacts DEF Active
<1>3. /\ worker' \in [Workers -> [pc : {"pop", "open", "transfer", "close", "signal", "exit"},
                                  work : Works \cup {Stop}]]
      /\ worker'[w].pc = "transfer"
      /\ \A v \in Workers : v # w => worker'[v] = worker[v]
      /\ \A v \in Workers : worker'[v].work = worker[v].work
      /\ \A v \in Workers : Op(v)' = Op(v) /\ Path(v)' = Path(v)
      /\ Submitted' = Submitted
      /\ \A j : Where(j)' = Where(j)
      /\ \A p : Writes(p)' = Writes(p)
  BY <1>1, MoveFacts
<1>4. Located' /\ Stopping' BY <1>1, MoveKeeps DEF Active
<1>5. \A j : Transferred(j)' <=> Transferred(j)
  <2>1. \A v \in Workers : worker'[v].pc \in {"close", "signal"} <=> worker[v].pc \in {"close", "signal"}
    BY <1>1, <1>3
  <2> QED BY <1>1, <1>3, <2>1 DEF Transferred
<1>6. /\ \A v \in Workers : Transferring(v)' => Transferring(v) \/ v = w
      /\ \A v \in Workers : worker[v].pc = "transfer" => worker'[v].pc = "transfer"
  BY <1>1, <1>3 DEF Transferring
<1>7. /\ files' \in [Paths -> Data] /\ \A p \in Paths : p # Path(w) => files'[p] = files[p]
      /\ Op(w) = "read" => files' = files
  BY <1>1, <1>2, FileSystemAssumption DEF TypeOK, Data, Torn
<1>11. TypeOK'
  <2>1. blocks' \subseteq {"work", "buffer", "buffer_2"} \X Works BY <1>1 DEF TypeOK
  <2> QED BY <1>1, <1>3, <1>7, <2>1 DEF TypeOK
<1>14. Owned'
  <2>1. /\ \A j : <<"work", j>> \in blocks' <=> <<"work", j>> \in blocks
        /\ \A j : <<"buffer_2", j>> \in blocks' <=> <<"buffer_2", j>> \in blocks
        /\ \A j : <<"buffer", j>> \in blocks' => <<"buffer", j>> \in blocks \/ (j = k /\ works[k].op = "read")
    BY <1>1, <1>2
  <2>2. \A v \in Workers : worker'[v].pc \in {"close", "signal"} => worker[v].pc \in {"close", "signal"}
    BY <1>3
  <2>3. \A j \in Submitted' : Freed(j)' => j \in done' BY <1>1, <1>3, <2>1 DEF Owned, Freed
  <2>4. \A j \in Works : <<"work", j>> \in blocks' => j \in Submitted' BY <1>3, <2>1 DEF Owned
  <2>5. \A j \in Works : <<"buffer", j>> \in blocks' => j \in Submitted' /\ works'[j].op = "read"
    BY <1>1, <1>3, <2>1 DEF Owned
  <2>6. \A j \in Works : <<"buffer_2", j>> \in blocks' =>
          /\ j \in Submitted' \ done' /\ works'[j].op = "write"
          /\ \A v \in Workers : worker'[v].work = j => worker'[v].pc \notin {"close", "signal"}
    BY <1>1, <1>3, <2>1, <2>2 DEF Owned
  <2> QED BY <2>3, <2>4, <2>5, <2>6 DEF Owned
<1>15. Shared'
  <2>1. \A p : Spoiled(p)' = Spoiled(p) BY <1>1 DEF Spoiled
  <2>2. ASSUME NEW v \in Workers, Transferring(v), Path(v) = Path(w) PROVE Op(v) = Op(w)
    <3>1. Op(v) \in {"read", "write"} BY <2>2, HeldFacts DEF Transferring, Active
    <3>2. v \notin Open(IF Op(w) = "read" THEN "write" ELSE "read", Path(w)) BY <1>1 DEF Sharable
    <3> QED BY <1>2, <2>2, <3>1, <3>2 DEF Open, Transferring
  <2>3. \A u, v \in Workers :
          Transferring(u)' /\ Transferring(v)' /\ Path(u)' = Path(v)' => Op(u)' = Op(v)'
    BY <1>3, <1>6, <2>2 DEF Shared
  <2>4. ASSUME NEW p \in Paths, files'[p] = Torn
        PROVE  Spoiled(p)' \/ \E v \in Workers : worker'[v].pc = "transfer" /\ Op(v)' = "write" /\ Path(v)' = p
    <3>1. CASE Op(w) = "write" /\ p = Path(w) BY <1>3, <3>1
    <3>2. CASE ~(Op(w) = "write" /\ p = Path(w))
      <4>1. files[p] = Torn BY <1>2, <1>7, <2>4, <3>2
      <4> QED BY <1>3, <1>6, <2>1, <4>1 DEF Shared
    <3> QED BY <3>1, <3>2
  <2> QED BY <1>1, <1>3, <2>1, <2>3, <2>4 DEF Shared
<1>16. Expectation' BY <1>1, <1>3 DEF Expectation, Last, Before
<1>17. ASSUME Careful' PROVE InOrder'
  <2>1. InOrder BY <1>1, <1>17 DEF Careful
  <2>2. \A v \in Workers : worker[v].pc \in Active => worker'[v].pc \in Active BY <1>1, <1>3 DEF Active
  <2>3. \A j \in Submitted' \ done' :
          \/ client'.pc = "push" /\ client'.work = j
          \/ \E i \in Positions(Where(j))' : queues'[Where(j)'][i] = j
          \/ worker'[Where(j)'].pc \in Active /\ worker'[Where(j)'].work = j
    <3> SUFFICES ASSUME NEW j \in Submitted \ done, ~(client.pc = "push" /\ client.work = j)
                 PROVE  \/ \E i \in Positions(Where(j)) : queues[Where(j)][i] = j
                        \/ worker'[Where(j)].pc \in Active /\ worker'[Where(j)].work = j
      BY <1>1, <1>3 DEF Positions
    <3>1. Where(j) \in Workers BY Numbers, Order DEF Where
    <3> QED BY <1>3, <2>1, <2>2, <3>1 DEF InOrder
  <2>4. ASSUME NEW p \in Paths
        PROVE  \/ \E v \in Workers : worker'[v].pc = "transfer" /\ Op(v)' = "write" /\ Path(v)' = p
               \/ Last(files'[p], {j \in Writes(p) : Transferred(j)})
    <3>1. CASE Op(w) = "write" /\ p = Path(w) BY <1>3, <3>1
    <3>2. CASE ~(Op(w) = "write" /\ p = Path(w))
      <4>1. files'[p] = files[p] BY <1>2, <1>7, <3>2
      <4> QED BY <1>3, <1>6, <2>1, <4>1 DEF InOrder
    <3> QED BY <3>1, <3>2
  <2>5. \A p : {j \in Writes(p)' : Transferred(j)'} = {j \in Writes(p) : Transferred(j)} BY <1>3, <1>5
  <2>6. \A p \in Paths :
          \/ \E v \in Workers : worker'[v].pc = "transfer" /\ Op(v)' = "write" /\ Path(v)' = p
          \/ Last(files'[p], {j \in Writes(p)' : Transferred(j)'})
    BY <2>4, <2>5
  <2> QED BY <1>1, <1>3, <1>5, <2>1, <2>3, <2>6 DEF InOrder, Last
<1>18. Lost'
  <2>1. \A v \in Workers : worker'[v].pc \in Active => worker[v].pc \in Active BY <1>1, <1>3 DEF Active
  <2>2. \A v \in Workers : \A j : worker[v].work = j /\ worker[v].pc \in {"close", "signal"} =>
          worker'[v].work = j /\ worker'[v].pc \in {"close", "signal"}
    BY <1>1, <1>3
  <2>3. \A v \in Workers : Positions(v)' = Positions(v) BY <1>1 DEF Positions
  <2> QED BY <1>1, <1>3, <2>1, <2>2, <2>3 DEF Lost
<1> QED BY <1>4, <1>11, <1>14, <1>15, <1>16, <1>17, <1>18

LEMMA FileCloseKeeps ==
  ASSUME IInv, NEW w \in Workers, FileClose(w)
  PROVE  IInv'
<1> USE DEF IInv
<1>1. /\ worker[w].pc = "close" /\ worker' = [worker EXCEPT ![w].pc = "signal"]
      /\ UNCHANGED <<use, works, failed, buffer, blocks, files, expected, done, queues, client, destroyed>>
  BY DEF FileClose, Goto, fs
<1>3. /\ worker' \in [Workers -> [pc : {"pop", "open", "transfer", "close", "signal", "exit"},
                                  work : Works \cup {Stop}]]
      /\ worker'[w].pc = "signal"
      /\ \A v \in Workers : v # w => worker'[v] = worker[v]
      /\ \A v \in Workers : worker'[v].work = worker[v].work
      /\ \A v \in Workers : Op(v)' = Op(v) /\ Path(v)' = Path(v)
      /\ Submitted' = Submitted
      /\ \A j : Where(j)' = Where(j)
      /\ \A p : Writes(p)' = Writes(p)
  BY <1>1, MoveFacts
<1>4. Located' /\ Stopping' BY <1>1, MoveKeeps DEF Active
<1>5. /\ \A v \in Workers : worker'[v].pc \in {"close", "signal"} <=> worker[v].pc \in {"close", "signal"}
      /\ \A v \in Workers : worker'[v].pc = "transfer" <=> worker[v].pc = "transfer"
      /\ \A v \in Workers : worker'[v].pc \in Active <=> worker[v].pc \in Active
      /\ \A v \in Workers : Transferring(v)' => Transferring(v)
  BY <1>1, <1>3 DEF Active, Transferring
<1>6. \A j : Transferred(j)' <=> Transferred(j) BY <1>1, <1>3, <1>5 DEF Transferred
<1>11. TypeOK' BY <1>1, <1>3 DEF TypeOK
<1>14. Owned' BY <1>1, <1>3, <1>5 DEF Owned, Freed
<1>15. Shared'
  <2>1. \A p : Spoiled(p)' = Spoiled(p) BY <1>1 DEF Spoiled
  <2> QED BY <1>1, <1>3, <1>5, <2>1 DEF Shared
<1>16. Expectation' BY <1>1, <1>3 DEF Expectation, Last, Before
<1>17. ASSUME Careful' PROVE InOrder'
  <2>1. InOrder BY <1>1, <1>17 DEF Careful
  <2>3. \A j \in Submitted' \ done' :
          \/ client'.pc = "push" /\ client'.work = j
          \/ \E i \in Positions(Where(j))' : queues'[Where(j)'][i] = j
          \/ worker'[Where(j)'].pc \in Active /\ worker'[Where(j)'].work = j
    <3> SUFFICES ASSUME NEW j \in Submitted \ done, ~(client.pc = "push" /\ client.work = j)
                 PROVE  \/ \E i \in Positions(Where(j)) : queues[Where(j)][i] = j
                        \/ worker'[Where(j)].pc \in Active /\ worker'[Where(j)].work = j
      BY <1>1, <1>3 DEF Positions
    <3>1. Where(j) \in Workers BY Numbers, Order DEF Where
    <3> QED BY <1>3, <1>5, <2>1, <3>1 DEF InOrder
  <2>5. \A p : {j \in Writes(p)' : Transferred(j)'} = {j \in Writes(p) : Transferred(j)} BY <1>3, <1>6
  <2>6. \A p \in Paths :
          \/ \E v \in Workers : worker'[v].pc = "transfer" /\ Op(v)' = "write" /\ Path(v)' = p
          \/ Last(files'[p], {j \in Writes(p)' : Transferred(j)'})
    <3>1. ASSUME NEW p \in Paths
          PROVE  \/ \E v \in Workers : worker[v].pc = "transfer" /\ Op(v) = "write" /\ Path(v) = p
                 \/ Last(files[p], {j \in Writes(p) : Transferred(j)})
      BY <2>1 DEF InOrder
    <3>2. files' = files BY <1>1
    <3> QED BY <1>3, <1>5, <2>5, <3>1, <3>2
  <2> QED BY <1>1, <1>3, <1>6, <2>1, <2>3, <2>6 DEF InOrder, Last
<1>18. Lost'
  <2>1. \A v \in Workers : worker'[v].pc \in Active => worker[v].pc \in Active BY <1>1, <1>3 DEF Active
  <2>2. \A v \in Workers : \A j : worker[v].work = j /\ worker[v].pc \in {"close", "signal"} =>
          worker'[v].work = j /\ worker'[v].pc \in {"close", "signal"}
    BY <1>1, <1>3
  <2>3. \A v \in Workers : Positions(v)' = Positions(v) BY <1>1 DEF Positions
  <2> QED BY <1>1, <1>3, <2>1, <2>2, <2>3 DEF Lost
<1> QED BY <1>4, <1>11, <1>14, <1>15, <1>16, <1>17, <1>18
(* Careful, what is transferred of a file is what comes before the work that a
   worker transfers next. *)
LEMMA TransferredBefore ==
  ASSUME TypeOK, Located, InOrder, NEW w \in Workers, worker[w].pc = "transfer",
         NEW j \in Submitted, works[j].path = Path(w)
  PROVE  Transferred(j) <=> j < worker[w].work
<1> DEFINE k == worker[w].work
<1>1. k \in Submitted \ done /\ k \in Nat /\ j \in Nat /\ works[k].path = Path(w)
  BY HeldFacts, Numbers DEF Active
<1>2. ASSUME j < k PROVE Transferred(j)
  <2>1. j \in done BY <1>2, HeldInOrder DEF Active
  <2> QED BY <2>1 DEF Transferred
<1>3. ASSUME Transferred(j), ~(j < k) PROVE FALSE
  <2>1. j # k
    <3>1. ASSUME NEW v \in Workers, worker[v].pc \in {"close", "signal"}, worker[v].work = k PROVE FALSE
      BY <3>1, HeldFacts DEF Active
    <3> QED BY <1>1, <1>3, <3>1 DEF Transferred
  <2>2. k < j BY <1>1, <1>3, <2>1
  <2>3. CASE j \in done BY <1>1, <2>2, <2>3 DEF InOrder
  <2>4. CASE j \notin done
    <3>1. PICK v \in Workers : worker[v].work = j /\ worker[v].pc \in {"close", "signal"}
      BY <1>3, <2>4 DEF Transferred
    <3>2. worker[v].pc \in Active /\ k < worker[v].work /\ works[k].path = Path(v)
      BY <1>1, <2>2, <3>1 DEF Active, Path
    <3>3. k \in Submitted /\ k \notin done BY <1>1
    <3> HIDE DEF k
    <3> QED BY <3>2, <3>3, HeldInOrder
  <2> QED BY <2>3, <2>4
<1> QED BY <1>2, <1>3

(* There is one last of some works. *)
LEMMA OneLast ==
  ASSUME NEW S, S \subseteq Nat, NEW a, NEW b, Last(a, S), Last(b, S)
  PROVE  a = b
<1>1. CASE S = {} BY <1>1 DEF Last
<1>2. CASE S # {}
  <2>1. a \in Nat /\ b \in Nat /\ a <= b /\ b <= a BY <1>2 DEF Last
  <2> QED BY <2>1
<1> QED BY <1>1, <1>2

LEMMA FileTransferKeeps ==
  ASSUME IInv, NEW w \in Workers, FileTransfer(w)
  PROVE  IInv'
<1> USE DEF IInv
<1>1. PICK k \in Submitted \ done :
        /\ k = worker[w].work /\ k \in Works /\ worker[w].pc = "transfer"
        /\ worker' = [worker EXCEPT ![w].pc = "close"]
        /\ IF Op(w) = "read"
             THEN /\ buffer' = [buffer EXCEPT ![k] = files[Path(w)]]
                  /\ UNCHANGED <<files, blocks>>
             ELSE /\ files' = [files EXCEPT ![Path(w)] = k]
                  /\ blocks' = blocks \ {<<"buffer_2", k>>}
                  /\ UNCHANGED buffer
        /\ UNCHANGED <<use, works, failed, expected, done, queues, client, destroyed>>
  BY HeldFacts DEF FileTransfer, Goto, Active
<1>2. /\ Op(w) \in {"read", "write"} /\ Path(w) \in Paths
      /\ Op(w) = works[k].op /\ Path(w) = works[k].path
      /\ \A v \in Workers : worker[v].pc \in Active /\ worker[v].work = k => v = w
  BY <1>1, HeldFacts DEF Active
<1>3. /\ worker' \in [Workers -> [pc : {"pop", "open", "transfer", "close", "signal", "exit"},
                                  work : Works \cup {Stop}]]
      /\ worker'[w].pc = "close"
      /\ \A v \in Workers : v # w => worker'[v] = worker[v]
      /\ \A v \in Workers : worker'[v].work = worker[v].work
      /\ \A v \in Workers : Op(v)' = Op(v) /\ Path(v)' = Path(v)
      /\ Submitted' = Submitted
      /\ \A j : Where(j)' = Where(j)
      /\ \A p : Writes(p)' = Writes(p)
  BY <1>1, MoveFacts
<1>4. Located' /\ Stopping' BY <1>1, MoveKeeps DEF Active
<1>5. /\ \A v \in Workers : v # w => worker'[v].pc = worker[v].pc
      /\ \A v \in Workers : worker'[v].pc \in Active <=> worker[v].pc \in Active
      /\ \A v \in Workers : Transferring(v)' => Transferring(v)
  BY <1>1, <1>3 DEF Active, Transferring
<1>6. \A j : Transferred(j)' <=> Transferred(j) \/ j = k
  <2>1. \A v \in Workers : worker'[v].pc \in {"close", "signal"} <=> worker[v].pc \in {"close", "signal"} \/ v = w
    BY <1>1, <1>3
  <2> QED BY <1>1, <1>3, <2>1 DEF Transferred
<1>7. /\ Op(w) = "write" => buffer' = buffer
      /\ Op(w) = "read" => files' = files
      /\ Op(w) = "read" => buffer'[k] = files[Path(w)]
      /\ Op(w) = "write" => files'[Path(w)] = k
      /\ \A j \in Works : j # k => buffer'[j] = buffer[j]
      /\ \A p \in Paths : p # Path(w) => files'[p] = files[p]
      /\ files' \in [Paths -> Data] /\ buffer' \in [Works -> Data]
      /\ blocks' \subseteq blocks /\ (Op(w) = "write" => <<"buffer_2", k>> \notin blocks')
      /\ \A b \in blocks : b \in blocks' \/ b = <<"buffer_2", k>>
  <2>1. k \in Data /\ \A p \in Paths : files[p] \in Data
    BY <1>1, Numbers, FileSystemAssumption DEF TypeOK, Data, Works
  <2> QED BY <1>1, <1>2, <2>1 DEF TypeOK
<1>11. TypeOK' BY <1>1, <1>3, <1>7 DEF TypeOK
<1>14. Owned'
  <2>1. \A j : <<"work", j>> \in blocks' <=> <<"work", j>> \in blocks BY <1>7
  <2>2. \A j \in Submitted' : Freed(j)' => j \in done' BY <1>1, <1>3, <2>1 DEF Owned, Freed
  <2>3. \A j \in Works : <<"work", j>> \in blocks' => j \in Submitted' BY <1>3, <2>1 DEF Owned
  <2>4. \A j \in Works : <<"buffer", j>> \in blocks' => j \in Submitted' /\ works'[j].op = "read"
    BY <1>1, <1>3, <1>7 DEF Owned
  <2>5. ASSUME NEW j \in Works, <<"buffer_2", j>> \in blocks'
        PROVE  /\ j \in Submitted' \ done' /\ works'[j].op = "write"
               /\ \A v \in Workers : worker'[v].work = j => worker'[v].pc \notin {"close", "signal"}
    <3>1. <<"buffer_2", j>> \in blocks BY <1>7, <2>5
    <3>2. works[j].op = "write" /\ j \in Submitted \ done BY <3>1 DEF Owned
    <3>3. j # k BY <1>2, <1>7, <2>5, <3>2
    <3>4. \A v \in Workers : worker[v].work = j => worker[v].pc \notin {"close", "signal"}
      BY <3>1 DEF Owned
    <3> QED BY <1>1, <1>3, <3>2, <3>3, <3>4
  <2> QED BY <2>2, <2>3, <2>4, <2>5 DEF Owned
<1>15. Shared'
  <2>1. \A p : Spoiled(p)' = Spoiled(p) BY <1>1 DEF Spoiled
  <2>2. \A u, v \in Workers :
          Transferring(u)' /\ Transferring(v)' /\ Path(u)' = Path(v)' => Op(u)' = Op(v)'
    BY <1>3, <1>5 DEF Shared
  <2>3. ASSUME NEW p \in Paths, files'[p] = Torn
        PROVE  Spoiled(p)' \/ \E v \in Workers : worker'[v].pc = "transfer" /\ Op(v)' = "write" /\ Path(v)' = p
    <3>1. ~(Op(w) = "write" /\ p = Path(w)) BY <1>1, <1>7, <2>3, Numbers
    <3>2. files[p] = Torn BY <1>2, <1>7, <2>3, <3>1
    <3>3. Spoiled(p) \/ \E v \in Workers : worker[v].pc = "transfer" /\ Op(v) = "write" /\ Path(v) = p
      BY <3>2 DEF Shared
    <3> QED BY <1>3, <1>5, <2>1, <3>1, <3>3
  <2>4. ASSUME NEW j \in Submitted, works[j].op = "read", buffer'[j] = Torn PROVE Spoiled(works[j].path)
    <3>1. CASE j # k BY <1>7, <2>4, <3>1, Numbers DEF Shared
    <3>2. CASE j = k
      <4>1. files[Path(w)] = Torn /\ Op(w) = "read" BY <1>2, <1>7, <2>4, <3>2
      <4>2. ASSUME NEW v \in Workers, worker[v].pc = "transfer", Op(v) = "write", Path(v) = Path(w)
            PROVE  FALSE
        BY <1>1, <4>1, <4>2 DEF Shared, Transferring
      <4> QED BY <1>2, <3>2, <4>1, <4>2 DEF Shared
    <3> QED BY <3>1, <3>2
  <2>5. \A j \in Submitted' : works'[j].op = "read" /\ buffer'[j] = Torn => Spoiled(works[j].path)'
    BY <1>1, <1>3, <2>1, <2>4
  <2>6. \A j \in Works : j \notin Submitted' => buffer'[j] = Old BY <1>3, <1>7 DEF Shared
  <2> QED BY <2>2, <2>3, <2>5, <2>6 DEF Shared
<1>16. Expectation' BY <1>1, <1>3 DEF Expectation, Last, Before
<1>17. ASSUME Careful' PROVE InOrder'
  <2>1. InOrder BY <1>1, <1>17 DEF Careful
  <2>2. \A j \in Submitted : works[j].path = Path(w) => (Transferred(j) <=> j < k)
    BY <1>1, <2>1, TransferredBefore
  <2>3. \A j \in Submitted' \ done' :
          \/ client'.pc = "push" /\ client'.work = j
          \/ \E i \in Positions(Where(j))' : queues'[Where(j)'][i] = j
          \/ worker'[Where(j)'].pc \in Active /\ worker'[Where(j)'].work = j
    <3> SUFFICES ASSUME NEW j \in Submitted \ done, ~(client.pc = "push" /\ client.work = j)
                 PROVE  \/ \E i \in Positions(Where(j)) : queues[Where(j)][i] = j
                        \/ worker'[Where(j)].pc \in Active /\ worker'[Where(j)].work = j
      BY <1>1, <1>3 DEF Positions
    <3>1. Where(j) \in Workers BY Numbers, Order DEF Where
    <3> QED BY <1>3, <1>5, <2>1, <3>1 DEF InOrder
  <2>4. ASSUME NEW p \in Paths
        PROVE  \/ \E v \in Workers : worker'[v].pc = "transfer" /\ Op(v)' = "write" /\ Path(v)' = p
               \/ Last(files'[p], {j \in Writes(p) : Transferred(j) \/ j = k})
    <3>1. CASE Op(w) = "write" /\ p = Path(w)
      <4>1. k \in Writes(p) BY <1>1, <1>2, <3>1 DEF Writes, OnPath
      <4>2. ASSUME NEW j \in Writes(p), Transferred(j) \/ j = k PROVE j <= k
        <5>1. j \in Submitted /\ works[j].path = p BY DEF Writes, OnPath
        <5>2. j \in Nat /\ k \in Nat BY <1>1, <5>1, Numbers
        <5>3. j < k \/ j = k BY <2>2, <3>1, <4>2, <5>1
        <5> QED BY <5>2, <5>3
      <4>3. Last(k, {j \in Writes(p) : Transferred(j) \/ j = k}) BY <4>1, <4>2 DEF Last
      <4> QED BY <1>7, <3>1, <4>3
    <3>2. CASE ~(Op(w) = "write" /\ p = Path(w))
      <4>1. files'[p] = files[p] BY <1>2, <1>7, <3>2
      <4>2. k \notin Writes(p) BY <1>2, <3>2 DEF Writes, OnPath
      <4>3. {j \in Writes(p) : Transferred(j) \/ j = k} = {j \in Writes(p) : Transferred(j)}
        BY <4>2
      <4>4. \/ \E v \in Workers : worker[v].pc = "transfer" /\ Op(v) = "write" /\ Path(v) = p
            \/ Last(files[p], {j \in Writes(p) : Transferred(j)})
        BY <2>1 DEF InOrder
      <4> QED BY <1>3, <1>5, <3>2, <4>1, <4>3, <4>4
    <3> QED BY <3>1, <3>2
  <2>5. \A p : {j \in Writes(p)' : Transferred(j)'} = {j \in Writes(p) : Transferred(j) \/ j = k}
    BY <1>3, <1>6
  <2>6. \A p \in Paths :
          \/ \E v \in Workers : worker'[v].pc = "transfer" /\ Op(v)' = "write" /\ Path(v)' = p
          \/ Last(files'[p], {j \in Writes(p)' : Transferred(j)'})
    BY <2>4, <2>5
  <2>7. ASSUME Op(w) = "read" PROVE buffer'[k] = expected[k]
    <3>1. ~ \E v \in Workers : worker[v].pc = "transfer" /\ Op(v) = "write" /\ Path(v) = Path(w)
      BY <1>1, <2>7 DEF Shared, Transferring
    <3>2. Last(files[Path(w)], {j \in Writes(Path(w)) : Transferred(j)}) BY <1>2, <2>1, <3>1 DEF InOrder
    <3>3. {j \in Writes(Path(w)) : Transferred(j)} = Before(k)
      BY <1>2, <2>2 DEF Before, Writes, OnPath
    <3>4. Last(expected[k], Before(k)) BY <1>1 DEF Expectation
    <3>5. Before(k) \subseteq Nat BY Numbers DEF Before, Writes, OnPath
    <3> QED BY <1>7, <2>7, <3>2, <3>3, <3>4, <3>5, OneLast
  <2>8. ASSUME NEW j \in Submitted, works[j].op = "read", Transferred(j)' PROVE buffer'[j] = expected[j]
    <3>1. CASE j = k BY <1>2, <2>7, <2>8, <3>1
    <3>2. CASE j # k BY <1>6, <1>7, <2>1, <2>8, <3>2, Numbers DEF InOrder
    <3> QED BY <3>1, <3>2
  <2> QED BY <1>1, <1>3, <2>1, <2>3, <2>6, <2>8 DEF InOrder, Last
<1>18. Lost'
  <2>1. \A v \in Workers : worker'[v].pc \in Active => worker[v].pc \in Active BY <1>5
  <2>2. \A v \in Workers : \A j : worker[v].work = j /\ worker[v].pc \in {"close", "signal"} =>
          worker'[v].work = j /\ worker'[v].pc \in {"close", "signal"}
    BY <1>1, <1>3
  <2>3. \A v \in Workers : Positions(v)' = Positions(v) BY <1>1 DEF Positions
  <2>4. ASSUME NEW j \in Submitted \ done, works[j].op = "write", works[j].path \in Compressed
        PROVE  \/ <<"buffer_2", j>> \in blocks'
               \/ \E v \in Workers : worker'[v].work = j /\ worker'[v].pc \in {"close", "signal"}
    <3>1. CASE j = k BY <1>1, <1>3, <3>1
    <3>2. CASE j # k
      <4>1. <<"buffer_2", j>> # <<"buffer_2", k>> BY <3>2
      <4> QED BY <1>7, <2>2, <2>4, <4>1 DEF Lost
    <3> QED BY <3>1, <3>2
  <2>5. \A j \in failed' :
          /\ j \notin done'
          /\ client'.pc = "push" => client'.work # j
          /\ \A v \in Workers : \A i \in Positions(v)' : queues'[v][i] # j
          /\ \A v \in Workers : worker'[v].pc \in Active => worker'[v].work # j
    BY <1>1, <1>3, <2>1, <2>3 DEF Lost
  <2> QED BY <1>1, <1>3, <2>4, <2>5 DEF Lost
<1> QED BY <1>4, <1>11, <1>14, <1>15, <1>16, <1>17, <1>18
LEMMA WorkSignalKeeps ==
  ASSUME IInv, NEW w \in Workers, WorkSignal(w)
  PROVE  IInv'
<1> USE DEF IInv
<1>1. PICK k \in Submitted \ done :
        /\ k = worker[w].work /\ k \in Works /\ worker[w].pc = "signal"
        /\ worker' = [worker EXCEPT ![w].pc = "pop"]
        /\ done' = done \cup {k}
        /\ UNCHANGED <<use, works, failed, buffer, blocks, files, expected, queues, client, destroyed>>
  BY HeldFacts DEF WorkSignal, Goto, Active, fs
<1>2. Path(w) = works[k].path BY <1>1, HeldFacts DEF Active
<1>3. /\ worker' \in [Workers -> [pc : {"pop", "open", "transfer", "close", "signal", "exit"},
                                  work : Works \cup {Stop}]]
      /\ worker'[w].pc = "pop"
      /\ \A v \in Workers : v # w => worker'[v] = worker[v]
      /\ \A v \in Workers : worker'[v].work = worker[v].work
      /\ \A v \in Workers : Op(v)' = Op(v) /\ Path(v)' = Path(v)
      /\ Submitted' = Submitted
      /\ \A j : Where(j)' = Where(j)
      /\ \A p : Writes(p)' = Writes(p)
  BY <1>1, MoveFacts
<1>4. Located' /\ Stopping' BY <1>1, MoveKeeps DEF Active
<1>5. /\ \A v \in Workers : worker'[v].pc = "transfer" <=> worker[v].pc = "transfer"
      /\ \A v \in Workers : worker'[v].pc \in {"close", "signal"} => worker[v].pc \in {"close", "signal"}
      /\ \A v \in Workers : worker[v].pc \in {"close", "signal"} => v = w \/ worker'[v].pc \in {"close", "signal"}
      /\ \A v \in Workers : worker[v].pc \in Active => v = w \/ worker'[v].pc \in Active
      /\ \A v \in Workers : Transferring(v)' => Transferring(v)
  BY <1>1, <1>3 DEF Active, Transferring
<1>6. \A j : Transferred(j)' <=> Transferred(j) BY <1>1, <1>3, <1>5 DEF Transferred
<1>11. TypeOK' BY <1>1, <1>3 DEF TypeOK
<1>14. Owned'
  <2>1. <<"buffer_2", k>> \notin blocks BY <1>1 DEF Owned
  <2>2. \A j \in Works : <<"buffer_2", j>> \in blocks' =>
          /\ j \in Submitted' \ done' /\ works'[j].op = "write"
          /\ \A v \in Workers : worker'[v].work = j => worker'[v].pc \notin {"close", "signal"}
    BY <1>1, <1>3, <1>5, <2>1 DEF Owned
  <2>3. \A j \in Submitted' : Freed(j)' => j \in done' BY <1>1, <1>3 DEF Owned, Freed
  <2> QED BY <1>1, <1>3, <2>2, <2>3 DEF Owned
<1>15. Shared'
  <2>1. \A p : Spoiled(p)' = Spoiled(p) BY <1>1 DEF Spoiled
  <2> QED BY <1>1, <1>3, <1>5, <2>1 DEF Shared
<1>16. Expectation' BY <1>1, <1>3 DEF Expectation, Last, Before
<1>17. ASSUME Careful' PROVE InOrder'
  <2>1. InOrder BY <1>1, <1>17 DEF Careful
  <2>2. \A j \in Submitted' \ done' :
          \/ client'.pc = "push" /\ client'.work = j
          \/ \E i \in Positions(Where(j))' : queues'[Where(j)'][i] = j
          \/ worker'[Where(j)'].pc \in Active /\ worker'[Where(j)'].work = j
    <3> SUFFICES ASSUME NEW j \in Submitted \ done, j # k, ~(client.pc = "push" /\ client.work = j)
                 PROVE  \/ \E i \in Positions(Where(j)) : queues[Where(j)][i] = j
                        \/ worker'[Where(j)].pc \in Active /\ worker'[Where(j)].work = j
      BY <1>1, <1>3 DEF Positions
    <3>1. Where(j) \in Workers BY Numbers, Order DEF Where
    <3> QED BY <1>1, <1>3, <1>5, <2>1, <3>1 DEF InOrder
  <2>3. \A i, j \in Submitted' :
          /\ i < j /\ works'[i].path = works'[j].path
          /\ j \in done' \/ works'[j].path \in Compressed
          => i \in done'
    <3> SUFFICES ASSUME NEW i \in Submitted, NEW j \in Submitted, i < j,
                        works[i].path = works[j].path,
                        j \in done' \/ works[j].path \in Compressed
                 PROVE  i \in done
      BY <1>1, <1>3
    <3>1. CASE j = k BY <1>1, <1>2, <2>1, <3>1, HeldInOrder DEF Active
    <3>2. CASE j # k BY <1>1, <2>1, <3>2 DEF InOrder
    <3> QED BY <3>1, <3>2
  <2>4. \A p : {j \in Writes(p)' : Transferred(j)'} = {j \in Writes(p) : Transferred(j)} BY <1>3, <1>6
  <2>5. \A p \in Paths :
          \/ \E v \in Workers : worker'[v].pc = "transfer" /\ Op(v)' = "write" /\ Path(v)' = p
          \/ Last(files'[p], {j \in Writes(p)' : Transferred(j)'})
    <3>1. ASSUME NEW p \in Paths
          PROVE  \/ \E v \in Workers : worker[v].pc = "transfer" /\ Op(v) = "write" /\ Path(v) = p
                 \/ Last(files[p], {j \in Writes(p) : Transferred(j)})
      BY <2>1 DEF InOrder
    <3>2. files' = files BY <1>1
    <3> QED BY <1>3, <1>5, <2>4, <3>1, <3>2
  <2> QED BY <1>1, <1>3, <1>6, <2>1, <2>2, <2>3, <2>5 DEF InOrder, Last
<1>18. Lost'
  <2>1. \A v \in Workers : worker'[v].pc \in Active => worker[v].pc \in Active BY <1>1, <1>3 DEF Active
  <2>2. \A j \in failed : j # k BY <1>1 DEF Lost, Active
  <2>3. \A v \in Workers : Positions(v)' = Positions(v) BY <1>1 DEF Positions
  <2>4. \A v \in Workers : \A j : worker[v].work = j /\ worker[v].pc \in {"close", "signal"} /\ j # k =>
          worker'[v].work = j /\ worker'[v].pc \in {"close", "signal"}
    BY <1>1, <1>3
  <2> QED BY <1>1, <1>3, <2>1, <2>2, <2>3, <2>4 DEF Lost
<1> QED BY <1>4, <1>11, <1>14, <1>15, <1>16, <1>17, <1>18

(* Careful, the file that a worker opens is not open for the other operation. *)
LEMMA OpensWhenCareful ==
  ASSUME TypeOK, Located, InOrder, NEW w \in Workers, worker[w].pc = "open"
  PROVE  Sharable(w)
<1> SUFFICES ASSUME NEW v \in Open(IF Op(w) = "read" THEN "write" ELSE "read", Path(w)) PROVE FALSE
  BY DEF Sharable
<1> DEFINE j == worker[v].work
           k == worker[w].work
<1>1. v \in Workers /\ v # w /\ worker[v].pc \in Active /\ worker[w].pc \in Active /\ Path(v) = Path(w)
  BY DEF Open, Active
<1>2. /\ j \in Submitted \ done /\ Where(j) = v /\ works[j].path = Path(w)
      /\ k \in Submitted \ done /\ Where(k) = w /\ works[k].path = Path(w)
      /\ j # k /\ j \in Nat /\ k \in Nat
  BY <1>1, HeldFacts, Numbers
<1>3. j < k \/ k < j BY <1>2
<1>4. j \notin done /\ k \notin done /\ j \in Submitted /\ k \in Submitted BY <1>2
<1>5. CASE j < k BY <1>1, <1>2, <1>4, <1>5, HeldInOrder
<1>6. CASE k < j BY <1>1, <1>2, <1>4, <1>6, HeldInOrder
<1> QED BY <1>3, <1>5, <1>6

LEMMA WorkFailKeeps ==
  ASSUME IInv, NEW w \in Workers, WorkFail(w)
  PROVE  IInv'
<1> USE DEF IInv
<1>1. PICK k \in Submitted \ done :
        /\ k = worker[w].work /\ k \in Works /\ worker[w].pc \in {"open", "transfer"}
        /\ use.faults \/ (worker[w].pc = "open" /\ ~Sharable(w))
        /\ worker' = [worker EXCEPT ![w].pc = "pop"]
        /\ failed' = failed \cup {k}
        /\ UNCHANGED <<use, works, done, buffer, blocks, files, expected, queues, client, destroyed>>
  BY HeldFacts DEF WorkFail, Active
<1>2. Path(w) = works[k].path /\ Op(w) = works[k].op BY <1>1, HeldFacts DEF Active
<1>3. /\ worker' \in [Workers -> [pc : {"pop", "open", "transfer", "close", "signal", "exit"},
                                  work : Works \cup {Stop}]]
      /\ worker'[w].pc = "pop"
      /\ \A v \in Workers : v # w => worker'[v] = worker[v]
      /\ \A v \in Workers : worker'[v].work = worker[v].work
      /\ \A v \in Workers : Op(v)' = Op(v) /\ Path(v)' = Path(v)
      /\ Submitted' = Submitted
      /\ \A j : Where(j)' = Where(j)
      /\ \A p : Writes(p)' = Writes(p)
  BY <1>1, MoveFacts
<1>4. Located' /\ Stopping' BY <1>1, MoveKeeps DEF Active
<1>5. /\ \A v \in Workers : worker[v].pc = "transfer" => v = w \/ worker'[v].pc = "transfer"
      /\ \A v \in Workers : worker'[v].pc \in {"close", "signal"} => worker[v].pc \in {"close", "signal"}
      /\ \A v \in Workers : Transferring(v)' => Transferring(v)
  BY <1>1, <1>3 DEF Transferring
<1>11. TypeOK' BY <1>1, <1>3 DEF TypeOK
<1>14. Owned'
  <2>2. \A j \in Works : <<"buffer_2", j>> \in blocks' =>
          /\ j \in Submitted' \ done' /\ works'[j].op = "write"
          /\ \A v \in Workers : worker'[v].work = j => worker'[v].pc \notin {"close", "signal"}
    BY <1>1, <1>3, <1>5 DEF Owned
  <2>3. \A j \in Submitted' : Freed(j)' => j \in done' BY <1>1, <1>3 DEF Owned, Freed
  <2> QED BY <1>1, <1>3, <2>2, <2>3 DEF Owned
<1>15. Shared'
  <2>1. \A p : Spoiled(p) => Spoiled(p)' BY <1>1 DEF Spoiled
  <2>2. ASSUME NEW p \in Paths, files'[p] = Torn
        PROVE  Spoiled(p)' \/ \E v \in Workers : worker'[v].pc = "transfer" /\ Op(v)' = "write" /\ Path(v)' = p
    <3>1. Spoiled(p) \/ \E v \in Workers : worker[v].pc = "transfer" /\ Op(v) = "write" /\ Path(v) = p
      BY <1>1, <2>2 DEF Shared
    <3>2. Op(w) = "write" /\ Path(w) = p => Spoiled(p)' BY <1>1, <1>2 DEF Spoiled
    <3> QED BY <1>3, <1>5, <2>1, <3>1, <3>2
  <2>3. \A u, v \in Workers :
          Transferring(u)' /\ Transferring(v)' /\ Path(u)' = Path(v)' => Op(u)' = Op(v)'
    BY <1>3, <1>5 DEF Shared
  <2>4. \A j \in Submitted : works[j].op = "read" /\ buffer[j] = Torn => Spoiled(works[j].path)'
    BY <1>1, <2>1 DEF Shared
  <2>5. \A j \in Works : j \notin Submitted => buffer[j] = Old BY DEF Shared
  <2> QED BY <1>1, <1>3, <2>2, <2>3, <2>4, <2>5 DEF Shared
<1>16. Expectation' BY <1>1, <1>3 DEF Expectation, Last, Before
<1>17. ASSUME Careful' PROVE InOrder'
  <2>1. InOrder /\ ~use.faults BY <1>1, <1>17 DEF Careful
  <2>2. worker[w].pc = "open" /\ ~Sharable(w) BY <1>1, <2>1
  <2> QED BY <2>1, <2>2, OpensWhenCareful
<1>18. Lost'
  <2>1. \A v \in Workers : worker'[v].pc \in Active => worker[v].pc \in Active /\ v # w
    BY <1>1, <1>3 DEF Active
  <2>2. \A v \in Workers : worker[v].pc \in {"close", "signal"} => worker'[v] = worker[v]
    BY <1>1, <1>3
  <2>3. \A v \in Workers : Positions(v)' = Positions(v) BY <1>1 DEF Positions
  <2>4. /\ k \notin done /\ (client.pc = "push" => client.work # k)
        /\ \A v \in Workers : \A i \in Positions(v) : queues[v][i] # k
        /\ \A v \in Workers : worker'[v].pc \in Active => worker'[v].work # k
    <3>1. worker[w].pc \in Active BY <1>1 DEF Active
    <3> QED BY <1>1, <1>3, <2>1, <3>1, HeldFacts DEF Located
  <2>5. ASSUME NEW j \in failed'
        PROVE  /\ j \notin done'
               /\ client'.pc = "push" => client'.work # j
               /\ \A v \in Workers : \A i \in Positions(v)' : queues'[v][i] # j
               /\ \A v \in Workers : worker'[v].pc \in Active => worker'[v].work # j
    <3>1. CASE j = k BY <1>1, <2>3, <2>4, <3>1
    <3>2. CASE j \in failed BY <1>1, <1>3, <2>1, <2>3, <3>2 DEF Lost
    <3> QED BY <1>1, <3>1, <3>2
  <2> QED BY <1>1, <1>3, <2>2, <2>5 DEF Lost
<1> QED BY <1>4, <1>11, <1>14, <1>15, <1>16, <1>17, <1>18
-----------------------------------------------------------------------------
LEMMA NextKeeps ==
  ASSUME IInv, [Next]_vars
  PROVE  IInv'
<1>1. CASE \E path \in Paths, op \in {"read", "write"} : FsSubmit(op, path) BY <1>1, FsSubmitKeeps
<1>2. CASE \E k \in Submitted, call \in {"wait", "destroy"} : WorkCall(k, call) BY <1>2, CallKeeps
<1>3. CASE FsDestroy BY <1>3, CallKeeps
<1>4. CASE InCall
  BY <1>4, FsPushKeeps, CallKeeps, DestroyReturnKeeps, StopPushKeeps, StopJoinKeeps DEF InCall
<1>5. CASE \E w \in Workers : Worker(w)
  BY <1>5, WorkerPopKeeps, FileOpenKeeps, FileTransferKeeps, FileCloseKeeps, WorkSignalKeeps,
     WorkFailKeeps DEF Worker
<1>6. CASE UNCHANGED vars
  <2> USE <1>6 DEF vars, fs, IInv
  <2>1. /\ Submitted' = Submitted /\ \A k : Where(k)' = Where(k)
        /\ \A w : Positions(w)' = Positions(w)
        /\ \A w : Op(w)' = Op(w) /\ Path(w)' = Path(w)
        /\ \A k : Transferred(k)' = Transferred(k)
        /\ \A p : Writes(p)' = Writes(p)
    BY DEF Submitted, Where, Positions, Op, Path, Transferred, Writes, OnPath
  <2>2. TypeOK' BY <2>1 DEF TypeOK
  <2>3. Located' BY <2>1 DEF Located
  <2>4. Stopping' BY <2>1 DEF Stopping
  <2>5. Owned' BY <2>1 DEF Owned, Freed
  <2>9. Lost' BY <2>1 DEF Lost
  <2>6. Shared' BY <2>1 DEF Shared, Transferring, Spoiled
  <2>7. Expectation' BY <2>1 DEF Expectation, Last, Before
  <2>8. Careful' => InOrder' BY <2>1 DEF InOrder, Last, Careful
  <2> QED BY <2>2, <2>3, <2>4, <2>5, <2>6, <2>7, <2>8, <2>9
<1> QED BY <1>1, <1>2, <1>3, <1>4, <1>5, <1>6 DEF Next

LEMMA Invariance == Spec => []IInv
BY InitHolds, NextKeeps, PTL DEF Spec

(* Every variable keeps its type: in particular the client and the workers keep
   to the states that fs.c has, and no queue exceeds its capacity. *)
THEOREM TypeCorrect == Spec => []TypeOK
<1>1. IInv => TypeOK BY DEF IInv
<1> QED BY <1>1, Invariance, PTL

(* For any number of files, works and uses: what a careful client reads is what
   it wrote last before it submitted the read, whichever threads do the two and
   though it may not have waited for the write of a plain file (homework2_test
   compares the two). *)
THEOREM ReadsHoldTheLastWrite == Spec => []ReadsLastWrite
<1>1. IInv => ReadsLastWrite BY DEF IInv, InOrder, ReadsLastWrite, Transferred, TypeOK
<1> QED BY <1>1, Invariance, PTL

(* Reads and writes of one file never overlap, even of a careless client and
   when system calls fail: a read never holds a part of a write, unless that
   write failed (the sharing modes of CreateFile in fs.c). *)
THEOREM ReadsAreWhole == Spec => []WholeReads
<1>1. IInv => WholeReads BY DEF IInv, Shared, WholeReads, Spoiled, TypeOK
<1> QED BY <1>1, Invariance, PTL

(* fs_work_destroy and fs_destroy free nothing that a worker still uses. *)
THEOREM NothingUsedAfterDestroy == Spec => []NoUseAfterDestroy
<1>1. ASSUME IInv PROVE NoUseAfterDestroy
  <2> USE <1>1 DEF IInv
  <2>1. ASSUME NEW k \in Submitted, Freed(k), NEW w \in Workers
        PROVE  /\ k \notin {queues[w][i] : i \in 1 .. Len(queues[w])}
               /\ worker[w].work = k => worker[w].pc = "pop"
    <3>1. k \in done /\ k \in Works /\ k # Stop BY <2>1, Numbers DEF Owned
    <3>2. \A i \in Positions(w) : queues[w][i] # k BY <3>1 DEF Located
    <3>3. worker[w].pc \in {"pop", "open", "transfer", "close", "signal", "exit"} BY DEF TypeOK
    <3>4. worker[w].work = k => worker[w].pc \notin Active /\ worker[w].pc # "exit"
      BY <3>1 DEF Located
    <3> QED BY <3>2, <3>3, <3>4 DEF Positions, Active
  <2>2. \A w \in destroyed : worker[w].pc = "exit" /\ queues[w] = << >>
    BY DEF Stopping, Located, TypeOK
  <2> QED BY <2>1, <2>2 DEF NoUseAfterDestroy
<1> QED BY <1>1, Invariance, PTL

(* The error paths of file_read and file_write leak, and only they: a work that
   is done leaves itself for fs_work_destroy and a read's buffer for the caller;
   one that failed is never freed, and a compressed write's buffer_2 neither,
   whatever the client does afterwards. *)
THEOREM OnlyFailuresLeak == Spec => []LeaksAreFailures
<1>1. ASSUME IInv, NEW k \in done
      PROVE  Held(k) \subseteq {"work"} \cup (IF works[k].op = "read" THEN {"buffer"} ELSE {})
  <2> USE <1>1 DEF IInv
  <2>1. k \in Works BY Numbers DEF TypeOK
  <2>2. "buffer_2" \notin Held(k) BY <2>1 DEF Owned, Held
  <2>3. "buffer" \in Held(k) => works[k].op = "read" BY <2>1 DEF Owned, Held
  <2>4. Held(k) \subseteq {"work", "buffer", "buffer_2"} BY DEF Held
  <2> QED BY <2>2, <2>3, <2>4
<1>2. ASSUME IInv, NEW k \in failed
      PROVE  "work" \in Held(k) /\ (QueueOf(works[k].op, works[k].path) = "compress" => "buffer_2" \in Held(k))
  <2> USE <1>2 DEF IInv
  <2>1. k \in Submitted /\ k \notin done BY DEF TypeOK, Lost
  <2>2. "work" \in Held(k) BY <2>1 DEF Owned, Freed, Held
  <2>3. ASSUME QueueOf(works[k].op, works[k].path) = "compress" PROVE "buffer_2" \in Held(k)
    <3>1. works[k].op = "write" /\ works[k].path \in Compressed BY <2>1, <2>3, Numbers DEF QueueOf
    <3>2. <<"buffer_2", k>> \in blocks BY <2>1, <3>1 DEF Lost, Active
    <3> QED BY <3>2 DEF Held
  <2> QED BY <2>2, <2>3
<1>3. IInv => LeaksAreFailures BY <1>1, <1>2 DEF LeaksAreFailures
<1> QED BY <1>3, Invariance, PTL
=============================================================================
