---------------------------- MODULE TraceProofs ----------------------------
(***************************************************************************)
(* Proofs about Trace and the heap under it, for any threads, blocks,      *)
(* sizes and amount of memory.                                             *)
(***************************************************************************)
EXTENDS Trace, FiniteSetTheorems, TLAPS

(* Blocks are in arenas that there are, and calls are of blocks. *)
Placed ==
  /\ Len(arenas) <= limit
  /\ ~destroyed => \A b \in Blocks : blocks[b] <= Len(arenas)
  /\ \A t \in Callers : call[t].pc # "idle" => call[t].block \in Blocks

(* A thread inside TLSF owns the mutex, and whoever owns it more often than the
   calls it is in has met the end of memory. *)
Locked ==
  /\ \A t \in Inside : mutex.owner = t
  /\ mutex.owner = None <=> mutex.count = 0
  /\ mutex.count > (IF mutex.owner \in Inside THEN 1 ELSE 0) => Len(arenas) >= limit \/ destroyed

(* After heap_destroy, which has reported what was in use, no one calls. *)
Settled ==
  destroyed => reported = InUse /\ \A t \in Callers : call[t].pc = "idle"

HeapInv == HeapTypeOK /\ Placed /\ Locked /\ Settled

(* What the heap needs of the threads that use it: their calls are of blocks,
   none is left in a call when it ends. *)
Using ==
  /\ stage \in 1 .. 20
  /\ at \in [Callers -> {"idle", "call", "event", "name", "store", "queue", "acquire", "pop",
                         "release", "end", "done"}]
  /\ event \in [Callers -> Events \cup {Uninit}]
  /\ pushed \in [Callers -> Nat]
  /\ \A t \in Callers : at[t] = "event" => event[t] \in Events
  /\ \A t \in Callers : at[t] = "done" => call[t].pc = "idle"
  /\ at[Main] # "done"
  /\ at[Main] = "call" => Program[stage][1] \in {"alloc", "free"}

IInv == HeapInv /\ Using
-----------------------------------------------------------------------------
(* The sets of blocks that the definitions of the properties name. *)
LEMMA Containment ==
  ASSUME HeapInv
  PROVE  HeapSound
<1>1. HeapExclusive
  <2>1. mutex.owner # None => mutex.count > 0
    BY DEF HeapInv, Locked, HeapTypeOK
  <2> QED BY <2>1 DEF HeapInv, Locked, HeapExclusive
<1>2. LeaksReported BY DEF HeapInv, Settled, LeaksReported
<1> QED BY <1>1, <1>2 DEF HeapSound

(* heap_alloc and heap_free are called. *)
LEMMA CallKeeps ==
  ASSUME HeapInv, NEW t \in Callers, NEW op \in {"alloc", "free"}, NEW b \in Blocks,
         HeapCall(t, op, b)
  PROVE  HeapInv'
<1> USE DEF HeapInv, HeapCall, heap
<1>1. call' \in [Callers -> [pc : {"idle", "lock", "work"}, op : {"alloc", "free"},
                           block : Blocks \cup {None}, result : Blocks \cup {None}]]
  BY DEF HeapTypeOK
<1>2. HeapTypeOK' BY <1>1 DEF HeapTypeOK
<1>3. Placed' BY DEF Placed, HeapTypeOK
<1>4. Inside' = Inside BY DEF Inside, HeapTypeOK
<1>5. Locked' BY <1>4 DEF Locked
<1>6. Settled' BY DEF Settled
<1> QED BY <1>2, <1>3, <1>5, <1>6

(* The mutex is locked. *)
LEMMA LockKeeps ==
  ASSUME HeapInv, NEW t \in Callers, HeapLock(t)
  PROVE  HeapInv'
<1> USE HeapAssumption DEF HeapInv, HeapLock
<1>1. call' \in [Callers -> [pc : {"idle", "lock", "work"}, op : {"alloc", "free"},
                           block : Blocks \cup {None}, result : Blocks \cup {None}]]
  BY ZenonT(40) DEF HeapTypeOK
<1>2. HeapTypeOK' BY <1>1 DEF HeapTypeOK
<1>3. Placed' BY DEF Placed, HeapTypeOK
<1>4. Inside = {} /\ Inside' = {t} BY DEF Inside, HeapTypeOK, Locked
<1>5. Locked' BY <1>4 DEF Locked, HeapTypeOK
<1>6. Settled' BY DEF Settled
<1> QED BY <1>2, <1>3, <1>5, <1>6

(* The type of the threads' calls. *)
Calls == [Callers -> [pc : {"idle", "lock", "work"}, op : {"alloc", "free"},
                      block : Blocks \cup {None}, result : Blocks \cup {None}]]

(* The only thread in TLSF returns from its call. *)
LEMMA ReturnEmpties ==
  ASSUME HeapInv, NEW t \in Callers, call[t].pc = "work",
         NEW r \in Blocks \cup {None}, call' = Returned(t, r)
  PROVE  /\ call' \in Calls
         /\ \A u \in Callers : call'[u].pc # "idle" => call'[u].block \in Blocks
         /\ mutex.owner = t /\ mutex.count >= 1 /\ t \in Inside /\ Inside' = {}
         /\ ~destroyed
<1> USE HeapAssumption DEF HeapInv
<1>1. t \in Inside /\ mutex.owner = t BY DEF Inside, Locked
<1>2. mutex.count >= 1 BY <1>1 DEF Locked, HeapTypeOK
<1>3. \A u \in Callers : u # t => call'[u] = call[u] BY DEF HeapTypeOK, Returned
<1>4. call'[t].pc = "idle" BY DEF HeapTypeOK, Returned
<1>5. Inside' = {} BY <1>1, <1>3, <1>4 DEF Inside, Locked
<1>6. call' \in Calls BY DEF HeapTypeOK, Returned, Calls
<1>7. \A u \in Callers : call'[u].pc # "idle" => call'[u].block \in Blocks
  BY <1>3, <1>4 DEF Placed
<1>8. ~destroyed BY DEF Settled
<1> QED BY <1>1, <1>2, <1>5, <1>6, <1>7, <1>8

(* It releases the mutex, and leaves every block in an arena. *)
LEMMA ReleaseKeeps ==
  ASSUME HeapInv, NEW t \in Callers, call[t].pc = "work",
         NEW r \in Blocks \cup {None}, call' = Returned(t, r),
         mutex' = Released(t), UNCHANGED <<limit, reported, destroyed>>,
         arenas' \in Seq(Nat), Len(arenas) <= Len(arenas'), Len(arenas') <= limit,
         blocks' \in [Blocks -> Nat], \A b \in Blocks : blocks'[b] <= Len(arenas')
  PROVE  HeapInv'
<1> USE HeapAssumption DEF HeapInv
<1>1. /\ call' \in Calls
      /\ \A u \in Callers : call'[u].pc # "idle" => call'[u].block \in Blocks
      /\ mutex.owner = t /\ mutex.count >= 1 /\ t \in Inside /\ Inside' = {}
      /\ ~destroyed
  BY ReturnEmpties
<1>2. mutex \in [owner : Callers \cup {None}, count : Nat] /\ limit \in Nat
      /\ Len(arenas) \in Nat /\ Len(arenas') \in Nat
  BY DEF HeapTypeOK
<1>3. mutex' \in [owner : Callers \cup {None}, count : Nat]
  <2>1. CASE mutex.count = 1 BY <2>1 DEF Released, Unlocked
  <2>2. CASE mutex.count # 1
    <3>1. mutex' = [owner |-> mutex.owner, count |-> mutex.count - 1] BY <2>2 DEF Released
    <3> QED BY <1>1, <1>2, <2>2, <3>1
  <2> QED BY <2>1, <2>2
<1>4. mutex'.owner = None <=> mutex'.count = 0
  <2>1. CASE mutex.count = 1 BY <2>1 DEF Released, Unlocked
  <2>2. CASE mutex.count # 1
    <3>1. mutex'.owner = t /\ mutex'.count = mutex.count - 1
      BY <1>1, <1>2, <2>2 DEF Released
    <3> QED BY <1>1, <1>2, <2>2, <3>1
  <2> QED BY <2>1, <2>2
<1>5. mutex'.count > 0 => Len(arenas') >= limit
  <2>1. mutex'.count > 0 => mutex.count > 1
    BY <1>1, <1>2 DEF Released, Unlocked
  <2>2. mutex.count > 1 => Len(arenas) >= limit BY <1>1 DEF Locked
  <2> QED BY <1>2, <2>1, <2>2
<1>6. Locked' BY <1>1, <1>2, <1>3, <1>4, <1>5 DEF Locked
<1>7. blocks' \in [Blocks -> 0 .. limit] BY <1>2
<1>8. HeapTypeOK' BY <1>1, <1>3, <1>7 DEF HeapTypeOK, Calls
<1>9. Placed' BY <1>1, <1>2 DEF Placed
<1>10. Settled' BY <1>1 DEF Settled
<1> QED BY <1>6, <1>8, <1>9, <1>10

(* What is asked for or given back is a block. *)
LEMMA CallOfBlock ==
  ASSUME HeapInv, NEW t \in Callers, call[t].pc = "work"
  PROVE  /\ call[t].block \in Blocks
         /\ SizeOf[call[t].block] \in Nat /\ SizeOf[call[t].block] > 0
         /\ arenas \in Seq(Nat) /\ Len(arenas) \in Nat /\ limit \in Nat /\ Len(arenas) <= limit
         /\ blocks \in [Blocks -> Nat] /\ \A b \in Blocks : blocks[b] <= Len(arenas)
BY HeapAssumption DEF HeapInv, Placed, HeapTypeOK, Settled

(* A sequence of numbers of which one is replaced, if it is there. *)
LEMMA ElementReplaced ==
  ASSUME NEW s \in Seq(Nat), NEW a, NEW v, a \in DOMAIN s => v \in Nat
  PROVE  [s EXCEPT ![a] = v] \in Seq(Nat) /\ Len([s EXCEPT ![a] = v]) = Len(s)
<1>1. CASE a \in DOMAIN s BY <1>1
<1>2. CASE a \notin DOMAIN s
  <2>1. [s EXCEPT ![a] = v] = s BY <1>2
  <2> QED BY <2>1
<1> QED BY <1>1, <1>2

(* heap_alloc gets a block of an arena that has room. *)
LEMMA AllocKeeps ==
  ASSUME HeapInv, NEW t \in Callers, HeapAlloc(t)
  PROVE  HeapInv'
<1> DEFINE b == call[t].block
<1>1. b \in Blocks /\ SizeOf[b] \in Nat /\ SizeOf[b] > 0 BY CallOfBlock DEF HeapAlloc
<1>2. PICK a \in GoodFits(SizeOf[b]) :
        /\ blocks' = [blocks EXCEPT ![b] = a]
        /\ arenas' = [arenas EXCEPT ![a] = @ - SizeOf[b]]
  BY DEF HeapAlloc
<1>3. a \in DOMAIN arenas /\ arenas[a] >= SizeOf[b] BY DEF GoodFits, Fits
<1>4. call[t].pc = "work" /\ call' = Returned(t, b) /\ mutex' = Released(t)
      /\ UNCHANGED <<limit, reported, destroyed>>
  BY DEF HeapAlloc
<1> HIDE DEF b
<1>5. arenas \in Seq(Nat) /\ Len(arenas) \in Nat /\ limit \in Nat /\ Len(arenas) <= limit
      /\ blocks \in [Blocks -> Nat] /\ \A c \in Blocks : blocks[c] <= Len(arenas)
  BY <1>4, CallOfBlock
<1>6. arenas' \in Seq(Nat) /\ Len(arenas') = Len(arenas)
  BY <1>1, <1>2, <1>3, <1>5
<1>7. blocks' \in [Blocks -> Nat] /\ \A c \in Blocks : blocks'[c] <= Len(arenas')
  BY <1>1, <1>2, <1>3, <1>5, <1>6
<1>8. Len(arenas) <= Len(arenas') /\ Len(arenas') <= limit BY <1>5, <1>6
<1>9. b \in Blocks \cup {None} BY <1>1
<1> QED BY <1>4, <1>6, <1>7, <1>8, <1>9, ReleaseKeeps

(* heap_alloc takes another arena. *)
LEMMA GrowKeeps ==
  ASSUME HeapInv, NEW t \in Callers, HeapGrow(t)
  PROVE  HeapInv'
<1> DEFINE b == call[t].block
           size == ArenaSize(SizeOf[b])
           fits == size >= SizeOf[b]
<1>1. b \in Blocks /\ SizeOf[b] \in Nat BY CallOfBlock DEF HeapGrow
<1>2. size \in Nat BY <1>1, HeapAssumption DEF ArenaSize
<1>3. /\ call[t].pc = "work" /\ mutex' = Released(t)
      /\ call' = Returned(t, IF fits THEN b ELSE None)
      /\ UNCHANGED <<limit, reported, destroyed>> /\ Len(arenas) < limit
      /\ arenas' = Append(arenas, IF fits THEN size - SizeOf[b] ELSE size)
      /\ blocks' = IF fits THEN [blocks EXCEPT ![b] = Len(arenas) + 1] ELSE blocks
  BY DEF HeapGrow
<1> HIDE DEF b, size
<1>4. arenas \in Seq(Nat) /\ Len(arenas) \in Nat /\ limit \in Nat
      /\ blocks \in [Blocks -> Nat] /\ \A c \in Blocks : blocks[c] <= Len(arenas)
  BY <1>3, CallOfBlock
<1>5. (IF fits THEN size - SizeOf[b] ELSE size) \in Nat BY <1>1, <1>2
<1>6. arenas' \in Seq(Nat) /\ Len(arenas') = Len(arenas) + 1 BY <1>3, <1>4, <1>5
<1>7. blocks' \in [Blocks -> Nat] /\ \A c \in Blocks : blocks'[c] <= Len(arenas')
  BY <1>1, <1>3, <1>4, <1>6
<1>8. (IF fits THEN b ELSE None) \in Blocks \cup {None} BY <1>1
<1>9. Len(arenas) <= Len(arenas') /\ Len(arenas') <= limit BY <1>3, <1>4, <1>6
<1> HIDE DEF fits
<1> QED BY <1>3, <1>6, <1>7, <1>8, <1>9, ReleaseKeeps

(* heap_free. *)
LEMMA FreeKeeps ==
  ASSUME HeapInv, NEW t \in Callers, HeapFree(t)
  PROVE  HeapInv'
<1> DEFINE b == call[t].block
<1>1. b \in Blocks /\ SizeOf[b] \in Nat BY CallOfBlock DEF HeapFree
<1>2. /\ call[t].pc = "work" /\ mutex' = Released(t) /\ call' = Returned(t, None)
      /\ UNCHANGED <<limit, reported, destroyed>>
      /\ blocks' = [blocks EXCEPT ![b] = 0]
      /\ arenas' = [arenas EXCEPT ![blocks[b]] = @ + SizeOf[b]]
  BY DEF HeapFree
<1> HIDE DEF b
<1>3. arenas \in Seq(Nat) /\ Len(arenas) \in Nat /\ limit \in Nat /\ Len(arenas) <= limit
      /\ blocks \in [Blocks -> Nat] /\ \A c \in Blocks : blocks[c] <= Len(arenas)
  BY <1>2, CallOfBlock
<1>4. arenas' \in Seq(Nat) /\ Len(arenas') = Len(arenas)
  <2>1. blocks[b] \in DOMAIN arenas => arenas[blocks[b]] + SizeOf[b] \in Nat BY <1>1, <1>3
  <2> QED BY <1>2, <1>3, <2>1, ElementReplaced
<1>5. blocks' \in [Blocks -> Nat] /\ \A c \in Blocks : blocks'[c] <= Len(arenas')
  BY <1>1, <1>2, <1>3, <1>4
<1>6. Len(arenas) <= Len(arenas') /\ Len(arenas') <= limit BY <1>3, <1>4
<1> QED BY <1>2, <1>4, <1>5, <1>6, ReleaseKeeps

(* heap_alloc without memory keeps the mutex. *)
LEMMA ExhaustedKeeps ==
  ASSUME HeapInv, NEW t \in Callers, HeapExhausted(t)
  PROVE  HeapInv'
<1>1. /\ call[t].pc = "work" /\ Len(arenas) >= limit /\ call' = Returned(t, None)
      /\ UNCHANGED heap
  BY DEF HeapExhausted
<1>2. /\ call' \in Calls
      /\ \A u \in Callers : call'[u].pc # "idle" => call'[u].block \in Blocks
      /\ mutex.owner = t /\ mutex.count >= 1 /\ t \in Inside /\ Inside' = {}
      /\ ~destroyed
  BY <1>1, ReturnEmpties
<1>3. HeapTypeOK' BY <1>1, <1>2 DEF HeapInv, HeapTypeOK, heap, Calls
<1>4. Placed' BY <1>1, <1>2 DEF HeapInv, Placed, heap
<1>5. Locked' BY <1>1, <1>2 DEF HeapInv, Locked, heap
<1>6. Settled' BY <1>1, <1>2 DEF Settled, heap
<1> QED BY <1>3, <1>4, <1>5, <1>6 DEF HeapInv

LEMMA HeapStepKeeps ==
  ASSUME HeapInv, NEW t \in Callers, HeapStep(t)
  PROVE  HeapInv'
BY LockKeeps, AllocKeeps, GrowKeeps, ExhaustedKeeps, FreeKeeps DEF HeapStep

(* A thread ends, and with it its hold of the mutex. *)
LEMMA EndKeeps ==
  ASSUME HeapInv, NEW t \in Callers, call[t].pc = "idle", mutex' = Abandoned(t),
         UNCHANGED <<limit, arenas, blocks, call, reported, destroyed>>
  PROVE  HeapInv'
<1> USE HeapAssumption DEF HeapInv
<1>1. Inside' = Inside /\ t \notin Inside BY DEF Inside
<1>2. HeapTypeOK' BY DEF HeapTypeOK, Abandoned, Unlocked
<1>3. Placed' BY DEF Placed
<1>4. Locked' BY <1>1 DEF Locked, Abandoned, Unlocked, Inside
<1>5. Settled' BY DEF Settled, InUse
<1> QED BY <1>2, <1>3, <1>4, <1>5

(* heap_destroy finds every block that is in use, when no one is in a call. *)
LEMMA DestroyKeeps ==
  ASSUME HeapInv, \A t \in Callers : call[t].pc = "idle", HeapDestroy
  PROVE  HeapInv'
<1> USE DEF HeapInv, HeapDestroy
<1>1. Leaks = InUse
  <2>1. \A b \in InUse : b \in In(blocks[b]) /\ blocks[b] \in DOMAIN arenas
    BY DEF InUse, In, Placed, HeapTypeOK
  <2>2. \A a : In(a) \subseteq InUse BY DEF In
  <2> QED BY <2>1, <2>2 DEF Leaks
<1>2. InUse' = InUse /\ Inside' = {} BY DEF InUse, Inside
<1>3. arenas' \in Seq(Nat) /\ Len(arenas') = 0 BY DEF HeapTypeOK
<1>4. limit \in Nat BY HeapAssumption DEF HeapTypeOK
<1>5. HeapTypeOK' BY <1>1, <1>3 DEF HeapTypeOK, InUse
<1>6. Placed' BY <1>3, <1>4 DEF Placed
<1>7. Locked' BY <1>2 DEF Locked
<1>8. Settled' BY <1>1, <1>2 DEF Settled
<1> QED BY <1>5, <1>6, <1>7, <1>8

LEMMA HeapStutters ==
  ASSUME HeapInv, UNCHANGED heap_vars
  PROVE  HeapInv'
<1> USE DEF heap_vars, heap
<1>1. HeapTypeOK' BY DEF HeapInv, HeapTypeOK
<1>2. Placed' BY DEF HeapInv, Placed
<1>3. Inside' = Inside /\ InUse' = InUse BY DEF Inside, InUse
<1>4. Locked' BY <1>3 DEF HeapInv, Locked
<1>5. Settled' BY <1>3 DEF HeapInv, Settled
<1> QED BY <1>1, <1>2, <1>4, <1>5 DEF HeapInv
-----------------------------------------------------------------------------
(* What the main thread allocates and frees are blocks, and its program ends. *)
LEMMA ProgramSound ==
  /\ \A s \in 1 .. 20 : Program[s][1] \in {"alloc", "free"} => Own(Program[s][2]) \in Blocks
  /\ Program[20][1] = "end" /\ Len(Program) = 20
<1>1. \A s \in 1 .. 20 : Program[s][1] \in {"alloc", "free"} =>
        Program[s][2] \in {"trace", "queue", "array", "path", "fs", "text", "work"}
  BY DEF Program
<1>2. \A s \in 1 .. 20 : Program[s][1] \in {"alloc", "free"} => Own(Program[s][2]) \in OwnBlocks
  BY <1>1 DEF OwnBlocks
<1>3. OwnBlocks \subseteq Blocks BY TraceAssumption
<1>4. Program[20][1] = "end" /\ Len(Program) = 20 BY DEF Program
<1> QED BY <1>2, <1>3, <1>4

(* A thread goes on in a push or a pop, or returns from it. *)
LEMMA MoveKeeps ==
  ASSUME Using, NEW t \in Callers,
         NEW to \in {"idle", "name", "store", "queue", "acquire", "pop", "release", "end"},
         at' = [at EXCEPT ![t] = to], UNCHANGED <<call, stage, event, pushed>>
  PROVE  Using'
BY TraceAssumption DEF Using

(* The main thread goes on in its program. *)
LEMMA StageKeeps ==
  ASSUME Using, Program[stage][1] \notin {"alloc", "free", "end"}, stage' = stage + 1,
         UNCHANGED <<call, at, event, pushed>>
  PROVE  Using'
<1>1. stage \in 1 .. 19 BY ProgramSound DEF Using
<1> QED BY <1>1 DEF Using

LEMMA UsingInit == Init => IInv
<1> SUFFICES ASSUME Init PROVE IInv OBVIOUS
<1>1. Inside = {}
  <2>1. call = [t \in Callers |->
                 [pc |-> "idle", op |-> "alloc", block |-> None, result |-> None]]
    BY DEF Init, HeapInit
  <2> QED BY <2>1 DEF Inside
<1>2. arenas \in Seq(Nat) /\ Len(arenas) = 0 /\ limit \in Nat
  <2>1. arenas = << >> /\ limit \in Limits BY DEF Init, HeapInit
  <2> QED BY <2>1, HeapAssumption
<1> USE HeapAssumption, TraceAssumption DEF Init, HeapInit, Unlocked
<1>3. HeapTypeOK
  <2>1. mutex \in [owner : Callers \cup {None}, count : Nat] OBVIOUS
  <2>2. blocks \in [Blocks -> 0 .. limit] BY <1>2
  <2>3. call \in Calls BY DEF Calls
  <2>4. limit \in Limits /\ reported \subseteq Blocks /\ destroyed \in BOOLEAN OBVIOUS
  <2> HIDE DEF Init, HeapInit
  <2> QED BY <1>2, <2>1, <2>2, <2>3, <2>4 DEF HeapTypeOK, Calls
<1>4. Placed BY <1>2 DEF Placed
<1>5. Locked BY <1>1 DEF Locked
<1>6. Settled BY DEF Settled
<1>7. stage \in 1 .. 20 BY ProgramSound
<1>8. Using BY <1>7 DEF Using
<1> QED BY <1>3, <1>4, <1>5, <1>6, <1>8 DEF IInv, HeapInv

(* The steps of a thread inside a call. *)
LEMMA InCallKeeps ==
  ASSUME IInv, NEW t \in Callers, InCall(t)
  PROVE  IInv'
<1> USE DEF IInv
<1>1. CASE HeapStep(t) /\ UNCHANGED <<trace, queue, local>>
  <2>1. HeapInv' BY <1>1, HeapStepKeeps
  <2>2. /\ call[t].pc # "idle"
        /\ \A u \in Callers : u # t => call'[u] = call[u]
    BY <1>1 DEF HeapStep, HeapLock, HeapAlloc, HeapGrow, HeapExhausted, HeapFree, Returned,
                HeapInv, HeapTypeOK
  <2>3. Using' BY <1>1, <2>2 DEF Using, trace, local
  <2> QED BY <2>1, <2>3
<1>2. CASE TraceName(t)
  <2>1. CASE call[t].result = None
    <3>1. UNCHANGED heap_vars /\ at' = [at EXCEPT ![t] = "name"]
          /\ UNCHANGED <<call, stage, event, pushed>>
      BY <1>2, <2>1 DEF TraceName, Goto, heap_vars
    <3> QED BY <3>1, HeapStutters, MoveKeeps
  <2>2. CASE call[t].result # None
    <3>1. at[t] = "event" /\ at' = [at EXCEPT ![t] = "name"]
          /\ HeapCall(t, "alloc", NameBlock(event[t])) /\ UNCHANGED <<stage, event, pushed>>
      BY <1>2, <2>2 DEF TraceName, Goto
    <3>2. NameBlock(event[t]) \in Blocks BY <3>1, TraceAssumption DEF Using
    <3>3. HeapInv' BY <3>1, <3>2, CallKeeps
    <3>4. \A u \in Callers : u # t => call'[u] = call[u] /\ at'[u] = at[u]
      BY <3>1 DEF HeapCall, HeapInv, HeapTypeOK, Using
    <3>5. Using' BY <3>1, <3>4, TraceAssumption DEF Using
    <3> QED BY <3>3, <3>5
  <2> QED BY <2>1, <2>2
<1>3. ASSUME NEW to \in {"idle", "name", "store", "queue", "acquire", "pop", "release", "end"},
             at' = [at EXCEPT ![t] = to],
             UNCHANGED <<heap_vars, stage, event, pushed>>
      PROVE  IInv'
  <2>1. UNCHANGED <<call, stage, event, pushed>> BY <1>3 DEF heap_vars
  <2> QED BY <1>3, <2>1, HeapStutters, MoveKeeps
<1>4. CASE TraceCount(t) BY <1>3, <1>4 DEF TraceCount, Goto
<1>5. CASE TraceStore(t) BY <1>3, <1>5 DEF TraceStore, Goto
<1>6. CASE TraceQueue(t)
  <2>1. PICK to \in {"idle", "queue"} : at' = [at EXCEPT ![t] = to]
    BY <1>6 DEF TraceQueue
  <2> QED BY <1>3, <1>6, <2>1 DEF TraceQueue, trace
<1>7. CASE TraceAcquire(t) BY <1>3, <1>7 DEF TraceAcquire, Goto
<1>8. CASE TraceDequeue(t)
  <2>1. PICK to \in {"pop", "release"} : at' = [at EXCEPT ![t] = to]
    BY <1>8 DEF TraceDequeue
  <2> QED BY <1>3, <1>8, <2>1 DEF TraceDequeue, trace
<1>9. CASE TraceRelease(t) BY <1>3, <1>9 DEF TraceRelease, Goto
<1>10. CASE TraceEnd(t) BY <1>3, <1>10 DEF TraceEnd, Goto
<1> QED BY <1>1, <1>2, <1>4, <1>5, <1>6, <1>7, <1>8, <1>9, <1>10 DEF InCall

(* The main thread in a stage that is over in one step. *)
LEMMA StageStutters ==
  ASSUME IInv, Program[stage][1] \notin {"alloc", "free", "end"}, stage' = stage + 1,
         UNCHANGED <<heap_vars, local>>
  PROVE  IInv'
<1>1. UNCHANGED <<call, at, event, pushed>> BY DEF heap_vars, local
<1> QED BY <1>1, HeapStutters, StageKeeps DEF IInv

(* The steps of the main thread. *)
LEMMA MainKeeps ==
  ASSUME IInv, MainStep
  PROVE  IInv'
<1> USE DEF IInv
<1>0. Main \in Callers BY TraceAssumption
<1>1. CASE MainCall
  <2>1. Program[stage][1] \in {"alloc", "free"} /\ at[Main] = "idle" /\ ~crashed
        /\ at' = [at EXCEPT ![Main] = "call"]
        /\ HeapCall(Main, Program[stage][1], Own(Program[stage][2]))
        /\ UNCHANGED <<stage, event, pushed>>
    BY <1>1 DEF MainCall, Doing, Goto, trace
  <2>2. Own(Program[stage][2]) \in Blocks BY <2>1, ProgramSound DEF Using
  <2>3. HeapInv' BY <1>0, <2>1, <2>2, CallKeeps
  <2>4. \A u \in Callers : u # Main => call'[u] = call[u] /\ at'[u] = at[u]
    BY <2>1 DEF HeapCall, HeapInv, HeapTypeOK, Using
  <2>5. Using' BY <1>0, <2>1, <2>4 DEF Using
  <2> QED BY <2>3, <2>5
<1>2. CASE MainReturn
  <2>1. /\ at[Main] = "call" /\ at' = [at EXCEPT ![Main] = "idle"] /\ stage' = stage + 1
        /\ UNCHANGED <<heap_vars, call, event, pushed>>
    BY <1>2 DEF MainReturn, Goto, heap_vars
  <2>2. stage \in 1 .. 19 BY <2>1, ProgramSound DEF Using
  <2>3. Using' BY <1>0, <2>1, <2>2 DEF Using
  <2> QED BY <2>1, <2>3, HeapStutters
<1>3. CASE CaptureStart BY <1>3, StageStutters DEF CaptureStart, Doing
<1>4. CASE MainJoin BY <1>4, StageStutters DEF MainJoin, Doing
<1>5. CASE CaptureStop BY <1>5, StageStutters DEF CaptureStop, Doing
<1>9. CASE CaptureWrite
  <2>1. UNCHANGED <<heap_vars, call, at, stage, event, pushed>>
    BY <1>9 DEF CaptureWrite, heap_vars, local
  <2> QED BY <2>1, HeapStutters DEF Using
<1>6. CASE FreeDuration
  <2>1. PICK b \in Blocks : HeapCall(Main, "free", b)
    <3>1. (CHOOSE b \in Durations : b \in InUse) \in InUse BY <1>6 DEF FreeDuration
    <3> QED BY <1>6, <3>1 DEF FreeDuration, InUse
  <2>2. HeapInv' BY <1>0, <2>1, CallKeeps
  <2>3. \A u \in Callers : u # Main => call'[u] = call[u]
    BY <2>1 DEF HeapCall, HeapInv, HeapTypeOK
  <2>4. UNCHANGED <<at, stage, event, pushed>> BY <1>6 DEF FreeDuration, trace, local
  <2>5. Using' BY <2>3, <2>4 DEF Using
  <2> QED BY <2>2, <2>5
<1>7. CASE DurationsFreed BY <1>7, StageStutters DEF DurationsFreed, Doing
<1>8. CASE MainDestroy
  <2>1. \A t \in Callers : call[t].pc = "idle" BY <1>8 DEF MainDestroy, Idle, Using
  <2>2. HeapDestroy BY <1>8 DEF MainDestroy
  <2>3. HeapInv' BY <2>1, <2>2, DestroyKeeps
  <2>4. Program[stage][1] = "destroy" /\ stage' = stage + 1
        /\ UNCHANGED <<call, at, event, pushed>>
    BY <1>8, <2>2 DEF MainDestroy, Doing, HeapDestroy, local
  <2>5. Using' BY <2>4, StageKeeps
  <2> QED BY <2>3, <2>5
<1> QED BY <1>1, <1>2, <1>3, <1>4, <1>5, <1>6, <1>7, <1>8, <1>9 DEF MainStep

(* The thread of the file system. *)
LEMMA FileKeeps ==
  ASSUME IInv, FileWrite
  PROVE  IInv'
<1>1. UNCHANGED <<heap_vars, call, at, stage, event, pushed>> BY DEF FileWrite, heap_vars, local
<1> QED BY <1>1, HeapStutters DEF IInv, Using

(* A thread begins a push or a pop, or ends; or uses the heap alone. *)
LEMMA ThreadKeeps ==
  ASSUME IInv, NEW t \in Callers, TracePush(t) \/ TracePop(t) \/ ThreadEnd(t)
  PROVE  IInv'
<1> USE DEF IInv
<1>1. CASE TracePush(t)
  <2>1. /\ at' = [at EXCEPT ![t] = "event"] /\ pushed[t] < PushBound
        /\ pushed' = [pushed EXCEPT ![t] = @ + 1]
        /\ event' = [event EXCEPT ![t] = <<t, pushed'[t]>>]
        /\ HeapCall(t, "alloc", EventBlock(event'[t])) /\ UNCHANGED stage
    BY <1>1 DEF TracePush, Goto, trace
  <2>2. pushed'[t] \in 1 .. PushBound /\ pushed' \in [Callers -> Nat]
    BY <2>1, TraceAssumption DEF Using
  <2>3. event'[t] \in Events /\ event' \in [Callers -> Events \cup {Uninit}]
        /\ \A u \in Callers : u # t => event'[u] = event[u]
    BY <2>1, <2>2 DEF Using, Events
  <2>4. HeapInv'
    <3>1. EventBlock(event'[t]) \in Blocks BY <2>3, TraceAssumption
    <3> QED BY <2>1, <3>1, CallKeeps
  <2>5. \A u \in Callers : u # t => call'[u] = call[u] /\ at'[u] = at[u]
    BY <2>1 DEF HeapCall, HeapInv, HeapTypeOK, Using
  <2>6. Using' BY <2>1, <2>2, <2>3, <2>5, TraceAssumption DEF Using
  <2> QED BY <2>4, <2>6
<1>2. CASE TracePop(t)
  <2>1. at' = [at EXCEPT ![t] = "acquire"] /\ UNCHANGED heap_vars
        /\ UNCHANGED <<call, stage, event, pushed>>
    BY <1>2 DEF TracePop, Goto, trace, heap_vars
  <2> QED BY <2>1, HeapStutters, MoveKeeps
<1>3. CASE ThreadEnd(t)
  <2>1. /\ t # Main /\ at' = [at EXCEPT ![t] = "done"] /\ call[t].pc = "idle"
        /\ mutex' = Abandoned(t)
        /\ UNCHANGED <<limit, arenas, blocks, call, reported, destroyed>>
        /\ UNCHANGED <<stage, event, pushed>>
    BY <1>3 DEF ThreadEnd, Idle, trace
  <2>2. HeapInv' BY <2>1, EndKeeps
  <2>3. Using' BY <2>1, TraceAssumption DEF Using
  <2> QED BY <2>2, <2>3
<1> QED BY <1>1, <1>2, <1>3

LEMMA AnyCallKeeps ==
  ASSUME IInv, NEW t \in Callers, NEW e \in Events, AnyHeapCall(t, e)
  PROVE  IInv'
<1> USE DEF IInv
<1>1. EventBlock(e) \in Blocks BY TraceAssumption
<1>2. PICK op \in {"alloc", "free"} : HeapCall(t, op, EventBlock(e)) BY DEF AnyHeapCall
<1>3. HeapInv' BY <1>1, <1>2, CallKeeps
<1>4. \A u \in Callers : u # t => call'[u] = call[u]
  BY <1>2 DEF HeapCall, HeapInv, HeapTypeOK
<1>5. at[t] = "idle" /\ UNCHANGED <<at, stage, event, pushed>>
  BY DEF AnyHeapCall, Idle, trace, local
<1>6. Using' BY <1>4, <1>5 DEF Using
<1> QED BY <1>3, <1>6

LEMMA InvariantStep ==
  ASSUME IInv, [Next]_vars
  PROVE  IInv'
<1>1. ASSUME NEW t \in Callers, TracePush(t) \/ TracePop(t) \/ InCall(t) \/ ThreadEnd(t)
      PROVE  IInv'
  BY <1>1, ThreadKeeps, InCallKeeps
<1>2. CASE UNCHANGED vars
  <2>1. UNCHANGED heap_vars /\ UNCHANGED <<call, at, stage, event, pushed>>
    BY <1>2 DEF vars, heap_vars, trace, local
  <2>2. HeapInv' BY <2>1, HeapStutters DEF IInv
  <2>3. Using' BY <2>1 DEF IInv, Using
  <2> QED BY <2>2, <2>3 DEF IInv
<1> QED BY <1>1, <1>2, AnyCallKeeps, MainKeeps, FileKeeps DEF Next

(* The heap keeps its promises to any threads, whatever they allocate, in
   whatever order they run and whenever memory runs out: TLSF is entered by one
   thread at a time, the mutex is locked between calls only when memory has run
   out, and heap_destroy reports exactly what was not freed. *)
THEOREM HeapIsSound == Spec => []HeapSound
<1>1. IInv /\ [Next]_vars => IInv' BY InvariantStep
<1>2. IInv => HeapSound BY Containment DEF IInv
<1> QED BY UsingInit, <1>1, <1>2, PTL DEF Spec
-----------------------------------------------------------------------------
(* The rest is about traces whose array has room for all durations. *)
Room == Cardinality(Events) <= Capacity

Typed ==
  /\ Q!TypeOK
  /\ client \in Clients /\ crashed \in BOOLEAN /\ is_active \in BOOLEAN /\ semaphore \in {0, 1}
  /\ events \in [0 .. Capacity - 1 -> Events \cup {Uninit}]
  /\ slot \in [Callers -> 0 .. Capacity - 1]
  /\ pushed \in [Callers -> 0 .. PushBound] /\ popped \in [Callers -> 0 .. PushBound]
  /\ ended \in [Events -> Nat] /\ text \subseteq Events \X Nat

(* Where a thread is in the queue, and with what. *)
AlignedAt(t) ==
  /\ queue_pc[Pusher(t)] \in
       IF at[t] = "queue" THEN {"acquire", "claim", "write", "release"} ELSE {"idle"}
  /\ queue_pc[Popper(t)] \in
       IF at[t] = "pop" THEN {"acquire", "claim", "read", "release"} ELSE {"idle"}
  /\ at[t] \in {"event", "name", "store", "queue"} => pushed[t] > 0 /\ event[t] = <<t, pushed[t]>>
  /\ at[t] = "queue" => item[Pusher(t)] = event[t]
  /\ at[t] \in {"acquire", "pop", "release", "end"} => popped[t] > 0
  /\ popped[t] <= pushed[t]
Aligned == \A t \in Callers : AlignedAt(t)

(* The last duration of each thread with an index of the array, the last with a
   slot of the queue, and the last of its pops with one; those up to them are
   what num_durations, tail_index and head_index count. *)
CountedAt(t) == IF at[t] \in {"event", "name"} THEN pushed[t] - 1 ELSE pushed[t]
ClaimedAt(t) ==
  IF at[t] \in {"event", "name", "store"} \/ queue_pc[Pusher(t)] \in {"acquire", "claim"}
    THEN pushed[t] - 1 ELSE pushed[t]
FetchedAt(t) ==
  IF at[t] = "acquire" \/ queue_pc[Popper(t)] \in {"acquire", "claim"}
    THEN popped[t] - 1 ELSE popped[t]
Counted == {e \in Events : e[2] <= CountedAt(e[1])}
Claimed == {e \in Events : e[2] <= ClaimedAt(e[1])}
Fetched == {e \in Events : e[2] <= FetchedAt(e[1])}
Numbered ==
  /\ num_durations = Cardinality(Counted)
  /\ tail_index = Cardinality(Claimed)
  /\ head_index = Cardinality(Fetched)

(* Each index of the array below num_durations has a duration of its own, or
   will have that of the thread that is about to store it. *)
Storing(t) == at[t] = "store"
Stored ==
  /\ \A t \in Callers : Storing(t) => slot[t] \in 0 .. num_durations - 1 /\ events[slot[t]] = Uninit
  /\ \A t, u \in Callers : Storing(t) /\ Storing(u) /\ slot[t] = slot[u] => t = u
  /\ \A e \in Counted :
       \/ \E i \in 0 .. num_durations - 1 : events[i] = e
       \/ Storing(e[1]) /\ event[e[1]] = e
  /\ \A i \in 0 .. num_durations - 1 :
       \/ events[i] \in Counted
       \/ \E t \in Callers : Storing(t) /\ slot[t] = i
  /\ \A i \in num_durations .. Capacity - 1 : events[i] = Uninit

(* So has each slot of the queue below tail_index. *)
Writing(t) == queue_pc[Pusher(t)] = "write"
Queued ==
  /\ \A t \in Callers : Writing(t) =>
       index[Pusher(t)] \in 0 .. tail_index - 1 /\ items[index[Pusher(t)]] = Uninit
  /\ \A t, u \in Callers : Writing(t) /\ Writing(u) /\ index[Pusher(t)] = index[Pusher(u)] => t = u
  /\ \A e \in Claimed :
       \/ \E i \in 0 .. tail_index - 1 : items[i] = e
       \/ Writing(e[1]) /\ event[e[1]] = e
  /\ \A i \in 0 .. Capacity - 1 : items[i] \in Events =>
       /\ items[i] \in Claimed
       /\ ~(Writing(items[i][1]) /\ event[items[i][1]] = items[i])
       /\ \A j \in 0 .. Capacity - 1 : items[i] = items[j] => i = j
  /\ \A i \in tail_index .. Capacity - 1 : items[i] = Uninit

(* A slot below head_index is being read by one thread, or its event is in the
   hand of one, or has ended once; unless a slot was read before it was written. *)
Reading(t, i) == queue_pc[Popper(t)] = "read" /\ index[Popper(t)] = i
Holding(t) == queue_pc[Popper(t)] = "release" \/ at[t] \in {"release", "end"}
InHand(t) == IF at[t] = "pop" THEN item[Popper(t)] ELSE got[Popper(t)]
Lost == crashed \/ \E t \in Callers : Holding(t) /\ InHand(t) = Uninit
Read(e) == \E i \in 0 .. head_index - 1 : items[i] = e /\ \A t \in Callers : ~Reading(t, i)
Ending ==
  /\ \A t \in Callers : queue_pc[Popper(t)] = "read" => index[Popper(t)] \in 0 .. head_index - 1
  /\ \A t, u \in Callers, i \in 0 .. head_index - 1 : Reading(t, i) /\ Reading(u, i) => t = u
  /\ \A t \in Callers : Holding(t) =>
       \/ InHand(t) = Uninit
       \/ /\ InHand(t) \in Events /\ Read(InHand(t)) /\ ended[InHand(t)] = 0
          /\ \A u \in Callers : Holding(u) /\ InHand(u) = InHand(t) => t = u
  /\ \A e \in Events : ended[e] = 0 \/ (ended[e] = 1 /\ Read(e))
  /\ ~Lost => \A i \in 0 .. head_index - 1 :
       \/ \E t \in Callers : Reading(t, i)
       \/ \E t \in Callers : Holding(t) /\ InHand(t) = items[i]
       \/ items[i] \in Events /\ ended[items[i]] = 1

(* The threads push and pop while the main thread is in its seventh stage. *)
Staged ==
  /\ at[Main] = "call" => ~crashed
  /\ \A t \in Callers \ {Main} : at[t] # "call"
  /\ stage # 7 => /\ at[Main] \in {"idle", "call"}
                  /\ \A t \in Callers \ {Main} : at[t] \in {"idle", "done"}
  /\ stage > 7 /\ client = "trace" =>
       popped[Main] = pushed[Main] /\ \A t \in Callers \ {Main} : at[t] = "done"
  /\ client = "trace" => \A t \in Callers : at[t] = "done" => popped[t] = pushed[t]
  /\ destroyed => stage = 20
  /\ client = "heap" => stage >= 19

(* The text handed to the file system is complete. *)
Written ==
  /\ write \in {"none", "queued", "done", "failed"}
  /\ write # "none" => stage >= 10 /\ text = {<<e, 1>> : e \in Pushed}

(* What is allocated: the blocks of durations pushed, until they have been freed
   in the fifteenth stage, and those of the main thread, each until its own. *)
FreedAt(k) ==
  /\ Program[k][1] = "free"
  /\ k < stage \/ (k = stage /\ at[Main] = "call" /\ call[Main].pc = "idle")
Asked(t) ==
  \/ /\ at[t] \in {"event", "name"} /\ call[t].op = "alloc"
     /\ call[t].block \in {EventBlock(event[t]), NameBlock(event[t])}
  \/ /\ t = Main /\ at[t] = "call" /\ call[t].op = Program[stage][1]
     /\ call[t].block = Own(Program[stage][2])
  \/ t = Main /\ at[t] = "idle" /\ stage = 15 /\ call[t].op = "free" /\ call[t].block \notin OwnBlocks
Memory ==
  client = "trace" =>
    /\ \A t \in Callers : call[t].pc # "idle" => Asked(t)
    /\ \A e \in Events : blocks[EventBlock(e)] # 0 \/ blocks[NameBlock(e)] # 0 => e \in Pushed
    /\ \A k \in 1 .. 20 : FreedAt(k) => blocks[Own(Program[k][2])] = 0
    /\ stage > 15 => \A e \in Events : blocks[EventBlock(e)] = 0 /\ blocks[NameBlock(e)] = 0

Work == Typed /\ Aligned /\ Numbered /\ Stored /\ Queued /\ Ending
TInv == Work /\ Staged /\ Written /\ Memory
-----------------------------------------------------------------------------
LEMMA Roles ==
  /\ \A t, u \in Callers : /\ Pusher(t) # Popper(u) /\ (Pusher(t) = Pusher(u) => t = u)
                           /\ (Popper(t) = Popper(u) => t = u)
  /\ \A t \in Callers : Pusher(t) \in Q!Threads /\ Popper(t) \in Q!Threads
<1>1. "push" # "pop" OBVIOUS
<1> QED BY <1>1 DEF Pusher, Popper, Q!Threads

LEMMA EventsFinite == IsFiniteSet(Events) /\ Cardinality(Events) \in Nat
<1>1. IsFiniteSet(Callers) /\ PushBound \in Nat BY TraceAssumption
<1>2. IsFiniteSet(1 .. PushBound) BY <1>1, FS_Interval
<1>3. IsFiniteSet(Events) BY <1>1, <1>2, FS_Product DEF Events
<1> QED BY <1>3, FS_CardinalityType

Below(f) == {e \in Events : e[2] <= f[e[1]]}

(* What changes when a thread reaches its n-th duration. *)
Risen(t, n, old, new) ==
  /\ <<t, n>> \in Events \ old /\ new = old \cup {<<t, n>>}
  /\ Cardinality(old) \in Nat /\ Cardinality(old) < Cardinality(Events)
  /\ Cardinality(new) = Cardinality(old) + 1

LEMMA OneMore ==
  ASSUME NEW f, NEW t \in Callers, NEW g, NEW n \in 1 .. PushBound, f[t] = n - 1, g[t] = n,
         \A u \in Callers : u # t => g[u] = f[u]
  PROVE  Risen(t, n, Below(f), Below(g))
<1> DEFINE S == Below(f)
           T == Below(g)
           d == <<t, n>>
<1>0. PushBound \in Nat /\ n \in Nat BY TraceAssumption
<1>1. d \in Events /\ d[1] = t /\ d[2] = n BY <1>0 DEF Events
<1>2. d \notin S BY <1>0, <1>1 DEF Below
<1>3. ASSUME NEW e \in Events PROVE e \in T <=> e \in S \cup {d}
  <2>1. e = <<e[1], e[2]>> /\ e[1] \in Callers /\ e[2] \in 1 .. PushBound BY DEF Events
  <2>2. CASE e[1] = t
    <3>1. g[e[1]] = n /\ f[e[1]] = n - 1 /\ e[2] \in Nat BY <2>1, <2>2, <1>0
    <3>2. e[2] <= n <=> e[2] <= n - 1 \/ e[2] = n BY <3>1, <1>0
    <3>3. e = d <=> e[2] = n BY <2>1, <2>2
    <3> QED BY <2>2, <3>1, <3>2, <3>3 DEF Below
  <2>3. CASE e[1] # t
    <3>1. g[e[1]] = f[e[1]] /\ e # d BY <2>1, <2>3
    <3> QED BY <3>1 DEF Below
  <2> QED BY <2>2, <2>3
<1>4. T = S \cup {d} BY <1>1, <1>3 DEF Below
<1>a. S \subseteq Events BY DEF Below
<1>b. d = <<t, n>> OBVIOUS
<1> HIDE DEF d, S, T
<1>5. IsFiniteSet(S) /\ Cardinality(S) \in Nat /\ Cardinality(S) <= Cardinality(Events)
  BY <1>a, EventsFinite, FS_Subset, FS_CardinalityType
<1>6. Cardinality(S) # Cardinality(Events) BY <1>a, <1>1, <1>2, EventsFinite, FS_Subset
<1>7. Cardinality(T) = Cardinality(S) + 1 BY <1>2, <1>4, <1>5, FS_AddElement
<1>8. Cardinality(S) < Cardinality(Events) BY <1>5, <1>6, EventsFinite
<1>9. Risen(t, n, S, T) BY <1>1, <1>2, <1>4, <1>5, <1>7, <1>8, <1>b DEF Risen
<1> QED BY <1>9 DEF S, T

LEMMA LevelTypes ==
  ASSUME Typed, Aligned, NEW t \in Callers
  PROVE  /\ pushed[t] \in 0 .. PushBound /\ popped[t] \in 0 .. PushBound /\ PushBound \in Nat
         /\ CountedAt(t) \in 0 .. PushBound /\ ClaimedAt(t) \in 0 .. PushBound
         /\ FetchedAt(t) \in 0 .. PushBound
<1>1. pushed[t] \in 0 .. PushBound /\ popped[t] \in 0 .. PushBound /\ PushBound \in Nat
  BY TraceAssumption DEF Typed
<1>2. AlignedAt(t) BY DEF Aligned
<1>3. CountedAt(t) \in 0 .. PushBound BY <1>1, <1>2 DEF AlignedAt, CountedAt
<1>4. ClaimedAt(t) \in 0 .. PushBound BY <1>1, <1>2 DEF AlignedAt, ClaimedAt
<1>5. FetchedAt(t) \in 0 .. PushBound BY <1>1, <1>2 DEF AlignedAt, FetchedAt
<1> QED BY <1>1, <1>3, <1>4, <1>5

LEMMA Bounds ==
  ASSUME Numbered
  PROVE  /\ num_durations \in 0 .. Cardinality(Events) /\ tail_index \in 0 .. Cardinality(Events)
         /\ head_index \in 0 .. Cardinality(Events) /\ Cardinality(Events) \in Nat
<1>1. Counted \subseteq Events /\ Claimed \subseteq Events /\ Fetched \subseteq Events
  BY DEF Counted, Claimed, Fetched
<1>2. \A S \in SUBSET Events : Cardinality(S) \in Nat /\ Cardinality(S) <= Cardinality(Events)
  BY EventsFinite, FS_Subset, FS_CardinalityType
<1> QED BY <1>1, <1>2, EventsFinite DEF Numbered

(* A step of thread t, or of its roles in the queue, is no one else's. *)
Others(t) ==
  \A u \in Callers \ {t} :
    /\ at'[u] = at[u] /\ event'[u] = event[u] /\ slot'[u] = slot[u]
    /\ pushed'[u] = pushed[u] /\ popped'[u] = popped[u]
    /\ queue_pc'[Pusher(u)] = queue_pc[Pusher(u)] /\ queue_pc'[Popper(u)] = queue_pc[Popper(u)]
    /\ index'[Pusher(u)] = index[Pusher(u)] /\ index'[Popper(u)] = index[Popper(u)]
    /\ item'[Pusher(u)] = item[Pusher(u)] /\ item'[Popper(u)] = item[Popper(u)]
    /\ got'[Popper(u)] = got[Popper(u)]

LEMMA AlignedStep ==
  ASSUME Aligned, NEW t \in Callers, Others(t), AlignedAt(t)'
  PROVE  Aligned'
<1>1. ASSUME NEW u \in Callers, u # t PROVE AlignedAt(u)'
  BY <1>1 DEF Aligned, AlignedAt, Others
<1> QED BY <1>1 DEF Aligned

LEMMA OtherLevels ==
  ASSUME NEW t \in Callers, Others(t), NEW u \in Callers, u # t
  PROVE  /\ CountedAt(u)' = CountedAt(u) /\ ClaimedAt(u)' = ClaimedAt(u)
         /\ FetchedAt(u)' = FetchedAt(u)
BY DEF Others, CountedAt, ClaimedAt, FetchedAt

LEMMA LevelsSame ==
  ASSUME NEW t \in Callers, Others(t)
  PROVE  /\ CountedAt(t)' = CountedAt(t) => Counted' = Counted
         /\ ClaimedAt(t)' = ClaimedAt(t) => Claimed' = Claimed
         /\ FetchedAt(t)' = FetchedAt(t) => Fetched' = Fetched
<1>1. \A e \in Events : e[1] \in Callers BY DEF Events
<1>2. ASSUME CountedAt(t)' = CountedAt(t) PROVE Counted' = Counted
  <2>1. \A u \in Callers : CountedAt(u)' = CountedAt(u) BY <1>2, OtherLevels
  <2> QED BY <1>1, <2>1 DEF Counted
<1>3. ASSUME ClaimedAt(t)' = ClaimedAt(t) PROVE Claimed' = Claimed
  <2>1. \A u \in Callers : ClaimedAt(u)' = ClaimedAt(u) BY <1>3, OtherLevels
  <2> QED BY <1>1, <2>1 DEF Claimed
<1>4. ASSUME FetchedAt(t)' = FetchedAt(t) PROVE Fetched' = Fetched
  <2>1. \A u \in Callers : FetchedAt(u)' = FetchedAt(u) BY <1>4, OtherLevels
  <2> QED BY <1>1, <2>1 DEF Fetched
<1> QED BY <1>2, <1>3, <1>4

LEMMA CountedRises ==
  ASSUME Typed, Aligned, NEW t \in Callers, Others(t),
         pushed[t] > 0, CountedAt(t) = pushed[t] - 1, CountedAt(t)' = pushed[t],
         NEW new, new = Counted'
  PROVE  Risen(t, pushed[t], Counted, new)
<1> DEFINE f == [u \in Callers |-> CountedAt(u)]
           g == [f EXCEPT ![t] = pushed[t]]
<1>1. pushed[t] \in 1 .. PushBound BY LevelTypes
<1>2. f[t] = pushed[t] - 1 /\ g[t] = pushed[t] OBVIOUS
<1>3. \A u \in Callers : u # t => g[u] = f[u] OBVIOUS
<1>4. \A u \in Callers : g[u] = CountedAt(u)' BY OtherLevels, <1>2
<1>5. \A e \in Events : e[1] \in Callers BY DEF Events
<1>6. Counted = Below(f) BY <1>5 DEF Counted, Below
<1>7. new = Below(g)
  <2> HIDE DEF g
  <2> QED BY <1>4, <1>5 DEF Counted, Below
<1> HIDE DEF f, g
<1>8. Risen(t, pushed[t], Below(f), Below(g)) BY <1>1, <1>2, <1>3, OneMore
<1> QED BY <1>6, <1>7, <1>8

LEMMA ClaimedRises ==
  ASSUME Typed, Aligned, NEW t \in Callers, Others(t),
         pushed[t] > 0, ClaimedAt(t) = pushed[t] - 1, ClaimedAt(t)' = pushed[t],
         NEW new, new = Claimed'
  PROVE  Risen(t, pushed[t], Claimed, new)
<1> DEFINE f == [u \in Callers |-> ClaimedAt(u)]
           g == [f EXCEPT ![t] = pushed[t]]
<1>1. pushed[t] \in 1 .. PushBound BY LevelTypes
<1>2. f[t] = pushed[t] - 1 /\ g[t] = pushed[t] OBVIOUS
<1>3. \A u \in Callers : u # t => g[u] = f[u] OBVIOUS
<1>4. \A u \in Callers : g[u] = ClaimedAt(u)' BY OtherLevels, <1>2
<1>5. \A e \in Events : e[1] \in Callers BY DEF Events
<1>6. Claimed = Below(f) BY <1>5 DEF Claimed, Below
<1>7. new = Below(g)
  <2> HIDE DEF g
  <2> QED BY <1>4, <1>5 DEF Claimed, Below
<1> HIDE DEF f, g
<1>8. Risen(t, pushed[t], Below(f), Below(g)) BY <1>1, <1>2, <1>3, OneMore
<1> QED BY <1>6, <1>7, <1>8

LEMMA FetchedRises ==
  ASSUME Typed, Aligned, NEW t \in Callers, Others(t),
         popped[t] > 0, FetchedAt(t) = popped[t] - 1, FetchedAt(t)' = popped[t],
         NEW new, new = Fetched'
  PROVE  Risen(t, popped[t], Fetched, new)
<1> DEFINE f == [u \in Callers |-> FetchedAt(u)]
           g == [f EXCEPT ![t] = popped[t]]
<1>1. popped[t] \in 1 .. PushBound BY LevelTypes
<1>2. f[t] = popped[t] - 1 /\ g[t] = popped[t] OBVIOUS
<1>3. \A u \in Callers : u # t => g[u] = f[u] OBVIOUS
<1>4. \A u \in Callers : g[u] = FetchedAt(u)' BY OtherLevels, <1>2
<1>5. \A e \in Events : e[1] \in Callers BY DEF Events
<1>6. Fetched = Below(f) BY <1>5 DEF Fetched, Below
<1>7. new = Below(g)
  <2> HIDE DEF g
  <2> QED BY <1>4, <1>5 DEF Fetched, Below
<1> HIDE DEF f, g
<1>8. Risen(t, popped[t], Below(f), Below(g)) BY <1>1, <1>2, <1>3, OneMore
<1> QED BY <1>6, <1>7, <1>8

(* What leaves each part of the invariant as it is. *)
LEMMA NumbersKept ==
  ASSUME Numbered, NEW t \in Callers, Others(t),
         UNCHANGED <<num_durations, tail_index, head_index>>, CountedAt(t)' = CountedAt(t),
         ClaimedAt(t)' = ClaimedAt(t), FetchedAt(t)' = FetchedAt(t)
  PROVE  Numbered' /\ Counted' = Counted /\ Claimed' = Claimed
BY LevelsSame DEF Numbered

LEMMA StoredKept ==
  ASSUME Stored, NEW t \in Callers, Others(t), UNCHANGED <<num_durations, events>>,
         Counted' = Counted, at[t] # "store", at'[t] # "store"
  PROVE  Stored'
<1>1. \A u \in Callers : /\ Storing(u)' <=> Storing(u)
                         /\ Storing(u) => slot'[u] = slot[u] /\ event'[u] = event[u]
  BY DEF Others, Storing
<1>2. \A e \in Counted : e[1] \in Callers BY DEF Counted, Events
<1> QED BY <1>1, <1>2 DEF Stored

LEMMA QueuedKept ==
  ASSUME Queued, NEW t \in Callers, Others(t), UNCHANGED <<tail_index, items>>,
         Claimed' = Claimed, queue_pc[Pusher(t)] # "write", queue_pc'[Pusher(t)] # "write"
  PROVE  Queued'
<1>1. \A u \in Callers : /\ Writing(u)' <=> Writing(u)
                         /\ Writing(u) => index'[Pusher(u)] = index[Pusher(u)] /\ event'[u] = event[u]
  BY DEF Others, Writing
<1>2. \A e \in Events : e[1] \in Callers BY DEF Events
<1>3. Claimed \subseteq Events BY DEF Claimed
<1> QED BY <1>1, <1>2, <1>3 DEF Queued

LEMMA EndingKept ==
  ASSUME Ending, NEW t \in Callers, Others(t), UNCHANGED <<head_index, items, ended>>,
         crashed => crashed', queue_pc[Popper(t)] # "read", queue_pc'[Popper(t)] # "read",
         Holding(t)' <=> Holding(t), Holding(t) => InHand(t)' = InHand(t)
  PROVE  Ending'
<1>1. \A u \in Callers : \A i : Reading(u, i)' <=> Reading(u, i) BY DEF Others, Reading
<1>2. \A u \in Callers : /\ Holding(u)' <=> Holding(u)
                         /\ Holding(u) => InHand(u)' = InHand(u)
  <2>1. \A u \in Callers : u # t => /\ Holding(u)' <=> Holding(u)
                                    /\ InHand(u)' = InHand(u)
    BY DEF Others, Holding, InHand
  <2> QED BY <2>1
<1>3. \A e : Read(e)' <=> Read(e) BY <1>1 DEF Read
<1>4. Lost => Lost' BY <1>2 DEF Lost
<1>5. \A u \in Callers : queue_pc'[Popper(u)] = "read" =>
        queue_pc[Popper(u)] = "read" /\ index'[Popper(u)] = index[Popper(u)]
  BY DEF Others
<1>6. \A u \in Callers : Holding(u)' =>
        \/ InHand(u)' = Uninit
        \/ /\ InHand(u)' \in Events /\ Read(InHand(u)) /\ ended[InHand(u)] = 0
           /\ InHand(u)' = InHand(u)
           /\ \A v \in Callers : Holding(v)' /\ InHand(v)' = InHand(u)' => u = v
  BY <1>2 DEF Ending
<1>7. \A e \in Events : ended'[e] = 0 \/ (ended'[e] = 1 /\ Read(e)') BY <1>3 DEF Ending
<1>8. ~Lost' => \A i \in 0 .. head_index - 1 :
       \/ \E u \in Callers : Reading(u, i)'
       \/ \E u \in Callers : Holding(u)' /\ InHand(u)' = items[i]
       \/ items[i] \in Events /\ ended[items[i]] = 1
  BY <1>1, <1>2, <1>4 DEF Ending
<1> QED BY <1>1, <1>3, <1>5, <1>6, <1>7, <1>8 DEF Ending
-----------------------------------------------------------------------------
(* Below the capacity an index of the queue is its own remainder. *)
LEMMA RemainderOfIndex ==
  ASSUME NEW n \in 0 .. Capacity - 1
  PROVE  Q!CRemainder(n, Capacity) = n /\ Q!Increment(n) = n + 1
<1>1. Capacity \in 1 .. IntMax /\ IntMax \in Nat BY TraceAssumption
<1>2. n % Capacity = n BY <1>1
<1>3. n >= 0 /\ n # IntMax BY <1>1
<1> QED BY <1>1, <1>2, <1>3 DEF Q!CRemainder, Q!Increment

(* A thread in a push or a pop, while the main thread is in its seventh stage. *)
LEMMA AtWork ==
  ASSUME Using, Staged, Memory, client \in Clients, NEW t \in Callers,
         at[t] \notin {"idle", "call", "done"}
  PROVE  /\ stage = 7 /\ client = "trace" /\ at[Main] # "call" /\ ~destroyed
         /\ at[t] \notin {"event", "name"} => call[t].pc = "idle"
<1>1. Main \in Callers /\ client \in {"trace", "heap"} BY TraceAssumption
<1>2. stage = 7 BY <1>1 DEF Staged
<1>3. client = "trace" BY <1>1, <1>2 DEF Staged
<1>4. at[Main] # "call"
  <2>1. Program[7][1] = "run" BY DEF Program
  <2> QED BY <1>2, <2>1 DEF Using
<1>5. ~destroyed BY <1>2 DEF Staged
<1>6. at[t] \notin {"event", "name"} => call[t].pc = "idle" BY <1>3 DEF Memory, Asked
<1> QED BY <1>2, <1>3, <1>4, <1>5, <1>6

LEMMA WorkStays ==
  ASSUME Staged, Written, NEW t \in Callers, Others(t), stage = 7, client = "trace", at[Main] # "call",
         UNCHANGED <<client, stage, destroyed, write>>, at'[t] \notin {"call", "done"}
  PROVE  Staged' /\ Written'
<1>1. Main \in Callers BY TraceAssumption
<1>2. at'[Main] # "call" BY <1>1 DEF Others
<1>3. \A u \in Callers : at'[u] = "done" => at[u] = "done" /\ popped'[u] = popped[u] /\ pushed'[u] = pushed[u]
  BY DEF Others
<1>4. \A u \in Callers \ {Main} : at'[u] # "call" BY DEF Others, Staged
<1> QED BY <1>2, <1>3, <1>4 DEF Staged, Written

LEMMA MemoryKept ==
  ASSUME Memory, Typed, NEW t \in Callers, Others(t), stage = 7, client = "trace",
         call[t].pc = "idle", UNCHANGED <<heap_vars, stage, client, pushed>>
  PROVE  Memory'
<1>1. \A u \in Callers : call'[u].pc # "idle" => u # t /\ call[u].pc # "idle" /\ call'[u] = call[u]
  BY DEF heap_vars
<1>2. \A u \in Callers : call'[u].pc # "idle" => Asked(u)' BY <1>1 DEF Others, Memory, Asked
<1>3. \A k \in 1 .. 20 : FreedAt(k)' => k >= 11 /\ k <= stage'
  BY DEF FreedAt, Program
<1>4. Pushed' = Pushed BY DEF Pushed
<1>5. blocks' = blocks BY DEF heap_vars, heap
<1> QED BY <1>2, <1>3, <1>4, <1>5 DEF Memory

(* A step that is not in a push or a pop. *)
LEMMA Quiet ==
  ASSUME Work, Using, Using',
         UNCHANGED <<queue, event, slot, pushed, popped, num_durations, events, ended>>,
         \A t \in Callers : at'[t] = at[t] \/ {at[t], at'[t]} \subseteq {"idle", "call", "done"},
         crashed => crashed', client' = client, crashed' \in BOOLEAN, is_active' \in BOOLEAN,
         semaphore' = semaphore, text' \subseteq Events \X Nat
  PROVE  Work'
<1> USE DEF Work
<1>1. UNCHANGED <<used_items, free_items, items, head_index, tail_index, queue_pc, index, item, ok, got>>
  BY DEF queue
<1>2. Typed' BY <1>1 DEF Typed, Q!TypeOK
<1>3. Aligned' BY <1>1 DEF Aligned, AlignedAt
<1>4. \A t \in Callers : CountedAt(t)' = CountedAt(t) /\ ClaimedAt(t)' = ClaimedAt(t)
                         /\ FetchedAt(t)' = FetchedAt(t)
  BY <1>1 DEF CountedAt, ClaimedAt, FetchedAt
<1>5. Counted' = Counted /\ Claimed' = Claimed /\ Fetched' = Fetched
  BY <1>4 DEF Counted, Claimed, Fetched, Events
<1>6. Numbered' BY <1>1, <1>5 DEF Numbered
<1>7. \A t \in Callers : Storing(t)' <=> Storing(t) BY DEF Storing
<1>8. Stored' 
  <2>1. \A e \in Counted : e[1] \in Callers BY DEF Counted, Events
  <2> QED BY <1>5, <1>7, <2>1 DEF Stored
<1>9. Queued' BY <1>1, <1>5 DEF Queued, Writing
<1>10. \A t \in Callers : /\ Holding(t)' <=> Holding(t) 
                          /\ Holding(t) => InHand(t)' = InHand(t)
  BY <1>1 DEF Holding, InHand, Aligned, AlignedAt
<1>11. Lost => Lost' BY <1>10 DEF Lost
<1>12. \A t : \A i : Reading(t, i)' <=> Reading(t, i) BY <1>1 DEF Reading
<1>13. \A e : Read(e)' <=> Read(e) BY <1>1, <1>12 DEF Read
<1>14. Ending' BY <1>1, <1>10, <1>11, <1>12, <1>13 DEF Ending
<1> QED BY <1>2, <1>3, <1>6, <1>8, <1>9, <1>14
-----------------------------------------------------------------------------
(* Stage 7 is where the threads run. *)
LEMMA RunStage ==
  ASSUME Using, Staged, client \in Clients, Program[stage][1] = "run"
  PROVE  stage = 7 /\ client = "trace" /\ at[Main] # "call"
<1>1. \A s \in 1 .. 20 : Program[s][1] = "run" => s = 7 BY DEF Program
<1>2. client \in {"trace", "heap"} BY TraceAssumption
<1> QED BY <1>1, <1>2 DEF Using, Staged

LEMMA PushWorks ==
  ASSUME IInv, TInv, NEW t \in Callers, TracePush(t)
  PROVE  TInv'
<1> USE DEF TInv, Work
<1>1. /\ at[t] = "idle" /\ at' = [at EXCEPT ![t] = "event"] /\ pushed[t] < PushBound
      /\ pushed' = [pushed EXCEPT ![t] = @ + 1]
      /\ event' = [event EXCEPT ![t] = <<t, pushed'[t]>>]
      /\ HeapCall(t, "alloc", EventBlock(event'[t]))
      /\ UNCHANGED <<trace, queue, slot, popped>> /\ Program[stage][1] = "run"
  BY DEF TracePush, Goto, Running, Idle, Doing
<1>2. /\ UNCHANGED <<client, stage, crashed, is_active, num_durations, events, semaphore, ended, text, write>>
      /\ UNCHANGED <<used_items, free_items, items, head_index, tail_index, queue_pc, index, item, ok, got>>
  BY <1>1 DEF trace, queue
<1>3. stage = 7 /\ client = "trace" /\ at[Main] # "call" BY <1>1, RunStage DEF IInv, Typed
<1>4. pushed[t] \in 0 .. PushBound /\ popped[t] \in 0 .. PushBound /\ PushBound \in Nat
      /\ popped[t] <= pushed[t]
  BY TraceAssumption DEF Typed, Aligned, AlignedAt
<1>5. pushed'[t] = pushed[t] + 1 /\ event'[t] = <<t, pushed[t] + 1>> /\ at'[t] = "event"
  BY <1>1 DEF IInv, Using, Typed
<1>6. Others(t) BY <1>1, <1>2 DEF Others, IInv, Using, Typed
<1>7. Typed'
  <2>1. pushed' \in [Callers -> 0 .. PushBound] BY <1>1, <1>4 DEF Typed
  <2> QED BY <2>1, <1>1, <1>2 DEF Typed, Q!TypeOK
<1>8. queue_pc[Pusher(t)] = "idle" /\ queue_pc[Popper(t)] = "idle"
  BY <1>1 DEF Aligned, AlignedAt
<1>9. AlignedAt(t)' BY <1>1, <1>2, <1>4, <1>5, <1>8 DEF AlignedAt
<1>10. Aligned' BY <1>6, <1>9, AlignedStep
<1>11. CountedAt(t)' = CountedAt(t) /\ ClaimedAt(t)' = ClaimedAt(t) /\ FetchedAt(t)' = FetchedAt(t)
  BY <1>1, <1>2, <1>4, <1>5, <1>8 DEF CountedAt, ClaimedAt, FetchedAt
<1>12. Numbered' /\ Counted' = Counted /\ Claimed' = Claimed BY <1>2, <1>6, <1>11, NumbersKept
<1>13. Stored' BY <1>1, <1>2, <1>5, <1>6, <1>12, StoredKept
<1>14. Queued' BY <1>2, <1>6, <1>8, <1>12, QueuedKept
<1>15. Holding(t)' <=> Holding(t) /\ ~Holding(t) BY <1>1, <1>2, <1>5, <1>8 DEF Holding
<1>16. Ending' 
  <2>1. ~Holding(t) /\ ~Holding(t)' BY <1>1, <1>2, <1>5, <1>8 DEF Holding
  <2> QED BY <1>2, <1>6, <1>8, <2>1, EndingKept
<1>17. Staged' /\ Written'
  <2>1. destroyed' = destroyed BY <1>1 DEF HeapCall, heap
  <2> QED BY <1>2, <1>3, <1>5, <1>6, <2>1, WorkStays
<1>18. Memory'
  <2>1. /\ call'[t].op = "alloc" /\ call'[t].block = EventBlock(event'[t])
        /\ \A u \in Callers : u # t => call'[u] = call[u]
        /\ blocks' = blocks
    BY <1>1 DEF HeapCall, heap, IInv, HeapInv, HeapTypeOK
  <2>2. Asked(t)' BY <1>5, <2>1 DEF Asked
  <2>3. \A u \in Callers : call'[u].pc # "idle" => Asked(u)'
    BY <1>2, <1>3, <1>6, <2>1, <2>2 DEF Others, Memory, Asked
  <2>4. Pushed \subseteq Pushed'
    <3>1. \A u \in Callers : pushed[u] \in Nat /\ (pushed'[u] = pushed[u] \/ pushed'[u] = pushed[u] + 1)
      BY <1>1, <1>4, <1>5, <1>6 DEF Others, Typed
    <3> QED BY <3>1 DEF Pushed, Events
  <2>5. \A k \in 1 .. 20 : FreedAt(k)' => k >= 11 /\ k <= 7 BY <1>2, <1>3 DEF FreedAt, Program
  <2> QED BY <1>2, <1>3, <2>1, <2>3, <2>4, <2>5 DEF Memory
<1> QED BY <1>7, <1>10, <1>12, <1>13, <1>14, <1>16, <1>17, <1>18

LEMMA NameWorks ==
  ASSUME IInv, TInv, NEW t \in Callers, ~crashed, TraceName(t)
  PROVE  TInv'
<1> USE DEF TInv, Work
<1>1. /\ at[t] = "event" /\ at' = [at EXCEPT ![t] = "name"] /\ call[t].pc = "idle"
      /\ crashed' \in BOOLEAN
      /\ UNCHANGED heap_vars \/ HeapCall(t, "alloc", NameBlock(event[t]))
      /\ UNCHANGED <<client, stage, is_active, num_durations, events, semaphore, ended, text, write>>
      /\ UNCHANGED <<queue, event, slot, pushed, popped>>
  BY DEF TraceName, Goto, Typed
<1>2. UNCHANGED <<used_items, free_items, items, head_index, tail_index, queue_pc, index, item, ok, got>>
  BY <1>1 DEF queue
<1>3. stage = 7 /\ client = "trace" /\ at[Main] # "call" BY <1>1, AtWork DEF IInv, Typed
<1>5. at'[t] = "name" BY <1>1 DEF IInv, Using
<1>6. Others(t) BY <1>1, <1>2 DEF Others, IInv, Using, Typed
<1>7. Typed' BY <1>1, <1>2 DEF Typed, Q!TypeOK
<1>8. queue_pc[Pusher(t)] = "idle" /\ queue_pc[Popper(t)] = "idle"
  BY <1>1 DEF Aligned, AlignedAt
<1>9. AlignedAt(t)' BY <1>1, <1>2, <1>5, <1>8 DEF Aligned, AlignedAt
<1>10. Aligned' BY <1>6, <1>9, AlignedStep
<1>11. CountedAt(t)' = CountedAt(t) /\ ClaimedAt(t)' = ClaimedAt(t) /\ FetchedAt(t)' = FetchedAt(t)
  BY <1>1, <1>2, <1>5, <1>8 DEF CountedAt, ClaimedAt, FetchedAt
<1>12. Numbered' /\ Counted' = Counted /\ Claimed' = Claimed BY <1>1, <1>2, <1>6, <1>11, NumbersKept
<1>13. Stored' BY <1>1, <1>5, <1>6, <1>12, StoredKept
<1>14. Queued' BY <1>2, <1>6, <1>8, <1>12, QueuedKept
<1>16. Ending'
  <2>1. ~Holding(t) /\ ~Holding(t)' BY <1>1, <1>2, <1>5, <1>8 DEF Holding
  <2> QED BY <1>1, <1>2, <1>6, <1>8, <2>1, EndingKept
<1>17. Staged' /\ Written'
  <2>1. destroyed' = destroyed BY <1>1 DEF HeapCall, heap, heap_vars
  <2> QED BY <1>1, <1>3, <1>5, <1>6, <2>1, WorkStays
<1>18. Memory'
  <2>1. /\ call'[t].pc # "idle" => call'[t].op = "alloc" /\ call'[t].block = NameBlock(event[t])
        /\ \A u \in Callers : u # t => call'[u] = call[u]
        /\ blocks' = blocks
    BY <1>1 DEF HeapCall, heap, heap_vars, IInv, HeapInv, HeapTypeOK
  <2>2. call'[t].pc # "idle" => Asked(t)' BY <1>1, <1>5, <2>1 DEF Asked
  <2>3. \A u \in Callers : call'[u].pc # "idle" => Asked(u)'
    BY <1>1, <1>3, <1>6, <2>1, <2>2 DEF Others, Memory, Asked
  <2>4. Pushed' = Pushed BY <1>1 DEF Pushed
  <2>5. \A k \in 1 .. 20 : FreedAt(k)' => k >= 11 /\ k <= 7 BY <1>1, <1>3 DEF FreedAt, Program
  <2> QED BY <1>1, <1>3, <2>1, <2>3, <2>4, <2>5 DEF Memory
<1> QED BY <1>7, <1>10, <1>12, <1>13, <1>14, <1>16, <1>17, <1>18

LEMMA CountWorks ==
  ASSUME IInv, TInv, Room, NEW t \in Callers, ~crashed, TraceCount(t)
  PROVE  TInv'
<1> USE DEF TInv, Work
<1>1. /\ at[t] = "name" /\ at' = [at EXCEPT ![t] = "store"] /\ call[t].pc = "idle"
      /\ crashed' \in BOOLEAN /\ num_durations' = num_durations + 1
      /\ slot' = [slot EXCEPT ![t] = num_durations]
      /\ UNCHANGED <<client, stage, is_active, events, semaphore, ended, text, write>>
      /\ UNCHANGED <<heap_vars, queue, event, pushed, popped>>
  BY DEF TraceCount, Goto
<1>2. UNCHANGED <<used_items, free_items, items, head_index, tail_index, queue_pc, index, item, ok, got>>
  BY <1>1 DEF queue
<1>3. stage = 7 /\ client = "trace" /\ at[Main] # "call" BY <1>1, AtWork DEF IInv, Typed
<1>4. at'[t] = "store" /\ slot'[t] = num_durations BY <1>1 DEF IInv, Using, Typed
<1>5. Others(t) BY <1>1, <1>2 DEF Others, IInv, Using, Typed
<1>6. AlignedAt(t) /\ pushed[t] \in 0 .. PushBound /\ PushBound \in Nat
  BY TraceAssumption DEF Aligned, Typed
<1>7. queue_pc[Pusher(t)] = "idle" /\ queue_pc[Popper(t)] = "idle" /\ pushed[t] > 0
      /\ event[t] = <<t, pushed[t]>>
  BY <1>1, <1>6 DEF AlignedAt
<1>8. AlignedAt(t)' BY <1>1, <1>2, <1>4, <1>6, <1>7 DEF AlignedAt
<1>9. Aligned' BY <1>5, <1>8, AlignedStep
<1>10. /\ CountedAt(t) = pushed[t] - 1 /\ CountedAt(t)' = pushed[t]
       /\ ClaimedAt(t)' = ClaimedAt(t) /\ FetchedAt(t)' = FetchedAt(t)
  BY <1>1, <1>2, <1>4, <1>7 DEF CountedAt, ClaimedAt, FetchedAt
<1>11. Claimed' = Claimed /\ Fetched' = Fetched BY <1>5, <1>10, LevelsSame
<1>12. PICK new : new = Counted' OBVIOUS
<1>13. Risen(t, pushed[t], Counted, new) BY <1>5, <1>7, <1>10, <1>12, CountedRises
<1>14. Numbered' BY <1>1, <1>2, <1>11, <1>12, <1>13 DEF Numbered, Risen
<1>15. num_durations \in 0 .. Capacity - 1 /\ Capacity \in Nat
  BY <1>13, EventsFinite, TraceAssumption DEF Numbered, Risen, Room
<1>16. Typed'
  <2>1. slot' \in [Callers -> 0 .. Capacity - 1] BY <1>1, <1>15 DEF Typed
  <2> QED BY <2>1, <1>1, <1>2 DEF Typed, Q!TypeOK
<1>17. Stored'
  <2>1. new = Counted \cup {<<t, pushed[t]>>} BY <1>13 DEF Risen
  <2>2. ~Storing(t) /\ Storing(t)' BY <1>1, <1>4 DEF Storing
  <2>3. \A u \in Callers : u # t => /\ Storing(u)' <=> Storing(u)
                                    /\ slot'[u] = slot[u] /\ event'[u] = event[u]
    BY <1>5 DEF Others, Storing
  <2>4. events[num_durations] = Uninit BY <1>15 DEF Stored
  <2>5. \A u \in Callers : Storing(u)' => slot'[u] \in 0 .. num_durations /\ events[slot'[u]] = Uninit
    BY <1>4, <1>15, <2>2, <2>3, <2>4 DEF Stored
  <2>6. \A u, v \in Callers : Storing(u)' /\ Storing(v)' /\ slot'[u] = slot'[v] => u = v
    BY <1>4, <1>15, <2>2, <2>3 DEF Stored
  <2>7. \A e \in new :
          \/ \E i \in 0 .. num_durations : events[i] = e
          \/ Storing(e[1])' /\ event'[e[1]] = e
    <3>1. \A e \in Counted : e[1] \in Callers BY DEF Counted, Events
    <3>2. \A e \in Counted :
          \/ \E i \in 0 .. num_durations : events[i] = e
          \/ Storing(e[1])' /\ event'[e[1]] = e
      BY <1>15, <2>2, <2>3, <3>1 DEF Stored
    <3>3. event'[t] = <<t, pushed[t]>> BY <1>1, <1>7
    <3> QED BY <2>1, <2>2, <3>2, <3>3
  <2>8. \A i \in 0 .. num_durations :
          \/ events[i] \in new
          \/ \E u \in Callers : Storing(u)' /\ slot'[u] = i
    <3>1. ASSUME NEW i \in 0 .. num_durations - 1
          PROVE  \/ events[i] \in new
                 \/ \E u \in Callers : Storing(u)' /\ slot'[u] = i
      BY <2>1, <2>2, <2>3 DEF Stored
    <3> QED BY <1>4, <1>15, <2>2, <3>1
  <2>9. \A i \in num_durations + 1 .. Capacity - 1 : events[i] = Uninit BY <1>15 DEF Stored
  <2>10. (num_durations + 1) - 1 = num_durations BY <1>15
  <2> QED BY <1>1, <1>12, <2>5, <2>6, <2>7, <2>8, <2>9, <2>10 DEF Stored
<1>18. Queued' BY <1>2, <1>5, <1>7, <1>11, QueuedKept
<1>19. Ending'
  <2>1. ~Holding(t) /\ ~Holding(t)' BY <1>1, <1>2, <1>4, <1>7 DEF Holding
  <2> QED BY <1>1, <1>2, <1>5, <1>7, <2>1, EndingKept
<1>20. Staged' /\ Written'
  <2>1. destroyed' = destroyed BY <1>1 DEF heap, heap_vars
  <2> QED BY <1>1, <1>3, <1>4, <1>5, <2>1, WorkStays
<1>21. Memory' BY <1>1, <1>3, <1>5, MemoryKept
<1> QED BY <1>9, <1>14, <1>16, <1>17, <1>18, <1>19, <1>20, <1>21

LEMMA StoreWorks ==
  ASSUME IInv, TInv, Room, NEW t \in Callers, TraceStore(t)
  PROVE  TInv'
<1> USE DEF TInv, Work
<1>1. /\ at[t] = "store" /\ at' = [at EXCEPT ![t] = "queue"]
      /\ events' = IF slot[t] \in DOMAIN events THEN [events EXCEPT ![slot[t]] = event[t]] ELSE events
      /\ queue_pc[Pusher(t)] = "idle" /\ queue_pc' = [queue_pc EXCEPT ![Pusher(t)] = "acquire"]
      /\ item' = [item EXCEPT ![Pusher(t)] = event[t]]
      /\ UNCHANGED <<used_items, free_items, items, head_index, tail_index, index, ok, got>>
      /\ UNCHANGED <<client, stage, crashed, is_active, num_durations, semaphore, ended, text, write>>
      /\ UNCHANGED <<heap_vars, event, slot, pushed, popped>>
  BY DEF TraceStore, Goto, Q!PushCall, Q!Goto, Q!shared
<1>3. stage = 7 /\ client = "trace" /\ at[Main] # "call" /\ call[t].pc = "idle"
  BY <1>1, AtWork DEF IInv, Typed
<1>4. at'[t] = "queue" /\ queue_pc'[Pusher(t)] = "acquire" /\ item'[Pusher(t)] = event[t]
      /\ queue_pc'[Popper(t)] = queue_pc[Popper(t)]
  BY <1>1, Roles DEF IInv, Using, Typed, Q!TypeOK
<1>5. Others(t) BY <1>1, Roles DEF Others, IInv, Using, Typed, Q!TypeOK
<1>6. AlignedAt(t) /\ pushed[t] \in 0 .. PushBound /\ PushBound \in Nat
  BY TraceAssumption DEF Aligned, Typed
<1>7. queue_pc[Popper(t)] = "idle" /\ pushed[t] > 0 /\ event[t] = <<t, pushed[t]>>
      /\ event[t] \in Events
  <2>1. queue_pc[Popper(t)] = "idle" /\ pushed[t] > 0 /\ event[t] = <<t, pushed[t]>>
    BY <1>1, <1>6 DEF AlignedAt
  <2> QED BY <1>6, <2>1 DEF Events
<1>8. AlignedAt(t)' BY <1>1, <1>4, <1>6, <1>7 DEF AlignedAt
<1>9. Aligned' BY <1>5, <1>8, AlignedStep
<1>10. /\ CountedAt(t)' = CountedAt(t) /\ ClaimedAt(t)' = ClaimedAt(t) /\ FetchedAt(t)' = FetchedAt(t)
  BY <1>1, <1>4, <1>7 DEF CountedAt, ClaimedAt, FetchedAt
<1>11. Numbered' /\ Counted' = Counted /\ Claimed' = Claimed BY <1>1, <1>5, <1>10, NumbersKept
<1>12. slot[t] \in 0 .. num_durations - 1 /\ events[slot[t]] = Uninit /\ slot[t] \in 0 .. Capacity - 1
       /\ DOMAIN events = 0 .. Capacity - 1
  BY <1>1 DEF Typed, Stored, Storing
<1>13. events' = [events EXCEPT ![slot[t]] = event[t]] BY <1>1, <1>12
<1>14. Typed'
  <2>1. events' \in [0 .. Capacity - 1 -> Events \cup {Uninit}] BY <1>7, <1>13 DEF Typed
  <2>2. Q!TypeOK' BY <1>1, <1>7, Roles, SMTT(40) DEF Typed, Q!TypeOK
  <2> QED BY <2>1, <2>2, <1>1 DEF Typed
<1>15. Stored'
  <2>1. Storing(t) /\ ~Storing(t)' BY <1>1, <1>4 DEF Storing
  <2>2. \A u \in Callers : /\ Storing(u)' <=> Storing(u) /\ u # t
                           /\ slot'[u] = slot[u] /\ event'[u] = event[u]
    <3>1. \A u \in Callers : u # t => (Storing(u)' <=> Storing(u)) BY <1>5 DEF Others, Storing
    <3> QED BY <1>1, <2>1, <3>1
  <2>3. events'[slot[t]] = event[t] BY <1>12, <1>13
  <2>4. \A i \in 0 .. Capacity - 1 : i # slot[t] => events'[i] = events[i] BY <1>12, <1>13
  <2>5. \A i \in 0 .. num_durations - 1 : i \in 0 .. Capacity - 1
    BY Bounds, TraceAssumption DEF Room
  <2>6. event[t] \in Counted /\ Counted \subseteq Events /\ Uninit \notin Events
    BY <1>1, <1>6, <1>7, TraceAssumption DEF Counted, CountedAt
  <2>7. \A u \in Callers : Storing(u)' => slot'[u] \in 0 .. num_durations - 1 /\ events'[slot'[u]] = Uninit
    <3> SUFFICES ASSUME NEW u \in Callers, Storing(u)'
                 PROVE  slot'[u] \in 0 .. num_durations - 1 /\ events'[slot'[u]] = Uninit
      OBVIOUS
    <3>1. u # t /\ Storing(u) /\ slot'[u] = slot[u] BY <2>2
    <3>2. slot[u] \in 0 .. num_durations - 1 /\ events[slot[u]] = Uninit /\ slot[u] # slot[t]
      BY <2>1, <3>1 DEF Stored
    <3> QED BY <2>4, <2>5, <3>1, <3>2
  <2>8. \A u, v \in Callers : Storing(u)' /\ Storing(v)' /\ slot'[u] = slot'[v] => u = v
    BY <2>2 DEF Stored
  <2>9. ASSUME NEW e \in Counted
        PROVE  \/ \E i \in 0 .. num_durations - 1 : events'[i] = e
               \/ Storing(e[1])' /\ event'[e[1]] = e
    <3>0. e[1] \in Callers BY DEF Counted, Events
    <3>1. CASE e = event[t] BY <1>12, <2>3, <3>1
    <3>2. ASSUME NEW i \in 0 .. num_durations - 1, events[i] = e
          PROVE  events'[i] = e
      <4>1. i # slot[t] BY <1>12, <2>6, <3>2
      <4> QED BY <2>4, <2>5, <3>2, <4>1
    <3>3. CASE Storing(e[1]) /\ event[e[1]] = e /\ e # event[t]
      <4>1. e[1] # t BY <3>3
      <4> QED BY <2>2, <3>0, <3>3, <4>1 DEF Storing, Others
    <3> QED BY <3>1, <3>2, <3>3 DEF Stored
  <2>10. ASSUME NEW i \in 0 .. num_durations - 1
         PROVE  \/ events'[i] \in Counted
                \/ \E u \in Callers : Storing(u)' /\ slot'[u] = i
    <3>1. CASE i = slot[t] BY <2>3, <2>6, <3>1
    <3>2. CASE i # slot[t] /\ events[i] \in Counted BY <2>4, <2>5, <3>2
    <3>3. CASE i # slot[t] /\ \E u \in Callers : Storing(u) /\ slot[u] = i
      BY <2>2, <3>3
    <3> QED BY <3>1, <3>2, <3>3 DEF Stored
  <2>11. \A i \in num_durations .. Capacity - 1 : events'[i] = Uninit
    <3>1. num_durations \in Nat BY Bounds
    <3>2. \A i \in num_durations .. Capacity - 1 : i \in 0 .. Capacity - 1 /\ i # slot[t]
      BY <1>12, <3>1, TraceAssumption
    <3> QED BY <2>4, <3>2 DEF Stored
  <2> QED BY <1>1, <1>11, <2>7, <2>8, <2>9, <2>10, <2>11 DEF Stored
<1>18. Queued'
  <2>1. queue_pc[Pusher(t)] # "write" /\ queue_pc'[Pusher(t)] # "write" BY <1>1, <1>4
  <2> QED BY <1>1, <1>5, <1>11, <2>1, QueuedKept
<1>19. Ending'
  <2>1. ~Holding(t) /\ ~Holding(t)' BY <1>1, <1>4, <1>7 DEF Holding
  <2> QED BY <1>1, <1>4, <1>5, <1>7, <2>1, EndingKept
<1>20. Staged' /\ Written'
  <2>1. destroyed' = destroyed BY <1>1 DEF heap, heap_vars
  <2> QED BY <1>1, <1>3, <1>4, <1>5, <2>1, WorkStays
<1>21. Memory' BY <1>1, <1>3, <1>5, MemoryKept
<1> QED BY <1>9, <1>11, <1>14, <1>15, <1>18, <1>19, <1>20, <1>21

(* The steps of queue_push. *)
LEMMA PushAcquireWorks ==
  ASSUME IInv, TInv, NEW t \in Callers, TraceQueue(t), Q!PushAcquire(Pusher(t))
  PROVE  TInv'
<1> USE DEF TInv, Work
<1>1. /\ at[t] = "queue" /\ at' = [at EXCEPT ![t] = IF queue_pc'[Pusher(t)] = "idle" THEN "idle" ELSE @]
      /\ queue_pc[Pusher(t)] = "acquire" /\ queue_pc' = [queue_pc EXCEPT ![Pusher(t)] = "claim"]
      /\ free_items > 0 /\ free_items' = free_items - 1
      /\ UNCHANGED <<used_items, items, head_index, tail_index, index, item, ok, got>>
      /\ UNCHANGED <<client, stage, crashed, is_active, num_durations, events, semaphore, ended, text, write>>
      /\ UNCHANGED <<heap_vars, event, slot, pushed, popped>>
  BY DEF TraceQueue, Q!PushAcquire, Q!Goto, trace
<1>2. stage = 7 /\ client = "trace" /\ at[Main] # "call" /\ call[t].pc = "idle"
  BY <1>1, AtWork DEF IInv, Typed
<1>3. /\ queue_pc'[Pusher(t)] = "claim" /\ queue_pc'[Popper(t)] = queue_pc[Popper(t)]
      /\ at'[t] = at[t]
  BY <1>1, Roles DEF IInv, Using, Typed, Q!TypeOK
<1>4. Others(t) BY <1>1, Roles DEF Others, IInv, Using, Typed, Q!TypeOK
<1>5. AlignedAt(t) BY DEF Aligned
<1>6. queue_pc[Popper(t)] = "idle" BY <1>1, <1>5 DEF AlignedAt
<1>7. AlignedAt(t)' BY <1>1, <1>3, <1>5 DEF AlignedAt
<1>8. Aligned' BY <1>4, <1>7, AlignedStep
<1>9. /\ CountedAt(t)' = CountedAt(t) /\ ClaimedAt(t)' = ClaimedAt(t) /\ FetchedAt(t)' = FetchedAt(t)
  BY <1>1, <1>3, <1>6 DEF CountedAt, ClaimedAt, FetchedAt
<1>10. Numbered' /\ Counted' = Counted /\ Claimed' = Claimed BY <1>1, <1>4, <1>9, NumbersKept
<1>11. Typed'
  <2>1. free_items' \in 0 .. Capacity BY <1>1, TraceAssumption DEF Typed, Q!TypeOK
  <2>2. Q!TypeOK' BY <1>1, <2>1, Roles DEF Typed, Q!TypeOK
  <2> QED BY <1>1, <2>2 DEF Typed
<1>12. Stored' BY <1>1, <1>3, <1>4, <1>10, StoredKept
<1>13. Queued'
  <2>1. queue_pc[Pusher(t)] # "write" /\ queue_pc'[Pusher(t)] # "write" BY <1>1, <1>3
  <2> QED BY <1>1, <1>4, <1>10, <2>1, QueuedKept
<1>14. Ending'
  <2>1. ~Holding(t) /\ ~Holding(t)' BY <1>1, <1>3, <1>6 DEF Holding
  <2> QED BY <1>1, <1>3, <1>4, <1>6, <2>1, EndingKept
<1>15. Staged' /\ Written'
  <2>1. destroyed' = destroyed BY <1>1 DEF heap, heap_vars
  <2> QED BY <1>1, <1>2, <1>3, <1>4, <2>1, WorkStays
<1>16. Memory' BY <1>1, <1>2, <1>4, MemoryKept
<1> QED BY <1>8, <1>10, <1>11, <1>12, <1>13, <1>14, <1>15, <1>16

LEMMA PushClaimWorks ==
  ASSUME IInv, TInv, Room, NEW t \in Callers, TraceQueue(t), Q!PushClaim(Pusher(t))
  PROVE  TInv'
<1> USE DEF TInv, Work
<1>1. /\ at[t] = "queue" /\ at' = [at EXCEPT ![t] = IF queue_pc'[Pusher(t)] = "idle" THEN "idle" ELSE @]
      /\ queue_pc[Pusher(t)] = "claim" /\ queue_pc' = [queue_pc EXCEPT ![Pusher(t)] = "write"]
      /\ index' = [index EXCEPT ![Pusher(t)] = Q!CRemainder(tail_index, Capacity)]
      /\ tail_index' = Q!Increment(tail_index)
      /\ UNCHANGED <<used_items, free_items, items, head_index, item, ok, got>>
      /\ UNCHANGED <<client, stage, crashed, is_active, num_durations, events, semaphore, ended, text, write>>
      /\ UNCHANGED <<heap_vars, event, slot, pushed, popped>>
  BY DEF TraceQueue, Q!PushClaim, Q!Goto, trace
<1>2. stage = 7 /\ client = "trace" /\ at[Main] # "call" /\ call[t].pc = "idle"
  BY <1>1, AtWork DEF IInv, Typed
<1>3. /\ queue_pc'[Pusher(t)] = "write" /\ queue_pc'[Popper(t)] = queue_pc[Popper(t)]
      /\ at'[t] = at[t]
  BY <1>1, Roles DEF IInv, Using, Typed, Q!TypeOK
<1>4. Others(t) BY <1>1, Roles DEF Others, IInv, Using, Typed, Q!TypeOK
<1>5. AlignedAt(t) /\ pushed[t] \in 0 .. PushBound /\ PushBound \in Nat
  BY TraceAssumption DEF Aligned, Typed
<1>6. queue_pc[Popper(t)] = "idle" /\ pushed[t] > 0 /\ event[t] = <<t, pushed[t]>>
  BY <1>1, <1>5 DEF AlignedAt
<1>7. AlignedAt(t)' BY <1>1, <1>3, <1>5 DEF AlignedAt
<1>8. Aligned' BY <1>4, <1>7, AlignedStep
<1>9. /\ CountedAt(t)' = CountedAt(t) /\ FetchedAt(t)' = FetchedAt(t)
      /\ ClaimedAt(t) = pushed[t] - 1 /\ ClaimedAt(t)' = pushed[t]
  BY <1>1, <1>3, <1>6 DEF CountedAt, ClaimedAt, FetchedAt
<1>10. Counted' = Counted /\ Fetched' = Fetched BY <1>4, <1>9, LevelsSame
<1>11. PICK new : new = Claimed' OBVIOUS
<1>12. Risen(t, pushed[t], Claimed, new) BY <1>4, <1>6, <1>9, <1>11, ClaimedRises
<1>13. tail_index \in 0 .. Capacity - 1
  BY <1>12, EventsFinite, TraceAssumption DEF Numbered, Risen, Room
<1>14. /\ index' = [index EXCEPT ![Pusher(t)] = tail_index] /\ tail_index' = tail_index + 1
       /\ tail_index \in Int /\ Capacity \in Nat
  <2>1. Q!CRemainder(tail_index, Capacity) = tail_index /\ Q!Increment(tail_index) = tail_index + 1
    BY <1>13, RemainderOfIndex
  <2>2. tail_index \in Int /\ Capacity \in Nat BY <1>13, TraceAssumption
  <2> QED BY <1>1, <2>1, <2>2
<1>15. Numbered' BY <1>1, <1>10, <1>11, <1>12, <1>14 DEF Numbered, Risen
<1>16. Typed'
  <2>1. index' \in [Q!Threads -> Int] BY <1>14 DEF Typed, Q!TypeOK
  <2>2. Q!TypeOK' BY <1>1, <1>14, <2>1, Roles, SMTT(40) DEF Typed, Q!TypeOK
  <2> QED BY <1>1, <2>2 DEF Typed
<1>17. Stored' BY <1>1, <1>3, <1>4, <1>10, StoredKept
<1>18. Queued'
  <2>1. new = Claimed \cup {<<t, pushed[t]>>} /\ <<t, pushed[t]>> \notin Claimed
    BY <1>12 DEF Risen
  <2>2. ~Writing(t) /\ Writing(t)' /\ index'[Pusher(t)] = tail_index
    BY <1>1, <1>3, <1>14, Roles DEF Writing, Typed, Q!TypeOK
  <2>3. \A u \in Callers : u # t => /\ Writing(u)' <=> Writing(u)
                                    /\ index'[Pusher(u)] = index[Pusher(u)] /\ event'[u] = event[u]
    BY <1>4 DEF Others, Writing
  <2>4. items[tail_index] = Uninit BY <1>13 DEF Queued
  <2>5. \A u \in Callers : Writing(u)' =>
          index'[Pusher(u)] \in 0 .. tail_index /\ items[index'[Pusher(u)]] = Uninit
    BY <1>13, <2>2, <2>3, <2>4 DEF Queued
  <2>6. \A u, v \in Callers : Writing(u)' /\ Writing(v)' /\ index'[Pusher(u)] = index'[Pusher(v)] => u = v
    BY <1>13, <2>2, <2>3 DEF Queued
  <2>7. \A e \in new :
          \/ \E i \in 0 .. tail_index : items[i] = e
          \/ Writing(e[1])' /\ event'[e[1]] = e
    <3>1. \A e \in Claimed : e[1] \in Callers BY DEF Claimed, Events
    <3>2. \A e \in Claimed :
            \/ \E i \in 0 .. tail_index : items[i] = e
            \/ Writing(e[1])' /\ event'[e[1]] = e
      BY <1>13, <2>2, <2>3, <3>1 DEF Queued
    <3>3. event'[t] = <<t, pushed[t]>> BY <1>1, <1>6
    <3> QED BY <2>1, <2>2, <3>2, <3>3
  <2>8. ASSUME NEW i \in 0 .. Capacity - 1, items[i] \in Events
        PROVE  /\ items[i] \in new
               /\ ~(queue_pc'[Pusher(items[i][1])] = "write" /\ event[items[i][1]] = items[i])
               /\ \A j \in 0 .. Capacity - 1 : items[i] = items[j] => i = j
    <3>1. /\ items[i] \in Claimed
          /\ ~(Writing(items[i][1]) /\ event[items[i][1]] = items[i])
          /\ \A j \in 0 .. Capacity - 1 : items[i] = items[j] => i = j
      BY <2>8 DEF Queued
    <3>2. PICK u \in Callers : u = items[i][1] BY <2>8 DEF Events
    <3>3. items[i] # event[t] BY <1>6, <2>1, <3>1
    <3>4. ~(Writing(u)' /\ event[u] = items[i]) BY <2>3, <3>1, <3>2, <3>3
    <3> QED BY <2>1, <3>1, <3>2, <3>4 DEF Writing
  <2>9. \A i \in tail_index + 1 .. Capacity - 1 : items[i] = Uninit BY <1>13 DEF Queued
  <2>10. (tail_index + 1) - 1 = tail_index BY <1>13
  <2>11. \A i \in 0 .. Capacity - 1 : items'[i] \in Events =>
          /\ items'[i] \in new
          /\ ~(queue_pc'[Pusher(items'[i][1])] = "write" /\ event'[items'[i][1]] = items'[i])
          /\ \A j \in 0 .. Capacity - 1 : items'[i] = items'[j] => i = j
    BY <1>1, <2>8
  <2> QED BY <1>1, <1>11, <1>14, <2>5, <2>6, <2>7, <2>9, <2>10, <2>11 DEF Queued, Writing
<1>19. Ending'
  <2>1. ~Holding(t) /\ ~Holding(t)' BY <1>1, <1>3, <1>6 DEF Holding
  <2> QED BY <1>1, <1>3, <1>4, <1>6, <2>1, EndingKept
<1>20. Staged' /\ Written'
  <2>1. destroyed' = destroyed BY <1>1 DEF heap, heap_vars
  <2> QED BY <1>1, <1>2, <1>3, <1>4, <2>1, WorkStays
<1>21. Memory' BY <1>1, <1>2, <1>4, MemoryKept
<1> QED BY <1>8, <1>15, <1>16, <1>17, <1>18, <1>19, <1>20, <1>21

LEMMA PushWriteWorks ==
  ASSUME IInv, TInv, Room, NEW t \in Callers, TraceQueue(t), Q!PushWrite(Pusher(t))
  PROVE  TInv'
<1> USE DEF TInv, Work
<1> DEFINE w == index[Pusher(t)]
<1>1. /\ at[t] = "queue" /\ at' = [at EXCEPT ![t] = IF queue_pc'[Pusher(t)] = "idle" THEN "idle" ELSE @]
      /\ queue_pc[Pusher(t)] = "write" /\ queue_pc' = [queue_pc EXCEPT ![Pusher(t)] = "release"]
      /\ items' = IF w \in 0 .. Capacity - 1 THEN [items EXCEPT ![w] = item[Pusher(t)]] ELSE items
      /\ UNCHANGED <<used_items, free_items, head_index, tail_index, index, item, ok, got>>
      /\ UNCHANGED <<client, stage, crashed, is_active, num_durations, events, semaphore, ended, text, write>>
      /\ UNCHANGED <<heap_vars, event, slot, pushed, popped>>
  BY DEF TraceQueue, Q!PushWrite, Q!Goto, Q!Slots, trace
<1>2. stage = 7 /\ client = "trace" /\ at[Main] # "call" /\ call[t].pc = "idle"
  BY <1>1, AtWork DEF IInv, Typed
<1>3. /\ queue_pc'[Pusher(t)] = "release" /\ queue_pc'[Popper(t)] = queue_pc[Popper(t)]
      /\ at'[t] = at[t]
  BY <1>1, Roles DEF IInv, Using, Typed, Q!TypeOK
<1>4. Others(t) BY <1>1, Roles DEF Others, IInv, Using, Typed, Q!TypeOK
<1>5. AlignedAt(t) /\ pushed[t] \in 0 .. PushBound /\ PushBound \in Nat
  BY TraceAssumption DEF Aligned, Typed
<1>6. queue_pc[Popper(t)] = "idle" /\ pushed[t] > 0 /\ event[t] = <<t, pushed[t]>>
      /\ item[Pusher(t)] = event[t]
  BY <1>1, <1>5 DEF AlignedAt
<1>7. AlignedAt(t)' BY <1>1, <1>3, <1>5 DEF AlignedAt
<1>8. Aligned' BY <1>4, <1>7, AlignedStep
<1>9. /\ CountedAt(t)' = CountedAt(t) /\ ClaimedAt(t)' = ClaimedAt(t) /\ FetchedAt(t)' = FetchedAt(t)
      /\ ClaimedAt(t) = pushed[t]
  BY <1>1, <1>3, <1>6 DEF CountedAt, ClaimedAt, FetchedAt
<1>10. Numbered' /\ Counted' = Counted /\ Claimed' = Claimed BY <1>1, <1>4, <1>9, NumbersKept
<1>11. event[t] \in Events /\ event[t] \in Claimed /\ Uninit \notin Events
  <2>1. event[t] \in Events BY <1>5, <1>6 DEF Events
  <2> QED BY <1>5, <1>6, <1>9, <2>1, TraceAssumption DEF Claimed
<1>12. w \in 0 .. tail_index - 1 /\ items[w] = Uninit BY <1>1 DEF Queued, Writing
<1>13. tail_index \in Nat /\ tail_index <= Capacity /\ head_index \in Nat /\ Capacity \in Nat
  BY Bounds, TraceAssumption DEF Room
<1>14. /\ \A i \in 0 .. tail_index - 1 : i \in 0 .. Capacity - 1
       /\ w \in 0 .. Capacity - 1 /\ items' = [items EXCEPT ![w] = event[t]]
       /\ items'[w] = event[t]
       /\ \A i \in 0 .. Capacity - 1 : i # w => items'[i] = items[i]
  <2>1. w \in 0 .. Capacity - 1 BY <1>12, <1>13
  <2>2. items' = [items EXCEPT ![w] = event[t]] BY <1>1, <1>6, <2>1
  <2>3. items \in [0 .. Capacity - 1 -> Events \cup {Uninit}] BY DEF Typed, Q!TypeOK, Q!Slots
  <2> QED BY <1>13, <2>1, <2>2, <2>3
<1>w. w = index[Pusher(t)] OBVIOUS
<1> HIDE DEF w
<1>15. Typed'
  <2>1. items' \in [0 .. Capacity - 1 -> Events \cup {Uninit}]
    BY <1>11, <1>14 DEF Typed, Q!TypeOK, Q!Slots
  <2>2. Q!TypeOK' BY <1>1, <2>1, Roles DEF Typed, Q!TypeOK, Q!Slots
  <2> QED BY <1>1, <2>2 DEF Typed
<1>16. Stored' BY <1>1, <1>3, <1>4, <1>10, StoredKept
<1>17. Queued'
  <2>1. Writing(t) /\ ~Writing(t)' BY <1>1, <1>3 DEF Writing
  <2>2. \A u \in Callers : /\ Writing(u)' <=> Writing(u) /\ u # t
                           /\ index'[Pusher(u)] = index[Pusher(u)] /\ event'[u] = event[u]
    <3>1. \A u \in Callers : u # t => (Writing(u)' <=> Writing(u)) BY <1>4 DEF Others, Writing
    <3> QED BY <1>1, <2>1, <3>1
  <2>3. \A u \in Callers : Writing(u)' =>
          index'[Pusher(u)] \in 0 .. tail_index - 1 /\ items'[index'[Pusher(u)]] = Uninit
    <3> SUFFICES ASSUME NEW u \in Callers, Writing(u)'
                 PROVE  index'[Pusher(u)] \in 0 .. tail_index - 1 /\ items'[index'[Pusher(u)]] = Uninit
      OBVIOUS
    <3>1. u # t /\ Writing(u) /\ index'[Pusher(u)] = index[Pusher(u)] BY <2>2
    <3>2. index[Pusher(u)] \in 0 .. tail_index - 1 /\ items[index[Pusher(u)]] = Uninit
          /\ index[Pusher(u)] # w
      BY <1>w, <2>1, <3>1 DEF Queued
    <3> QED BY <1>14, <3>1, <3>2
  <2>4. \A u, v \in Callers : Writing(u)' /\ Writing(v)' /\ index'[Pusher(u)] = index'[Pusher(v)] => u = v
    BY <2>2 DEF Queued
  <2>5. ASSUME NEW e \in Claimed
        PROVE  \/ \E i \in 0 .. tail_index - 1 : items'[i] = e
               \/ Writing(e[1])' /\ event'[e[1]] = e
    <3>0. e[1] \in Callers /\ e \in Events BY DEF Claimed, Events
    <3>1. CASE e = event[t] BY <1>12, <1>14, <3>1
    <3>2. ASSUME NEW i \in 0 .. tail_index - 1, items[i] = e
          PROVE  items'[i] = e
      <4>1. i # w BY <1>11, <1>12, <3>0, <3>2
      <4> QED BY <1>14, <3>2, <4>1
    <3>3. CASE Writing(e[1]) /\ event[e[1]] = e /\ e # event[t]
      <4>1. e[1] # t BY <3>3
      <4> QED BY <2>2, <3>0, <3>3, <4>1
    <3> QED BY <3>1, <3>2, <3>3 DEF Queued
  <2>6. \A j \in 0 .. Capacity - 1 : items[j] # event[t]
    <3>1. event[t][1] = t BY <1>6
    <3> QED BY <1>11, <2>1, <3>1 DEF Queued
  <2>7. ASSUME NEW i \in 0 .. Capacity - 1, items'[i] \in Events
        PROVE  /\ items'[i] \in Claimed
               /\ ~(queue_pc'[Pusher(items'[i][1])] = "write" /\ event'[items'[i][1]] = items'[i])
               /\ \A j \in 0 .. Capacity - 1 : items'[i] = items'[j] => i = j
    <3>1. CASE i = w
      <4>1. items'[i] = event[t] /\ event[t][1] = t BY <1>6, <1>14, <3>1
      <4>2. \A j \in 0 .. Capacity - 1 : items'[i] = items'[j] => i = j BY <1>14, <2>6, <3>1, <4>1
      <4>3. queue_pc'[Pusher(t)] # "write" BY <1>3
      <4> QED BY <1>11, <4>1, <4>2, <4>3
    <3>2. CASE i # w
      <4>1. items'[i] = items[i] BY <1>14, <3>2
      <4>2. /\ items[i] \in Claimed
            /\ ~(Writing(items[i][1]) /\ event[items[i][1]] = items[i])
            /\ \A j \in 0 .. Capacity - 1 : items[i] = items[j] => i = j
        BY <2>7, <4>1 DEF Queued
      <4>3. PICK u \in Callers : u = items[i][1] BY <2>7, <4>1 DEF Events
      <4>4. ~(Writing(u)' /\ event'[u] = items[i]) BY <2>2, <4>2, <4>3
      <4>5. \A j \in 0 .. Capacity - 1 : items[i] = items'[j] => i = j BY <1>14, <2>6, <4>2
      <4> QED BY <4>1, <4>2, <4>3, <4>4, <4>5 DEF Writing
    <3> QED BY <3>1, <3>2
  <2>8. \A i \in tail_index .. Capacity - 1 : items'[i] = Uninit
    <3>1. \A i \in tail_index .. Capacity - 1 : i \in 0 .. Capacity - 1 /\ i # w
      BY <1>12, <1>13
    <3> QED BY <1>14, <3>1 DEF Queued
  <2> QED BY <1>1, <1>10, <2>3, <2>4, <2>5, <2>7, <2>8 DEF Queued, Writing
<1>18. Ending'
  <2>1. \A u \in Callers : \A i : Reading(u, i)' <=> Reading(u, i)
    BY <1>1, <1>3, <1>4 DEF Reading, Others
  <2>2. \A u \in Callers : /\ Holding(u)' <=> Holding(u)
                           /\ InHand(u)' = InHand(u)
    <3>1. \A u \in Callers : queue_pc'[Popper(u)] = queue_pc[Popper(u)] /\ at'[u] = at[u]
      BY <1>3, <1>4 DEF Others
    <3> QED BY <1>1, <3>1 DEF Holding, InHand
  <2>3. Lost' <=> Lost BY <1>1, <2>2 DEF Lost
  <2>4. \A i \in 0 .. head_index - 1 : items[i] \in Events => items'[i] = items[i]
    <3>1. \A i \in 0 .. head_index - 1 : items[i] \in Events => i # w BY <1>11, <1>12
    <3>2. head_index <= Capacity BY Bounds, TraceAssumption DEF Room
    <3>3. \A i \in 0 .. head_index - 1 : i \in 0 .. Capacity - 1 BY <1>13, <3>2
    <3> QED BY <1>14, <3>1, <3>3
  <2>5. \A e \in Events : Read(e) => Read(e)' BY <1>1, <2>1, <2>4 DEF Read
  <2>6. \A u, v \in Callers, i \in 0 .. head_index - 1 : Reading(u, i)' /\ Reading(v, i)' => u = v
    BY <2>1 DEF Ending
  <2>7. \A u \in Callers : queue_pc'[Popper(u)] = "read" => index'[Popper(u)] \in 0 .. head_index - 1
    BY <1>1, <1>3, <1>4 DEF Others, Ending
  <2>8. \A u \in Callers : Holding(u)' =>
       \/ InHand(u)' = Uninit
       \/ /\ InHand(u)' \in Events /\ Read(InHand(u))' /\ ended'[InHand(u)'] = 0
          /\ \A v \in Callers : Holding(v)' /\ InHand(v)' = InHand(u)' => u = v
    BY <1>1, <2>2, <2>5 DEF Ending
  <2>9. \A e \in Events : ended'[e] = 0 \/ (ended'[e] = 1 /\ Read(e)') BY <1>1, <2>5 DEF Ending
  <2>10. ASSUME ~Lost', NEW i \in 0 .. head_index - 1
         PROVE  \/ \E u \in Callers : Reading(u, i)'
                \/ \E u \in Callers : Holding(u)' /\ InHand(u)' = items'[i]
                \/ items'[i] \in Events /\ ended'[items'[i]] = 1
    <3>1. CASE \E u \in Callers : Reading(u, i) BY <2>1, <3>1
    <3>2. CASE \E u \in Callers : Holding(u) /\ InHand(u) = items[i]
      <4>1. PICK u \in Callers : Holding(u) /\ InHand(u) = items[i] BY <3>2
      <4>2. InHand(u) # Uninit BY <2>3, <2>10, <4>1 DEF Lost
      <4>3. items[i] \in Events BY <4>1, <4>2 DEF Ending
      <4> QED BY <2>2, <2>4, <4>1, <4>3
    <3>3. CASE items[i] \in Events /\ ended[items[i]] = 1 BY <1>1, <2>4, <3>3
    <3> QED BY <2>3, <2>10, <3>1, <3>2, <3>3 DEF Ending
  <2> QED BY <1>1, <2>6, <2>7, <2>8, <2>9, <2>10 DEF Ending
<1>19. Staged' /\ Written'
  <2>1. destroyed' = destroyed BY <1>1 DEF heap, heap_vars
  <2> QED BY <1>1, <1>2, <1>3, <1>4, <2>1, WorkStays
<1>20. Memory' BY <1>1, <1>2, <1>4, MemoryKept
<1> QED BY <1>8, <1>10, <1>15, <1>16, <1>17, <1>18, <1>19, <1>20

LEMMA PushReleaseWorks ==
  ASSUME IInv, TInv, NEW t \in Callers, TraceQueue(t), Q!PushRelease(Pusher(t))
  PROVE  TInv'
<1> USE DEF TInv, Work
<1>1. /\ at[t] = "queue" /\ at' = [at EXCEPT ![t] = IF queue_pc'[Pusher(t)] = "idle" THEN "idle" ELSE @]
      /\ queue_pc[Pusher(t)] = "release" /\ queue_pc' = [queue_pc EXCEPT ![Pusher(t)] = "idle"]
      /\ used_items' = Q!Release(used_items) /\ ok' = [ok EXCEPT ![Pusher(t)] = TRUE]
      /\ UNCHANGED <<free_items, items, head_index, tail_index, index, item, got>>
      /\ UNCHANGED <<client, stage, crashed, is_active, num_durations, events, semaphore, ended, text, write>>
      /\ UNCHANGED <<heap_vars, event, slot, pushed, popped>>
  BY DEF TraceQueue, Q!PushRelease, Q!Goto, trace
<1>2. stage = 7 /\ client = "trace" /\ at[Main] # "call" /\ call[t].pc = "idle"
  BY <1>1, AtWork DEF IInv, Typed
<1>3. /\ queue_pc'[Pusher(t)] = "idle" /\ queue_pc'[Popper(t)] = queue_pc[Popper(t)]
      /\ at'[t] = "idle"
  BY <1>1, Roles DEF IInv, Using, Typed, Q!TypeOK
<1>4. Others(t) BY <1>1, Roles DEF Others, IInv, Using, Typed, Q!TypeOK
<1>5. AlignedAt(t) BY DEF Aligned
<1>6. queue_pc[Popper(t)] = "idle" BY <1>1, <1>5 DEF AlignedAt
<1>7. AlignedAt(t)' BY <1>1, <1>3, <1>5, <1>6 DEF AlignedAt
<1>8. Aligned' BY <1>4, <1>7, AlignedStep
<1>9. /\ CountedAt(t)' = CountedAt(t) /\ ClaimedAt(t)' = ClaimedAt(t) /\ FetchedAt(t)' = FetchedAt(t)
  BY <1>1, <1>3, <1>6 DEF CountedAt, ClaimedAt, FetchedAt
<1>10. Numbered' /\ Counted' = Counted /\ Claimed' = Claimed BY <1>1, <1>4, <1>9, NumbersKept
<1>11. Typed'
  <2>1. used_items' \in 0 .. Capacity
    <3>1. used_items \in 0 .. Capacity /\ Capacity \in Nat BY TraceAssumption DEF Typed, Q!TypeOK
    <3> QED BY <1>1, <3>1 DEF Q!Release
  <2>2. Q!TypeOK' BY <1>1, <2>1, Roles DEF Typed, Q!TypeOK
  <2> QED BY <1>1, <2>2 DEF Typed
<1>12. Stored' BY <1>1, <1>3, <1>4, <1>10, StoredKept
<1>13. Queued'
  <2>1. queue_pc[Pusher(t)] # "write" /\ queue_pc'[Pusher(t)] # "write" BY <1>1, <1>3
  <2> QED BY <1>1, <1>4, <1>10, <2>1, QueuedKept
<1>14. Ending'
  <2>1. ~Holding(t) /\ ~Holding(t)' BY <1>1, <1>3, <1>6 DEF Holding
  <2> QED BY <1>1, <1>3, <1>4, <1>6, <2>1, EndingKept
<1>15. Staged' /\ Written'
  <2>1. destroyed' = destroyed BY <1>1 DEF heap, heap_vars
  <2> QED BY <1>1, <1>2, <1>3, <1>4, <2>1, WorkStays
<1>16. Memory' BY <1>1, <1>2, <1>4, MemoryKept
<1> QED BY <1>8, <1>10, <1>11, <1>12, <1>13, <1>14, <1>15, <1>16
-----------------------------------------------------------------------------
(* A pop, and the steps of queue_pop. *)
LEMMA PopWorks ==
  ASSUME IInv, TInv, NEW t \in Callers, TracePop(t)
  PROVE  TInv'
<1> USE DEF TInv, Work
<1>0. /\ at[t] = "idle" /\ at' = [at EXCEPT ![t] = "acquire"] /\ popped[t] < pushed[t]
      /\ popped' = [popped EXCEPT ![t] = @ + 1] /\ call[t].pc = "idle"
      /\ Program[stage][1] = "run"
      /\ UNCHANGED <<heap_vars, trace, queue, event, slot, pushed>>
  BY DEF TracePop, Goto, Running, Idle, Doing
<1>1. /\ at[t] = "idle" /\ at' = [at EXCEPT ![t] = "acquire"] /\ popped[t] < pushed[t]
      /\ popped' = [popped EXCEPT ![t] = @ + 1] /\ call[t].pc = "idle"
      /\ UNCHANGED <<used_items, free_items, items, head_index, tail_index, queue_pc, index, item, ok, got>>
      /\ UNCHANGED <<client, stage, crashed, is_active, num_durations, events, semaphore, ended, text, write>>
      /\ UNCHANGED <<heap_vars, event, slot, pushed>>
  BY <1>0 DEF queue, trace
<1>2. stage = 7 /\ client = "trace" /\ at[Main] # "call" BY <1>0, RunStage DEF IInv, Typed
<1>3. at'[t] = "acquire" /\ popped'[t] = popped[t] + 1 BY <1>1 DEF IInv, Using, Typed
<1>4. Others(t) BY <1>1, Roles DEF Others, IInv, Using, Typed, Q!TypeOK
<1>5. AlignedAt(t) /\ pushed[t] \in 0 .. PushBound /\ popped[t] \in 0 .. PushBound /\ PushBound \in Nat
  BY TraceAssumption DEF Aligned, Typed
<1>6. queue_pc[Pusher(t)] = "idle" /\ queue_pc[Popper(t)] = "idle" BY <1>1, <1>5 DEF AlignedAt
<1>7. AlignedAt(t)' BY <1>1, <1>3, <1>5, <1>6 DEF AlignedAt
<1>8. Aligned' BY <1>4, <1>7, AlignedStep
<1>9. /\ CountedAt(t)' = CountedAt(t) /\ ClaimedAt(t)' = ClaimedAt(t) /\ FetchedAt(t)' = FetchedAt(t)
  BY <1>1, <1>3, <1>5, <1>6 DEF CountedAt, ClaimedAt, FetchedAt
<1>10. Numbered' /\ Counted' = Counted /\ Claimed' = Claimed BY <1>1, <1>4, <1>9, NumbersKept
<1>11. Typed'
  <2>1. popped' \in [Callers -> 0 .. PushBound] BY <1>1, <1>5 DEF Typed
  <2> QED BY <1>1, <2>1 DEF Typed, Q!TypeOK
<1>12. Stored' BY <1>1, <1>3, <1>4, <1>10, StoredKept
<1>13. Queued' BY <1>1, <1>3, <1>4, <1>6, <1>10, QueuedKept
<1>14. Ending'
  <2>1. ~Holding(t) /\ ~Holding(t)' BY <1>1, <1>3, <1>6 DEF Holding
  <2>2. queue_pc[Popper(t)] # "read" /\ queue_pc'[Popper(t)] # "read" BY <1>1, <1>3, <1>6
  <2> QED BY <1>1, <1>4, <2>1, <2>2, EndingKept
<1>15. Staged' /\ Written'
  <2>1. destroyed' = destroyed BY <1>1 DEF heap, heap_vars
  <2> QED BY <1>1, <1>2, <1>3, <1>4, <2>1, WorkStays
<1>16. Memory' BY <1>1, <1>2, <1>4, MemoryKept
<1> QED BY <1>8, <1>10, <1>11, <1>12, <1>13, <1>14, <1>15, <1>16

LEMMA AcquireWorks ==
  ASSUME IInv, TInv, NEW t \in Callers, TraceAcquire(t)
  PROVE  TInv'
<1> USE DEF TInv, Work
<1>1. /\ at[t] = "acquire" /\ at' = [at EXCEPT ![t] = "pop"] /\ semaphore > 0 /\ semaphore' = semaphore - 1
      /\ queue_pc[Popper(t)] = "idle" /\ queue_pc' = [queue_pc EXCEPT ![Popper(t)] = "acquire"]
      /\ UNCHANGED <<used_items, free_items, items, head_index, tail_index, index, item, ok, got>>
      /\ UNCHANGED <<client, stage, crashed, is_active, num_durations, events, ended, text, write>>
      /\ UNCHANGED <<heap_vars, event, slot, pushed, popped>>
  BY DEF TraceAcquire, Goto, Q!PopCall, Q!Goto, Q!shared
<1>2. stage = 7 /\ client = "trace" /\ at[Main] # "call" /\ call[t].pc = "idle"
  BY <1>1, AtWork DEF IInv, Typed
<1>3. /\ queue_pc'[Popper(t)] = "acquire" /\ queue_pc'[Pusher(t)] = queue_pc[Pusher(t)]
      /\ at'[t] = "pop"
  BY <1>1, Roles DEF IInv, Using, Typed, Q!TypeOK
<1>4. Others(t) BY <1>1, Roles DEF Others, IInv, Using, Typed, Q!TypeOK
<1>5. AlignedAt(t) /\ pushed[t] \in 0 .. PushBound /\ popped[t] \in 0 .. PushBound /\ PushBound \in Nat
  BY TraceAssumption DEF Aligned, Typed
<1>6. queue_pc[Pusher(t)] = "idle" /\ popped[t] > 0 BY <1>1, <1>5 DEF AlignedAt
<1>7. AlignedAt(t)' BY <1>1, <1>3, <1>5, <1>6 DEF AlignedAt
<1>8. Aligned' BY <1>4, <1>7, AlignedStep
<1>9. /\ CountedAt(t)' = CountedAt(t) /\ ClaimedAt(t)' = ClaimedAt(t) /\ FetchedAt(t)' = FetchedAt(t)
  BY <1>1, <1>3, <1>5, <1>6 DEF CountedAt, ClaimedAt, FetchedAt
<1>10. Numbered' /\ Counted' = Counted /\ Claimed' = Claimed BY <1>1, <1>4, <1>9, NumbersKept
<1>11. Typed' BY <1>1, Roles DEF Typed, Q!TypeOK
<1>12. Stored' BY <1>1, <1>3, <1>4, <1>10, StoredKept
<1>13. Queued' BY <1>1, <1>3, <1>4, <1>6, <1>10, QueuedKept
<1>14. Ending'
  <2>1. ~Holding(t) /\ ~Holding(t)' BY <1>1, <1>3, <1>6 DEF Holding
  <2>2. queue_pc[Popper(t)] # "read" /\ queue_pc'[Popper(t)] # "read" BY <1>1, <1>3, <1>6
  <2> QED BY <1>1, <1>4, <2>1, <2>2, EndingKept
<1>15. Staged' /\ Written'
  <2>1. destroyed' = destroyed BY <1>1 DEF heap, heap_vars
  <2> QED BY <1>1, <1>2, <1>3, <1>4, <2>1, WorkStays
<1>16. Memory' BY <1>1, <1>2, <1>4, MemoryKept
<1> QED BY <1>8, <1>10, <1>11, <1>12, <1>13, <1>14, <1>15, <1>16

LEMMA PopAcquireWorks ==
  ASSUME IInv, TInv, NEW t \in Callers, TraceDequeue(t), Q!PopAcquire(Popper(t))
  PROVE  TInv'
<1> USE DEF TInv, Work
<1>1. /\ at[t] = "pop" /\ at' = [at EXCEPT ![t] = IF queue_pc'[Popper(t)] = "idle" THEN "release" ELSE @]
      /\ queue_pc[Popper(t)] = "acquire" /\ queue_pc' = [queue_pc EXCEPT ![Popper(t)] = "claim"]
      /\ used_items > 0 /\ used_items' = used_items - 1
      /\ UNCHANGED <<free_items, items, head_index, tail_index, index, item, ok, got>>
      /\ UNCHANGED <<client, stage, crashed, is_active, num_durations, events, semaphore, ended, text, write>>
      /\ UNCHANGED <<heap_vars, event, slot, pushed, popped>>
  BY DEF TraceDequeue, Q!PopAcquire, Q!Goto, Q!shared, trace
<1>2. stage = 7 /\ client = "trace" /\ at[Main] # "call" /\ call[t].pc = "idle"
  BY <1>1, AtWork DEF IInv, Typed
<1>3. /\ queue_pc'[Popper(t)] = "claim" /\ queue_pc'[Pusher(t)] = queue_pc[Pusher(t)]
      /\ at'[t] = "pop"
  BY <1>1, Roles DEF IInv, Using, Typed, Q!TypeOK
<1>4. Others(t) BY <1>1, Roles DEF Others, IInv, Using, Typed, Q!TypeOK
<1>5. AlignedAt(t) /\ pushed[t] \in 0 .. PushBound /\ popped[t] \in 0 .. PushBound /\ PushBound \in Nat
  BY TraceAssumption DEF Aligned, Typed
<1>6. queue_pc[Pusher(t)] = "idle" /\ popped[t] > 0 BY <1>1, <1>5 DEF AlignedAt
<1>7. AlignedAt(t)' BY <1>1, <1>3, <1>5, <1>6 DEF AlignedAt
<1>8. Aligned' BY <1>4, <1>7, AlignedStep
<1>9. /\ CountedAt(t)' = CountedAt(t) /\ ClaimedAt(t)' = ClaimedAt(t) /\ FetchedAt(t)' = FetchedAt(t)
  BY <1>1, <1>3, <1>5, <1>6 DEF CountedAt, ClaimedAt, FetchedAt
<1>10. Numbered' /\ Counted' = Counted /\ Claimed' = Claimed BY <1>1, <1>4, <1>9, NumbersKept
<1>11. Typed'
  <2>1. used_items' \in 0 .. Capacity BY <1>1, TraceAssumption DEF Typed, Q!TypeOK
  <2>2. Q!TypeOK' BY <1>1, <2>1, Roles DEF Typed, Q!TypeOK
  <2> QED BY <1>1, <2>2 DEF Typed
<1>12. Stored' BY <1>1, <1>3, <1>4, <1>10, StoredKept
<1>13. Queued' BY <1>1, <1>3, <1>4, <1>6, <1>10, QueuedKept
<1>14. Ending'
  <2>1. ~Holding(t) /\ ~Holding(t)' BY <1>1, <1>3, <1>6 DEF Holding
  <2>2. queue_pc[Popper(t)] # "read" /\ queue_pc'[Popper(t)] # "read" BY <1>1, <1>3, <1>6
  <2> QED BY <1>1, <1>4, <2>1, <2>2, EndingKept
<1>15. Staged' /\ Written'
  <2>1. destroyed' = destroyed BY <1>1 DEF heap, heap_vars
  <2> QED BY <1>1, <1>2, <1>3, <1>4, <2>1, WorkStays
<1>16. Memory' BY <1>1, <1>2, <1>4, MemoryKept
<1> QED BY <1>8, <1>10, <1>11, <1>12, <1>13, <1>14, <1>15, <1>16

LEMMA PopClaimWorks ==
  ASSUME IInv, TInv, Room, NEW t \in Callers, TraceDequeue(t), Q!PopClaim(Popper(t))
  PROVE  TInv'
<1> USE DEF TInv, Work
<1>1. /\ at[t] = "pop" /\ at' = [at EXCEPT ![t] = IF queue_pc'[Popper(t)] = "idle" THEN "release" ELSE @]
      /\ queue_pc[Popper(t)] = "claim" /\ queue_pc' = [queue_pc EXCEPT ![Popper(t)] = "read"]
      /\ index' = [index EXCEPT ![Popper(t)] = Q!CRemainder(head_index, Capacity)]
      /\ head_index' = Q!Increment(head_index)
      /\ UNCHANGED <<used_items, free_items, items, tail_index, item, ok, got>>
      /\ UNCHANGED <<client, stage, crashed, is_active, num_durations, events, semaphore, ended, text, write>>
      /\ UNCHANGED <<heap_vars, event, slot, pushed, popped>>
  BY DEF TraceDequeue, Q!PopClaim, Q!Goto, Q!shared, trace
<1>2. stage = 7 /\ client = "trace" /\ at[Main] # "call" /\ call[t].pc = "idle"
  BY <1>1, AtWork DEF IInv, Typed
<1>3. /\ queue_pc'[Popper(t)] = "read" /\ queue_pc'[Pusher(t)] = queue_pc[Pusher(t)]
      /\ at'[t] = "pop"
  BY <1>1, Roles DEF IInv, Using, Typed, Q!TypeOK
<1>4. Others(t) BY <1>1, Roles DEF Others, IInv, Using, Typed, Q!TypeOK
<1>5. AlignedAt(t) /\ pushed[t] \in 0 .. PushBound /\ popped[t] \in 0 .. PushBound /\ PushBound \in Nat
  BY TraceAssumption DEF Aligned, Typed
<1>6. queue_pc[Pusher(t)] = "idle" /\ popped[t] > 0 BY <1>1, <1>5 DEF AlignedAt
<1>7. AlignedAt(t)' BY <1>1, <1>3, <1>5, <1>6 DEF AlignedAt
<1>8. Aligned' BY <1>4, <1>7, AlignedStep
<1>9. /\ CountedAt(t)' = CountedAt(t) /\ ClaimedAt(t)' = ClaimedAt(t)
      /\ FetchedAt(t) = popped[t] - 1 /\ FetchedAt(t)' = popped[t]
  BY <1>1, <1>3, <1>6 DEF CountedAt, ClaimedAt, FetchedAt
<1>a. Counted' = Counted /\ Claimed' = Claimed BY <1>4, <1>9, LevelsSame
<1>b. PICK new : new = Fetched' OBVIOUS
<1>c. Risen(t, popped[t], Fetched, new) BY <1>4, <1>6, <1>9, <1>b, FetchedRises
<1>d. head_index \in 0 .. Capacity - 1
  BY <1>c, EventsFinite, TraceAssumption DEF Numbered, Risen, Room
<1>e. /\ index' = [index EXCEPT ![Popper(t)] = head_index] /\ head_index' = head_index + 1
      /\ head_index \in Int /\ Capacity \in Nat
  <2>1. Q!CRemainder(head_index, Capacity) = head_index /\ Q!Increment(head_index) = head_index + 1
    BY <1>d, RemainderOfIndex
  <2>2. head_index \in Int /\ Capacity \in Nat BY <1>d, TraceAssumption
  <2> QED BY <1>1, <2>1, <2>2
<1>10. Numbered' /\ Counted' = Counted /\ Claimed' = Claimed
  BY <1>1, <1>a, <1>b, <1>c, <1>e DEF Numbered, Risen
<1>11. Typed'
  <2>1. index' \in [Q!Threads -> Int] BY <1>e DEF Typed, Q!TypeOK
  <2>2. Q!TypeOK' BY <1>1, <1>e, <2>1, Roles, SMTT(40) DEF Typed, Q!TypeOK
  <2> QED BY <1>1, <2>2 DEF Typed
<1>12. Stored' BY <1>1, <1>3, <1>4, <1>10, StoredKept
<1>13. Queued' BY <1>1, <1>3, <1>4, <1>6, <1>10, QueuedKept
<1>14. Ending'
  <2>1. index'[Popper(t)] = head_index BY <1>e, Roles DEF Typed, Q!TypeOK
  <2>2. \A u \in Callers : u # t => /\ queue_pc'[Popper(u)] = queue_pc[Popper(u)]
                                    /\ index'[Popper(u)] = index[Popper(u)]
    BY <1>4 DEF Others
  <2>3. \A i \in 0 .. head_index - 1 : \A u \in Callers : Reading(u, i)' <=> Reading(u, i)
    BY <1>1, <1>d, <2>1, <2>2 DEF Reading
  <2>4. \A u \in Callers : /\ Holding(u)' <=> Holding(u)
                           /\ Holding(u) => InHand(u)' = InHand(u)
    <3>1. ~Holding(t) /\ ~Holding(t)' BY <1>1, <1>3 DEF Holding
    <3>2. \A u \in Callers : u # t => at'[u] = at[u] BY <1>4 DEF Others
    <3> QED BY <1>1, <2>2, <3>1, <3>2 DEF Holding, InHand
  <2>5. Lost' <=> Lost BY <1>1, <2>4 DEF Lost
  <2>6. \A e \in Events : Read(e) => Read(e)' BY <1>1, <1>d, <1>e, <2>3 DEF Read
  <2>7. \A u \in Callers : queue_pc'[Popper(u)] = "read" => index'[Popper(u)] \in 0 .. head_index
    BY <1>d, <2>1, <2>2 DEF Ending
  <2>8. \A u, v \in Callers, i \in 0 .. head_index : Reading(u, i)' /\ Reading(v, i)' => u = v
    <3>1. \A u \in Callers : u # t /\ queue_pc'[Popper(u)] = "read" => index'[Popper(u)] # head_index
      BY <1>d, <2>2 DEF Ending
    <3>2. ASSUME NEW u \in Callers, NEW v \in Callers, NEW i \in 0 .. head_index,
                 queue_pc'[Popper(u)] = "read" /\ index'[Popper(u)] = i,
                 queue_pc'[Popper(v)] = "read" /\ index'[Popper(v)] = i
          PROVE  u = v
      <4>1. CASE i = head_index BY <3>1, <3>2, <4>1
      <4>2. CASE i # head_index
        <5>1. i \in 0 .. head_index - 1 /\ u # t /\ v # t BY <1>d, <2>1, <3>2, <4>2
        <5> QED BY <2>2, <3>2, <5>1 DEF Ending, Reading
      <4> QED BY <4>1, <4>2
    <3> QED BY <3>2 DEF Reading
  <2>9. \A u \in Callers : Holding(u)' =>
       \/ InHand(u)' = Uninit
       \/ /\ InHand(u)' \in Events /\ Read(InHand(u))' /\ ended'[InHand(u)'] = 0
          /\ \A v \in Callers : Holding(v)' /\ InHand(v)' = InHand(u)' => u = v
    BY <1>1, <2>4, <2>6 DEF Ending
  <2>10. \A e \in Events : ended'[e] = 0 \/ (ended'[e] = 1 /\ Read(e)') BY <1>1, <2>6 DEF Ending
  <2>11. ASSUME ~Lost', NEW i \in 0 .. head_index
         PROVE  \/ \E u \in Callers : queue_pc'[Popper(u)] = "read" /\ index'[Popper(u)] = i
                \/ \E u \in Callers : Holding(u)' /\ InHand(u)' = items[i]
                \/ items[i] \in Events /\ ended[items[i]] = 1
    <3>1. CASE i = head_index BY <1>3, <2>1, <3>1
    <3>2. CASE i \in 0 .. head_index - 1
      <4>1. \/ \E u \in Callers : Reading(u, i)
            \/ \E u \in Callers : Holding(u) /\ InHand(u) = items[i]
            \/ items[i] \in Events /\ ended[items[i]] = 1
        BY <2>5, <2>11, <3>2 DEF Ending
      <4>2. CASE \E u \in Callers : Reading(u, i) BY <1>1, <2>2, <4>2 DEF Reading
      <4> QED BY <2>4, <4>1, <4>2
    <3> QED BY <1>d, <3>1, <3>2
  <2>12. (head_index + 1) - 1 = head_index BY <1>d
  <2> QED BY <1>1, <1>e, <2>7, <2>8, <2>9, <2>10, <2>11, <2>12 DEF Ending, Reading
<1>15. Staged' /\ Written'
  <2>1. destroyed' = destroyed BY <1>1 DEF heap, heap_vars
  <2> QED BY <1>1, <1>2, <1>3, <1>4, <2>1, WorkStays
<1>16. Memory' BY <1>1, <1>2, <1>4, MemoryKept
<1> QED BY <1>8, <1>10, <1>11, <1>12, <1>13, <1>14, <1>15, <1>16

LEMMA PopReadWorks ==
  ASSUME IInv, TInv, Room, NEW t \in Callers, TraceDequeue(t), Q!PopRead(Popper(t))
  PROVE  TInv'
<1> USE DEF TInv, Work
<1>1. /\ at[t] = "pop" /\ at' = [at EXCEPT ![t] = IF queue_pc'[Popper(t)] = "idle" THEN "release" ELSE @]
      /\ queue_pc[Popper(t)] = "read" /\ queue_pc' = [queue_pc EXCEPT ![Popper(t)] = "release"]
      /\ \E x \in IF index[Popper(t)] \in 0 .. Capacity - 1
                  THEN {items[index[Popper(t)]]} ELSE Events \cup {Uninit} :
           item' = [item EXCEPT ![Popper(t)] = x]
      /\ UNCHANGED <<used_items, free_items, items, head_index, tail_index, index, ok, got>>
      /\ UNCHANGED <<client, stage, crashed, is_active, num_durations, events, semaphore, ended, text, write>>
      /\ UNCHANGED <<heap_vars, event, slot, pushed, popped>>
  BY DEF TraceDequeue, Q!PopRead, Q!Slots, Q!Goto, Q!shared, trace
<1>2. stage = 7 /\ client = "trace" /\ at[Main] # "call" /\ call[t].pc = "idle"
  BY <1>1, AtWork DEF IInv, Typed
<1>3. /\ queue_pc'[Popper(t)] = "release" /\ queue_pc'[Pusher(t)] = queue_pc[Pusher(t)]
      /\ at'[t] = "pop"
  BY <1>1, Roles DEF IInv, Using, Typed, Q!TypeOK
<1>4. Others(t) BY <1>1, Roles DEF Others, IInv, Using, Typed, Q!TypeOK
<1>5. AlignedAt(t) /\ pushed[t] \in 0 .. PushBound /\ popped[t] \in 0 .. PushBound /\ PushBound \in Nat
  BY TraceAssumption DEF Aligned, Typed
<1>6. queue_pc[Pusher(t)] = "idle" /\ popped[t] > 0 BY <1>1, <1>5 DEF AlignedAt
<1>7. AlignedAt(t)' BY <1>1, <1>3, <1>5, <1>6 DEF AlignedAt
<1>8. Aligned' BY <1>4, <1>7, AlignedStep
<1>9. /\ CountedAt(t)' = CountedAt(t) /\ ClaimedAt(t)' = ClaimedAt(t) /\ FetchedAt(t)' = FetchedAt(t)
  BY <1>1, <1>3, <1>5, <1>6 DEF CountedAt, ClaimedAt, FetchedAt
<1>10. Numbered' /\ Counted' = Counted /\ Claimed' = Claimed BY <1>1, <1>4, <1>9, NumbersKept
<1>v. PICK w : w = index[Popper(t)] OBVIOUS
<1>w. PICK x : w = index[Popper(t)] /\ x = items[w] BY <1>v
<1>a. head_index \in Nat /\ head_index <= Capacity /\ Capacity \in Nat
  BY Bounds, TraceAssumption DEF Room
<1>b. w \in 0 .. head_index - 1 /\ w \in 0 .. Capacity - 1
  <2>1. w \in 0 .. head_index - 1 BY <1>1, <1>w DEF Ending
  <2> QED BY <1>a, <2>1
<1>c. item' = [item EXCEPT ![Popper(t)] = x] /\ x \in Events \cup {Uninit}
  BY <1>1, <1>b, <1>w DEF Typed, Q!TypeOK, Q!Slots
<1>d. item'[Popper(t)] = x BY <1>c, Roles DEF Typed, Q!TypeOK
<1>11. Typed'
  <2>1. Q!TypeOK' BY <1>1, <1>c, Roles DEF Typed, Q!TypeOK
  <2> QED BY <1>1, <2>1 DEF Typed
<1>12. Stored' BY <1>1, <1>3, <1>4, <1>10, StoredKept
<1>13. Queued' BY <1>1, <1>3, <1>4, <1>6, <1>10, QueuedKept
<1>14. Ending'
  <2>1. Reading(t, w) /\ \A i : ~Reading(t, i)' BY <1>1, <1>3, <1>w DEF Reading
  <2>2. \A u \in Callers : \A i : Reading(u, i)' => Reading(u, i) /\ u # t
    BY <1>4, <2>1 DEF Reading, Others
  <2>a. \A u \in Callers : \A i : Reading(u, i) /\ u # t => Reading(u, i)'
    BY <1>4 DEF Reading, Others
  <2>3. ~Holding(t) /\ Holding(t)' /\ InHand(t)' = x BY <1>1, <1>3, <1>d DEF Holding, InHand
  <2>4. \A u \in Callers : u # t => /\ Holding(u)' <=> Holding(u)
                                    /\ InHand(u)' = InHand(u)
    BY <1>4 DEF Others, Holding, InHand
  <2>5. \A e \in Events : Read(e) => Read(e)' BY <1>1, <2>2 DEF Read
  <2>6. x \in Events => ~Read(x) /\ Read(x)'
    <3> SUFFICES ASSUME x \in Events PROVE ~Read(x) /\ \E i \in 0 .. head_index - 1 :
                           items[i] = x /\ \A u \in Callers : ~Reading(u, i)'
      BY <1>1, <1>w DEF Read
    <3>1. \A i \in 0 .. head_index - 1 : i \in 0 .. Capacity - 1 BY <1>a
    <3>2. \A i \in 0 .. head_index - 1 : items[i] = x => i = w BY <1>b, <1>w, <3>1 DEF Queued
    <3>3. ~Read(x) BY <2>1, <3>2 DEF Read
    <3>4. \A u \in Callers : Reading(u, w) => u = t BY <1>b, <2>1 DEF Ending
    <3>5. \A u \in Callers : ~Reading(u, w)' BY <2>2, <3>4
    <3> QED BY <1>b, <1>w, <3>3, <3>5
  <2>7. x \in Events => ended[x] = 0 BY <2>6 DEF Ending
  <2>8. \A u \in Callers : u # t /\ Holding(u) => InHand(u) # x \/ x = Uninit
    BY <2>6, <1>c DEF Ending
  <2>9. \A u \in Callers : queue_pc'[Popper(u)] = "read" => index'[Popper(u)] \in 0 .. head_index - 1
    BY <1>1, <1>3, <1>4 DEF Others, Ending
  <2>10. \A u, v \in Callers, i \in 0 .. head_index - 1 : Reading(u, i)' /\ Reading(v, i)' => u = v
    BY <2>2 DEF Ending
  <2>11. ASSUME NEW u \in Callers, Holding(u)'
         PROVE  \/ InHand(u)' = Uninit
                \/ /\ InHand(u)' \in Events /\ Read(InHand(u))' /\ ended'[InHand(u)'] = 0
                   /\ \A v \in Callers : Holding(v)' /\ InHand(v)' = InHand(u)' => u = v
    <3>1. CASE u = t
      <4>1. InHand(u)' = x BY <2>3, <3>1
      <4>2. CASE x = Uninit BY <4>1, <4>2
      <4>3. CASE x \in Events
        <5>1. \A v \in Callers : Holding(v)' /\ InHand(v)' = x => t = v
          BY <2>4, <2>8, <4>3, TraceAssumption
        <5>2. PICK h : h = InHand(u)' OBVIOUS
        <5>3. Read(InHand(u))' <=> Read(h)' BY <5>2 DEF Read
        <5> QED BY <1>1, <2>6, <2>7, <3>1, <4>1, <4>3, <5>1, <5>2, <5>3
      <4> QED BY <1>c, <4>2, <4>3
    <3>2. CASE u # t
      <4>1. Holding(u) /\ InHand(u)' = InHand(u) BY <2>4, <2>11, <3>2
      <4>2. CASE InHand(u) = Uninit BY <4>1, <4>2
      <4>3. CASE InHand(u) # Uninit
        <5>1. /\ InHand(u) \in Events /\ Read(InHand(u)) /\ ended[InHand(u)] = 0
              /\ \A v \in Callers : Holding(v) /\ InHand(v) = InHand(u) => u = v
          BY <4>1, <4>3 DEF Ending
        <5>2. PICK h : h = InHand(u) OBVIOUS
        <5>3. Read(h)' BY <2>5, <5>1, <5>2
        <5>4. Read(InHand(u))' BY <4>1, <5>2, <5>3 DEF Read
        <5>5. \A v \in Callers : Holding(v)' /\ InHand(v)' = InHand(u) => u = v
          BY <2>3, <2>4, <2>8, <3>2, <4>1, <4>3, <5>1
        <5> QED BY <1>1, <4>1, <5>1, <5>4, <5>5
      <4> QED BY <4>2, <4>3
    <3> QED BY <3>1, <3>2
  <2>12. \A e \in Events : ended'[e] = 0 \/ (ended'[e] = 1 /\ Read(e)') BY <1>1, <2>5 DEF Ending
  <2>13. ~Lost' => ~Lost /\ x # Uninit BY <1>1, <2>3, <2>4 DEF Lost
  <2>14. ASSUME ~Lost', NEW i \in 0 .. head_index - 1
         PROVE  \/ \E u \in Callers : Reading(u, i)'
                \/ \E u \in Callers : Holding(u)' /\ InHand(u)' = items[i]
                \/ items[i] \in Events /\ ended[items[i]] = 1
    <3>1. CASE i = w BY <1>w, <2>3, <3>1
    <3>2. CASE i # w
      <4>1. ~Reading(t, i) BY <1>w, <3>2 DEF Reading
      <4> QED BY <2>3, <2>4, <2>a, <2>13, <2>14, <4>1 DEF Ending
    <3> QED BY <3>1, <3>2
  <2> QED BY <1>1, <2>9, <2>10, <2>11, <2>12, <2>14 DEF Ending
<1>15. Staged' /\ Written'
  <2>1. destroyed' = destroyed BY <1>1 DEF heap, heap_vars
  <2> QED BY <1>1, <1>2, <1>3, <1>4, <2>1, WorkStays
<1>16. Memory' BY <1>1, <1>2, <1>4, MemoryKept
<1> QED BY <1>8, <1>10, <1>11, <1>12, <1>13, <1>14, <1>15, <1>16

LEMMA PopReleaseWorks ==
  ASSUME IInv, TInv, NEW t \in Callers, TraceDequeue(t), Q!PopRelease(Popper(t))
  PROVE  TInv'
<1> USE DEF TInv, Work
<1>1. /\ at[t] = "pop" /\ at' = [at EXCEPT ![t] = IF queue_pc'[Popper(t)] = "idle" THEN "release" ELSE @]
      /\ queue_pc[Popper(t)] = "release" /\ queue_pc' = [queue_pc EXCEPT ![Popper(t)] = "idle"]
      /\ free_items' = Q!Release(free_items) /\ got' = [got EXCEPT ![Popper(t)] = item[Popper(t)]]
      /\ UNCHANGED <<used_items, items, head_index, tail_index, index, item, ok>>
      /\ UNCHANGED <<client, stage, crashed, is_active, num_durations, events, semaphore, ended, text, write>>
      /\ UNCHANGED <<heap_vars, event, slot, pushed, popped>>
  BY DEF TraceDequeue, Q!PopRelease, Q!Goto, Q!shared, trace
<1>2. stage = 7 /\ client = "trace" /\ at[Main] # "call" /\ call[t].pc = "idle"
  BY <1>1, AtWork DEF IInv, Typed
<1>3. /\ queue_pc'[Popper(t)] = "idle" /\ queue_pc'[Pusher(t)] = queue_pc[Pusher(t)]
      /\ at'[t] = "release"
  BY <1>1, Roles DEF IInv, Using, Typed, Q!TypeOK
<1>4. Others(t) BY <1>1, Roles DEF Others, IInv, Using, Typed, Q!TypeOK
<1>5. AlignedAt(t) /\ pushed[t] \in 0 .. PushBound /\ popped[t] \in 0 .. PushBound /\ PushBound \in Nat
  BY TraceAssumption DEF Aligned, Typed
<1>6. queue_pc[Pusher(t)] = "idle" /\ popped[t] > 0 BY <1>1, <1>5 DEF AlignedAt
<1>7. AlignedAt(t)' BY <1>1, <1>3, <1>5, <1>6 DEF AlignedAt
<1>8. Aligned' BY <1>4, <1>7, AlignedStep
<1>a. got'[Popper(t)] = item[Popper(t)] BY <1>1 DEF Typed, Q!TypeOK
<1>9. /\ CountedAt(t)' = CountedAt(t) /\ ClaimedAt(t)' = ClaimedAt(t) /\ FetchedAt(t)' = FetchedAt(t)
  BY <1>1, <1>3, <1>5, <1>6 DEF CountedAt, ClaimedAt, FetchedAt
<1>10. Numbered' /\ Counted' = Counted /\ Claimed' = Claimed BY <1>1, <1>4, <1>9, NumbersKept
<1>11. Typed'
  <2>1. free_items' \in 0 .. Capacity
    <3>1. free_items \in 0 .. Capacity /\ Capacity \in Nat BY TraceAssumption DEF Typed, Q!TypeOK
    <3> QED BY <1>1, <3>1 DEF Q!Release
  <2>2. Q!TypeOK' BY <1>1, <2>1, Roles DEF Typed, Q!TypeOK
  <2> QED BY <1>1, <2>2 DEF Typed
<1>12. Stored' BY <1>1, <1>3, <1>4, <1>10, StoredKept
<1>13. Queued' BY <1>1, <1>3, <1>4, <1>6, <1>10, QueuedKept
<1>14. Ending'
  <2>1. Holding(t) /\ Holding(t)' BY <1>1, <1>3, <1>6 DEF Holding
  <2>2. queue_pc[Popper(t)] # "read" /\ queue_pc'[Popper(t)] # "read" BY <1>1, <1>3, <1>6
  <2>3. InHand(t)' = InHand(t) BY <1>1, <1>3, <1>a DEF InHand
  <2> QED BY <1>1, <1>4, <2>1, <2>2, <2>3, EndingKept
<1>15. Staged' /\ Written'
  <2>1. destroyed' = destroyed BY <1>1 DEF heap, heap_vars
  <2> QED BY <1>1, <1>2, <1>3, <1>4, <2>1, WorkStays
<1>16. Memory' BY <1>1, <1>2, <1>4, MemoryKept
<1> QED BY <1>8, <1>10, <1>11, <1>12, <1>13, <1>14, <1>15, <1>16

LEMMA ReleaseWorks ==
  ASSUME IInv, TInv, NEW t \in Callers, TraceRelease(t)
  PROVE  TInv'
<1> USE DEF TInv, Work
<1>1. /\ at[t] = "release" /\ at' = [at EXCEPT ![t] = "end"] /\ semaphore' = 1
      /\ UNCHANGED <<used_items, free_items, items, head_index, tail_index, queue_pc, index, item, ok, got>>
      /\ UNCHANGED <<client, stage, crashed, is_active, num_durations, events, ended, text, write>>
      /\ UNCHANGED <<heap_vars, event, slot, pushed, popped>>
  BY DEF TraceRelease, Goto, queue
<1>2. stage = 7 /\ client = "trace" /\ at[Main] # "call" /\ call[t].pc = "idle"
  BY <1>1, AtWork DEF IInv, Typed
<1>3. at'[t] = "end" BY <1>1 DEF IInv, Using
<1>4. Others(t) BY <1>1, Roles DEF Others, IInv, Using, Typed, Q!TypeOK
<1>5. AlignedAt(t) /\ pushed[t] \in 0 .. PushBound /\ popped[t] \in 0 .. PushBound /\ PushBound \in Nat
  BY TraceAssumption DEF Aligned, Typed
<1>6. queue_pc[Pusher(t)] = "idle" /\ queue_pc[Popper(t)] = "idle" /\ popped[t] > 0
  BY <1>1, <1>5 DEF AlignedAt
<1>7. AlignedAt(t)' BY <1>1, <1>3, <1>5, <1>6 DEF AlignedAt
<1>8. Aligned' BY <1>4, <1>7, AlignedStep
<1>9. /\ CountedAt(t)' = CountedAt(t) /\ ClaimedAt(t)' = ClaimedAt(t) /\ FetchedAt(t)' = FetchedAt(t)
  BY <1>1, <1>3, <1>5, <1>6 DEF CountedAt, ClaimedAt, FetchedAt
<1>10. Numbered' /\ Counted' = Counted /\ Claimed' = Claimed BY <1>1, <1>4, <1>9, NumbersKept
<1>11. Typed' BY <1>1, Roles DEF Typed, Q!TypeOK
<1>12. Stored' BY <1>1, <1>3, <1>4, <1>10, StoredKept
<1>13. Queued' BY <1>1, <1>3, <1>4, <1>6, <1>10, QueuedKept
<1>14. Ending'
  <2>1. Holding(t) /\ Holding(t)' BY <1>1, <1>3, <1>6 DEF Holding
  <2>2. queue_pc[Popper(t)] # "read" /\ queue_pc'[Popper(t)] # "read" BY <1>1, <1>3, <1>6
  <2>3. InHand(t)' = InHand(t) BY <1>1, <1>3 DEF InHand
  <2> QED BY <1>1, <1>4, <2>1, <2>2, <2>3, EndingKept
<1>15. Staged' /\ Written'
  <2>1. destroyed' = destroyed BY <1>1 DEF heap, heap_vars
  <2> QED BY <1>1, <1>2, <1>3, <1>4, <2>1, WorkStays
<1>16. Memory' BY <1>1, <1>2, <1>4, MemoryKept
<1> QED BY <1>8, <1>10, <1>11, <1>12, <1>13, <1>14, <1>15, <1>16

LEMMA EndWorks ==
  ASSUME IInv, TInv, NEW t \in Callers, ~crashed, TraceEnd(t)
  PROVE  TInv'
<1> USE DEF TInv, Work
<1> DEFINE d == got[Popper(t)]
<1>1. /\ at[t] = "end" /\ at' = [at EXCEPT ![t] = "idle"]
      /\ IF d = Uninit THEN crashed' = TRUE /\ ended' = ended
           ELSE ended' = [ended EXCEPT ![d] = @ + 1] /\ crashed' = crashed
      /\ UNCHANGED <<used_items, free_items, items, head_index, tail_index, queue_pc, index, item, ok, got>>
      /\ UNCHANGED <<client, stage, is_active, num_durations, events, semaphore, text, write>>
      /\ UNCHANGED <<heap_vars, event, slot, pushed, popped>>
  BY DEF TraceEnd, Goto, queue
<1>2. stage = 7 /\ client = "trace" /\ at[Main] # "call" /\ call[t].pc = "idle"
  BY <1>1, AtWork DEF IInv, Typed
<1>3. at'[t] = "idle" BY <1>1 DEF IInv, Using
<1>4. Others(t) BY <1>1, Roles DEF Others, IInv, Using, Typed, Q!TypeOK
<1>5. AlignedAt(t) /\ pushed[t] \in 0 .. PushBound /\ popped[t] \in 0 .. PushBound /\ PushBound \in Nat
  BY TraceAssumption DEF Aligned, Typed
<1>6. queue_pc[Pusher(t)] = "idle" /\ queue_pc[Popper(t)] = "idle" BY <1>1, <1>5 DEF AlignedAt
<1>7. AlignedAt(t)' BY <1>1, <1>3, <1>5, <1>6 DEF AlignedAt
<1>8. Aligned' BY <1>4, <1>7, AlignedStep
<1>9. /\ CountedAt(t)' = CountedAt(t) /\ ClaimedAt(t)' = ClaimedAt(t) /\ FetchedAt(t)' = FetchedAt(t)
  BY <1>1, <1>3, <1>5, <1>6 DEF CountedAt, ClaimedAt, FetchedAt
<1>10. Numbered' /\ Counted' = Counted /\ Claimed' = Claimed BY <1>1, <1>4, <1>9, NumbersKept
<1>a. Holding(t) /\ InHand(t) = d /\ ~Holding(t)'
  BY <1>1, <1>3, <1>6 DEF Holding, InHand
<1>b. d # Uninit => /\ d \in Events /\ Read(d) /\ ended[d] = 0
                    /\ \A u \in Callers : Holding(u) /\ InHand(u) = d => u = t
  BY <1>a DEF Ending
<1> HIDE DEF d
<1>c. \A e \in Events : ended'[e] = IF e = d THEN 1 ELSE ended[e]
  BY <1>1, <1>b, TraceAssumption DEF Typed
<1>11. Typed'
  <2>1. ended' \in [Events -> Nat]
    <3>1. CASE d = Uninit BY <1>1, <3>1 DEF Typed
    <3>2. CASE d # Uninit
      <4>1. ended' = [ended EXCEPT ![d] = @ + 1] /\ d \in Events /\ ended[d] = 0 BY <1>1, <1>b, <3>2
      <4> QED BY <4>1 DEF Typed
    <3> QED BY <3>1, <3>2
  <2>2. crashed' \in BOOLEAN BY <1>1 DEF Typed
  <2> QED BY <1>1, <2>1, <2>2 DEF Typed, Q!TypeOK
<1>12. Stored' BY <1>1, <1>3, <1>4, <1>10, StoredKept
<1>13. Queued' BY <1>1, <1>3, <1>4, <1>6, <1>10, QueuedKept
<1>14. Ending'
  <2>1. \A u \in Callers : \A i : Reading(u, i)' <=> Reading(u, i) BY <1>1 DEF Reading
  <2>2. \A e : Read(e)' <=> Read(e) BY <1>1, <2>1 DEF Read
  <2>3. \A u \in Callers : u # t => /\ Holding(u)' <=> Holding(u)
                                    /\ InHand(u)' = InHand(u)
    BY <1>4 DEF Others, Holding, InHand
  <2>4. \A u \in Callers : queue_pc'[Popper(u)] = "read" => index'[Popper(u)] \in 0 .. head_index - 1
    BY <1>1 DEF Ending
  <2>5. ASSUME NEW u \in Callers, Holding(u)'
        PROVE  \/ InHand(u)' = Uninit
               \/ /\ InHand(u)' \in Events /\ Read(InHand(u))' /\ ended'[InHand(u)'] = 0
                  /\ \A v \in Callers : Holding(v)' /\ InHand(v)' = InHand(u)' => u = v
    <3>1. u # t /\ Holding(u) /\ InHand(u)' = InHand(u) BY <1>a, <2>3, <2>5
    <3>2. CASE InHand(u) = Uninit BY <3>1, <3>2
    <3>3. CASE InHand(u) # Uninit
      <4>1. /\ InHand(u) \in Events /\ Read(InHand(u)) /\ ended[InHand(u)] = 0
            /\ \A v \in Callers : Holding(v) /\ InHand(v) = InHand(u) => u = v
        BY <3>1, <3>3 DEF Ending
      <4>2. InHand(u) # d BY <1>a, <3>1, <4>1
      <4>3. ended'[InHand(u)] = 0 BY <1>c, <4>1, <4>2
      <4>4. \A v \in Callers : Holding(v)' /\ InHand(v)' = InHand(u) => u = v
        BY <1>a, <2>3, <4>1
      <4>5. PICK h : h = InHand(u) OBVIOUS
      <4>6. Read(h)' BY <2>2, <4>1, <4>5
      <4>7. Read(InHand(u))' BY <3>1, <4>5, <4>6 DEF Read
      <4> QED BY <3>1, <4>1, <4>3, <4>4, <4>7
    <3> QED BY <3>2, <3>3
  <2>6. \A e \in Events : ended'[e] = 0 \/ (ended'[e] = 1 /\ Read(e)')
    <3>1. d \in Events => Read(d) BY <1>b, TraceAssumption
    <3> QED BY <1>c, <2>2, <3>1 DEF Ending
  <2>7. ASSUME ~Lost', NEW i \in 0 .. head_index - 1
        PROVE  \/ \E u \in Callers : Reading(u, i)'
               \/ \E u \in Callers : Holding(u)' /\ InHand(u)' = items[i]
               \/ items[i] \in Events /\ ended'[items[i]] = 1
    <3>1. d # Uninit BY <1>1, <2>7 DEF Lost
    <3>2. ~Lost
      <4>1. ~crashed BY <1>1, <3>1, <2>7 DEF Lost
      <4>2. \A u \in Callers : Holding(u) => InHand(u) # Uninit
        BY <1>a, <2>3, <2>7, <3>1 DEF Lost
      <4> QED BY <4>1, <4>2 DEF Lost
    <3>3. \/ \E u \in Callers : Reading(u, i)
          \/ \E u \in Callers : Holding(u) /\ InHand(u) = items[i]
          \/ items[i] \in Events /\ ended[items[i]] = 1
      BY <3>2 DEF Ending
    <3>4. CASE \E u \in Callers : Reading(u, i) BY <2>1, <3>4
    <3>5. CASE \E u \in Callers : Holding(u) /\ InHand(u) = items[i]
      BY <1>a, <1>b, <1>c, <2>3, <3>1, <3>5
    <3>6. CASE items[i] \in Events /\ ended[items[i]] = 1 BY <1>c, <3>6
    <3> QED BY <3>3, <3>4, <3>5, <3>6
  <2>8. \A u, v \in Callers, i \in 0 .. head_index - 1 : Reading(u, i)' /\ Reading(v, i)' => u = v
    BY <2>1 DEF Ending
  <2> QED BY <1>1, <2>4, <2>5, <2>6, <2>7, <2>8 DEF Ending
<1>15. Staged' /\ Written'
  <2>1. destroyed' = destroyed BY <1>1 DEF heap, heap_vars
  <2> QED BY <1>1, <1>2, <1>3, <1>4, <2>1, WorkStays
<1>16. Memory' BY <1>1, <1>2, <1>4, MemoryKept
<1> QED BY <1>8, <1>10, <1>11, <1>12, <1>13, <1>14, <1>15, <1>16
-----------------------------------------------------------------------------
(* The blocks of the main thread and those of durations. *)
LEMMA DistinctBlocks ==
  ASSUME NEW e \in Events, NEW f \in Events, NEW n
  PROVE  /\ EventBlock(e) # Own(n) /\ NameBlock(e) # Own(n) /\ EventBlock(e) # NameBlock(f)
         /\ EventBlock(e) = EventBlock(f) => e = f
         /\ NameBlock(e) = NameBlock(f) => e = f
         /\ EventBlock(e) \notin OwnBlocks /\ NameBlock(e) \notin OwnBlocks
         /\ EventBlock(e) \in Blocks /\ NameBlock(e) \in Blocks
<1>1. \A m : EventBlock(e) # Own(m) /\ NameBlock(e) # Own(m)
  <2>1. \A m : Len(Own(m)) = 1 BY DEF Own
  <2>2. Len(EventBlock(e)) = 2 /\ Len(NameBlock(e)) = 2 BY DEF EventBlock, NameBlock
  <2> QED BY <2>1, <2>2
<1>2. EventBlock(e) # NameBlock(f)
  <2>1. EventBlock(e)[1] = "event" /\ NameBlock(f)[1] = "name" BY DEF EventBlock, NameBlock
  <2> QED BY <2>1
<1>3. EventBlock(e) = EventBlock(f) => e = f
  <2>1. EventBlock(e)[2] = e /\ EventBlock(f)[2] = f BY DEF EventBlock
  <2> QED BY <2>1
<1>4. NameBlock(e) = NameBlock(f) => e = f
  <2>1. NameBlock(e)[2] = e /\ NameBlock(f)[2] = f BY DEF NameBlock
  <2> QED BY <2>1
<1>5. EventBlock(e) \notin OwnBlocks /\ NameBlock(e) \notin OwnBlocks BY <1>1 DEF OwnBlocks
<1>6. EventBlock(e) \in Blocks /\ NameBlock(e) \in Blocks BY TraceAssumption
<1> QED BY <1>1, <1>2, <1>3, <1>4, <1>5, <1>6

(* What a step of heap_alloc or heap_free does to the block it was called with. *)
LEMMA HeapEffect ==
  ASSUME HeapInv, NEW t \in Callers, HeapStep(t)
  PROVE  /\ call[t].pc # "idle" /\ destroyed' = destroyed
         /\ \A u \in Callers : u # t => call'[u] = call[u]
         /\ call'[t].op = call[t].op /\ call'[t].block = call[t].block
         /\ call[t].block \in Blocks
         /\ \A b \in Blocks : b # call[t].block => blocks'[b] = blocks[b]
         /\ call[t].op = "free" =>
              /\ blocks'[call[t].block] \in {0, blocks[call[t].block]}
              /\ call'[t].pc = "idle" => blocks'[call[t].block] = 0
<1> USE DEF HeapInv
<1>0. call[t].pc # "idle" => call[t].block \in Blocks BY DEF Placed
<1>1. CASE HeapLock(t) BY <1>0, <1>1 DEF HeapLock, HeapTypeOK
<1>2. CASE HeapAlloc(t) BY <1>0, <1>2 DEF HeapAlloc, Returned, HeapTypeOK
<1>3. CASE HeapGrow(t)
  <2>1. /\ call[t].pc = "work" /\ call[t].op = "alloc" /\ destroyed' = destroyed
        /\ \/ blocks' = [blocks EXCEPT ![call[t].block] = Len(arenas) + 1]
           \/ blocks' = blocks
        /\ \E r : call' = Returned(t, r)
    BY <1>3 DEF HeapGrow
  <2> QED BY <1>0, <2>1 DEF Returned, HeapTypeOK
<1>4. CASE HeapExhausted(t) BY <1>0, <1>4 DEF HeapExhausted, Returned, HeapTypeOK, heap
<1>5. CASE HeapFree(t) BY <1>0, <1>5 DEF HeapFree, Returned, HeapTypeOK
<1> QED BY <1>1, <1>2, <1>3, <1>4, <1>5 DEF HeapStep

(* The stages of the program by what is done in them. *)
LEMMA Stages ==
  \A k \in 1 .. 20 :
    /\ Program[k][1] = "alloc" => k \in {1, 2, 3, 4, 5, 8, 9}
    /\ Program[k][1] = "free" => k \in {11, 12, 13, 14, 16, 17, 18}
    /\ Program[k][1] = "start" <=> k = 6
    /\ Program[k][1] = "run" <=> k = 7
    /\ Program[k][1] = "write" <=> k = 10
    /\ Program[k][1] = "durations" <=> k = 15
    /\ Program[k][1] = "destroy" <=> k = 19
    /\ Program[k][1] = "end" <=> k = 20
BY DEF Program

LEMMA HeapWorks ==
  ASSUME IInv, TInv, IInv', NEW t \in Callers, HeapStep(t), UNCHANGED <<trace, queue, local>>
  PROVE  TInv'
<1> USE DEF TInv
<1>1. /\ UNCHANGED <<client, stage, crashed, is_active, num_durations, events, semaphore, ended, text, write>>
      /\ UNCHANGED <<queue, at, event, slot, pushed, popped>>
  BY DEF trace, local
<1>2. Work'
  <2>1. client' = client /\ crashed' \in BOOLEAN /\ is_active' \in BOOLEAN
        /\ text' \subseteq Events \X Nat
    BY <1>1 DEF Work, Typed
  <2> QED BY <1>1, <2>1, Quiet DEF IInv
<1>3. /\ call[t].pc # "idle" /\ destroyed' = destroyed
      /\ \A u \in Callers : u # t => call'[u] = call[u]
      /\ call'[t].op = call[t].op /\ call'[t].block = call[t].block
      /\ call[t].block \in Blocks
      /\ \A b \in Blocks : b # call[t].block => blocks'[b] = blocks[b]
      /\ call[t].op = "free" =>
           /\ blocks'[call[t].block] \in {0, blocks[call[t].block]}
           /\ call'[t].pc = "idle" => blocks'[call[t].block] = 0
  BY HeapEffect DEF IInv
<1>4. Staged' BY <1>1, <1>3 DEF Staged
<1>5. Pushed' = Pushed BY <1>1 DEF Pushed
<1>6. Written' BY <1>1, <1>5 DEF Written
<1>7. Memory'
  <2> SUFFICES ASSUME client' = "trace" PROVE Memory' BY DEF Memory
  <2>0. client = "trace" /\ stage \in 1 .. 20 BY <1>1 DEF IInv, Using
  <2>1. \A u \in Callers : call[u].pc # "idle" => Asked(u) BY <2>0 DEF Memory
  <2>2. \A u \in Callers : call'[u].pc # "idle" => Asked(u)'
    <3>1. \A u \in Callers : call'[u].pc # "idle" => Asked(u) BY <1>3, <2>1
    <3>2. \A u \in Callers : call'[u].op = call[u].op /\ call'[u].block = call[u].block BY <1>3
    <3> QED BY <1>1, <3>1, <3>2 DEF Asked
  <2>a. Main \in Callers BY TraceAssumption
  <2>3. CASE at[t] \in {"event", "name"}
    <3>1. stage = 7 /\ event[t] \in Pushed /\ event[t] \in Events
      <4>1. stage = 7 BY <2>3, AtWork DEF IInv, Work, Typed
      <4>2. event[t] = <<t, pushed[t]>> /\ pushed[t] > 0 /\ pushed[t] \in 0 .. PushBound
        BY <2>3 DEF Work, Aligned, AlignedAt, Typed
      <4> QED BY <4>1, <4>2, TraceAssumption DEF Pushed, Events
    <3>2. call[t].block \in {EventBlock(event[t]), NameBlock(event[t])}
      <4>1. Asked(t) BY <1>3, <2>1
      <4> QED BY <2>3, <4>1 DEF Asked
    <3>3. \A e \in Events : blocks'[EventBlock(e)] # 0 \/ blocks'[NameBlock(e)] # 0 => e \in Pushed
      <4> SUFFICES ASSUME NEW e \in Events, e \notin Pushed
                   PROVE  blocks'[EventBlock(e)] = 0 /\ blocks'[NameBlock(e)] = 0
        OBVIOUS
      <4>1. e # event[t] BY <3>1
      <4>2. /\ EventBlock(e) # call[t].block /\ NameBlock(e) # call[t].block
            /\ EventBlock(e) \in Blocks /\ NameBlock(e) \in Blocks
        BY <3>1, <3>2, <4>1, DistinctBlocks
      <4> QED BY <1>3, <2>0, <4>2 DEF Memory
    <3>4. \A k \in 1 .. 20 : ~FreedAt(k)' BY <1>1, <3>1, Stages DEF FreedAt
    <3> QED BY <1>1, <1>5, <2>2, <3>1, <3>3, <3>4 DEF Memory
  <2>4. CASE t = Main /\ at[t] = "call"
    <3>1. call[t].op = Program[stage][1] /\ call[t].block = Own(Program[stage][2])
      <4>1. Asked(t) BY <1>3, <2>1
      <4> QED BY <2>4, <4>1 DEF Asked
    <3>2. \A e \in Events : /\ blocks'[EventBlock(e)] = blocks[EventBlock(e)]
                            /\ blocks'[NameBlock(e)] = blocks[NameBlock(e)]
      BY <1>3, <3>1, DistinctBlocks
    <3>3. ASSUME NEW k \in 1 .. 20, FreedAt(k)'
          PROVE  blocks'[Own(Program[k][2])] = 0
      <4>1. Program[k][1] = "free" /\ (k < stage \/ (k = stage /\ call'[Main].pc = "idle"))
        BY <1>1, <3>3 DEF FreedAt
      <4>2. k \in {11, 12, 13, 14, 16, 17, 18} /\ Own(Program[k][2]) \in Blocks
        BY <4>1, Stages, ProgramSound
      <4>3. call[t].op = "free"
        <5>1. Program[stage][1] \in {"alloc", "free"} BY <2>4 DEF IInv, Using
        <5>2. Program[stage][1] # "alloc" BY <2>0, <4>1, <4>2, Stages
        <5> QED BY <3>1, <5>1, <5>2
      <4>4. CASE k < stage
        <5>1. blocks[Own(Program[k][2])] = 0 BY <2>0, <4>1, <4>4 DEF Memory, FreedAt
        <5> QED BY <1>3, <4>2, <4>3, <5>1
      <4>5. CASE k = stage /\ call'[Main].pc = "idle" BY <1>3, <2>4, <3>1, <4>3, <4>5
      <4> QED BY <4>1, <4>4, <4>5
    <3> QED BY <1>1, <1>5, <2>0, <2>2, <3>2, <3>3 DEF Memory
  <2>5. CASE t = Main /\ at[t] = "idle"
    <3>1. stage = 15 /\ call[t].op = "free" /\ call[t].block \notin OwnBlocks
      <4>1. Asked(t) BY <1>3, <2>1
      <4> QED BY <2>5, <4>1 DEF Asked
    <3>2. \A b \in Blocks : blocks[b] = 0 => blocks'[b] = 0 BY <1>3, <3>1
    <3>3. \A e \in Events : blocks'[EventBlock(e)] # 0 \/ blocks'[NameBlock(e)] # 0 => e \in Pushed
      BY <2>0, <3>2, DistinctBlocks DEF Memory
    <3>4. ASSUME NEW k \in 1 .. 20, FreedAt(k)'
          PROVE  blocks'[Own(Program[k][2])] = 0
      <4>1. FreedAt(k) /\ Program[k][1] = "free" BY <1>1, <2>5, <3>4 DEF FreedAt
      <4>2. Own(Program[k][2]) \in Blocks BY <4>1, ProgramSound
      <4> QED BY <2>0, <3>2, <4>1, <4>2 DEF Memory
    <3> QED BY <1>1, <1>5, <2>2, <3>1, <3>3, <3>4 DEF Memory
  <2>6. Asked(t) BY <1>3, <2>1
  <2> QED BY <2>3, <2>4, <2>5, <2>6 DEF Asked
<1> QED BY <1>2, <1>4, <1>6, <1>7

(* A thread ends, or uses the heap alone. *)
LEMMA EndThreadWorks ==
  ASSUME IInv, TInv, IInv', NEW t \in Callers, ThreadEnd(t)
  PROVE  TInv'
<1> USE DEF TInv
<1>1. /\ t # Main /\ at[t] = "idle" /\ call[t].pc = "idle" /\ at' = [at EXCEPT ![t] = "done"]
      /\ client = "trace" => Program[stage][1] = "run" /\ popped[t] = pushed[t]
      /\ UNCHANGED <<arenas, blocks, call, destroyed>>
      /\ UNCHANGED <<client, stage, crashed, is_active, num_durations, events, semaphore, ended, text, write>>
      /\ UNCHANGED <<queue, event, slot, pushed, popped>>
  BY DEF ThreadEnd, Idle, Doing, trace
<1>2. at'[t] = "done" /\ \A u \in Callers : u # t => at'[u] = at[u]
  BY <1>1 DEF IInv, Using
<1>3. Work'
  <2>1. client' = client /\ crashed' \in BOOLEAN /\ is_active' \in BOOLEAN
        /\ text' \subseteq Events \X Nat
    BY <1>1 DEF Work, Typed
  <2> QED BY <1>1, <1>2, <2>1, Quiet DEF IInv
<1>4. Main \in Callers /\ (client = "trace" => stage = 7)
  BY <1>1, TraceAssumption, Stages DEF IInv, Using
<1>5. Staged' BY <1>1, <1>2, <1>4 DEF Staged
<1>6. Pushed' = Pushed BY <1>1 DEF Pushed
<1>7. Written' BY <1>1, <1>6 DEF Written
<1>8. Memory'
  <2>1. \A u \in Callers : call[u].pc # "idle" /\ Asked(u) => Asked(u)' BY <1>1, <1>2 DEF Asked
  <2>2. \A k \in 1 .. 20 : FreedAt(k)' => FreedAt(k) BY <1>1, <1>2, <1>4 DEF FreedAt
  <2> QED BY <1>1, <1>6, <2>1, <2>2 DEF Memory
<1> QED BY <1>3, <1>5, <1>7, <1>8

LEMMA AnyCallWorks ==
  ASSUME IInv, TInv, IInv', NEW t \in Callers, NEW e \in Events, AnyHeapCall(t, e)
  PROVE  TInv'
<1> USE DEF TInv
<1>1. /\ client = "heap" /\ destroyed' = destroyed
      /\ UNCHANGED <<client, stage, crashed, is_active, num_durations, events, semaphore, ended, text, write>>
      /\ UNCHANGED <<queue, at, event, slot, pushed, popped>>
  BY DEF AnyHeapCall, HeapCall, heap, trace, local
<1>2. Work'
  <2>1. client' = client /\ crashed' \in BOOLEAN /\ is_active' \in BOOLEAN
        /\ text' \subseteq Events \X Nat
    BY <1>1 DEF Work, Typed
  <2> QED BY <1>1, <2>1, Quiet DEF IInv
<1>3. Staged' BY <1>1 DEF Staged
<1>4. Written'
  <2>1. Pushed' = Pushed BY <1>1 DEF Pushed
  <2> QED BY <1>1, <2>1 DEF Written
<1>5. Memory'
  <2>1. client' # "trace" BY <1>1
  <2> QED BY <2>1 DEF Memory
<1> QED BY <1>2, <1>3, <1>4, <1>5

(* When all threads have popped what they pushed, each duration is in the array
   and has ended once. *)
LEMMA AllEnded ==
  ASSUME IInv, TInv, Room, stage > 7, client = "trace"
  PROVE  Recorded = Pushed /\ (~crashed => \A e \in Pushed : ended[e] = 1)
<1> USE DEF TInv, Work
<1>1. \A t \in Callers : at[t] \in {"idle", "call", "done"} /\ popped[t] = pushed[t]
  <2>1. stage # 7 BY DEF IInv, Using
  <2> QED BY <2>1, TraceAssumption DEF Staged
<1>2. \A t \in Callers : queue_pc[Pusher(t)] = "idle" /\ queue_pc[Popper(t)] = "idle"
  BY <1>1 DEF Aligned, AlignedAt
<1>3. \A t \in Callers : CountedAt(t) = pushed[t] /\ ClaimedAt(t) = pushed[t] /\ FetchedAt(t) = pushed[t]
  BY <1>1, <1>2 DEF CountedAt, ClaimedAt, FetchedAt
<1>4. Counted = Pushed /\ Claimed = Pushed /\ Fetched = Pushed
  BY <1>3 DEF Counted, Claimed, Fetched, Pushed, Events
<1>5. \A t \in Callers : ~Storing(t) /\ ~Writing(t) /\ ~Holding(t) /\ \A i : ~Reading(t, i)
  BY <1>1, <1>2 DEF Storing, Writing, Holding, Reading
<1>6. \A e \in Pushed : e[1] \in Callers /\ e \in Events BY DEF Pushed, Events
<1>7. Recorded = Pushed
  <2>1. \A e \in Pushed : \E i \in 0 .. num_durations - 1 : events[i] = e
    BY <1>4, <1>5, <1>6 DEF Stored
  <2>2. \A i \in 0 .. num_durations - 1 : events[i] \in Pushed BY <1>4, <1>5 DEF Stored
  <2> QED BY <2>1, <2>2 DEF Recorded
<1>8. ASSUME ~crashed, NEW e \in Pushed
      PROVE  ended[e] = 1
  <2>1. head_index = tail_index BY <1>4 DEF Numbered
  <2>2. PICK i \in 0 .. head_index - 1 : items[i] = e BY <1>4, <1>5, <1>6, <2>1 DEF Queued
  <2>3. ~Lost BY <1>5, <1>8 DEF Lost
  <2> QED BY <1>5, <2>2, <2>3 DEF Ending
<1> QED BY <1>7, <1>8

(* The steps of the main thread. *)
LEMMA MainCallWorks ==
  ASSUME IInv, TInv, IInv', MainCall
  PROVE  TInv'
<1> USE DEF TInv
<1>0. Main \in Callers BY TraceAssumption
<1>1. /\ Program[stage][1] \in {"alloc", "free"} /\ ~crashed /\ at[Main] = "idle"
      /\ at' = [at EXCEPT ![Main] = "call"] /\ call[Main].pc = "idle" /\ blocks' = blocks
      /\ call' = [call EXCEPT ![Main] = [pc |-> "lock", op |-> Program[stage][1],
                                         block |-> Own(Program[stage][2]), result |-> None]]
      /\ destroyed' = destroyed
      /\ UNCHANGED <<client, stage, crashed, is_active, num_durations, events, semaphore, ended, text, write>>
      /\ UNCHANGED <<queue, event, slot, pushed, popped>>
  BY DEF MainCall, Doing, Goto, HeapCall, heap, trace
<1>2. at'[Main] = "call" /\ \A u \in Callers : u # Main => at'[u] = at[u]
  BY <1>0, <1>1 DEF IInv, Using
<1>3. Work'
  <2>1. client' = client /\ crashed' \in BOOLEAN /\ is_active' \in BOOLEAN
        /\ text' \subseteq Events \X Nat
    BY <1>1 DEF Work, Typed
  <2> QED BY <1>1, <1>2, <2>1, Quiet DEF IInv
<1>4. /\ call'[Main].pc = "lock" /\ call'[Main].op = Program[stage][1]
      /\ call'[Main].block = Own(Program[stage][2])
      /\ \A u \in Callers : u # Main => call'[u] = call[u]
  BY <1>0, <1>1 DEF IInv, HeapInv, HeapTypeOK
<1>5. Staged' BY <1>0, <1>1, <1>2 DEF Staged
<1>6. Pushed' = Pushed BY <1>1 DEF Pushed
<1>7. Written' BY <1>1, <1>6 DEF Written
<1>8. Memory'
  <2>1. \A u \in Callers : u # Main /\ Asked(u) => Asked(u)' BY <1>1, <1>2, <1>4 DEF Asked
  <2>2. Asked(Main)' BY <1>1, <1>2, <1>4 DEF Asked
  <2>3. \A k \in 1 .. 20 : FreedAt(k)' => FreedAt(k) BY <1>1, <1>4 DEF FreedAt
  <2> QED BY <1>1, <1>4, <1>6, <2>1, <2>2, <2>3 DEF Memory
<1> QED BY <1>3, <1>5, <1>7, <1>8

LEMMA MainReturnWorks ==
  ASSUME IInv, TInv, IInv', MainReturn
  PROVE  TInv'
<1> USE DEF TInv
<1>0. Main \in Callers BY TraceAssumption
<1>1. /\ call[Main].pc = "idle" /\ at[Main] = "call" /\ at' = [at EXCEPT ![Main] = "idle"]
      /\ crashed' \in BOOLEAN /\ stage' = stage + 1
      /\ UNCHANGED <<blocks, call, destroyed>>
      /\ UNCHANGED <<client, is_active, num_durations, events, semaphore, ended, text, write>>
      /\ UNCHANGED <<queue, event, slot, pushed, popped>>
  BY DEF MainReturn, Goto, heap_vars, heap
<1>2. at'[Main] = "idle" /\ \A u \in Callers : u # Main => at'[u] = at[u]
  BY <1>0, <1>1 DEF IInv, Using
<1>3. ~crashed BY <1>1 DEF Staged
<1>4. Work'
  <2>1. text' \subseteq Events \X Nat /\ is_active' \in BOOLEAN BY <1>1 DEF Work, Typed
  <2> QED BY <1>1, <1>2, <1>3, <2>1, Quiet DEF IInv
<1>5. stage \in {1, 2, 3, 4, 5, 8, 9, 11, 12, 13, 14, 16, 17, 18}
  BY <1>1, Stages DEF IInv, Using
<1>6. Staged' BY <1>0, <1>1, <1>2, <1>5 DEF Staged
<1>7. Pushed' = Pushed BY <1>1 DEF Pushed
<1>8. Written'
  <2>1. stage >= 10 => stage' >= 10 BY <1>1, <1>5
  <2> QED BY <1>1, <1>7, <2>1 DEF Written
<1>9. Memory'
  <2>1. \A u \in Callers : call'[u].pc # "idle" => u # Main /\ call[u].pc # "idle" BY <1>1
  <2>2. \A u \in Callers : u # Main /\ Asked(u) => Asked(u)' BY <1>1, <1>2 DEF Asked
  <2>3. ASSUME NEW k \in 1 .. 20, FreedAt(k)' PROVE FreedAt(k)
    <3>1. Program[k][1] = "free" /\ k < stage + 1 BY <1>1, <1>2, <1>5, <2>3 DEF FreedAt
    <3>2. k < stage \/ k = stage BY <1>5, <3>1
    <3> QED BY <1>1, <3>1, <3>2 DEF FreedAt
  <2>4. stage' > 15 => stage > 15 BY <1>1, <1>5
  <2> QED BY <1>1, <1>7, <2>1, <2>2, <2>3, <2>4 DEF Memory
<1> QED BY <1>4, <1>6, <1>8, <1>9

(* A stage that is over in one step. *)
LEMMA StageWorks ==
  ASSUME IInv, TInv, IInv', stage \in {6, 7, 10, 15, 19}, stage' = stage + 1,
         stage = 7 => /\ at[Main] = "idle" /\ popped[Main] = pushed[Main]
                      /\ \A t \in Callers \ {Main} : at[t] = "done",
         stage = 15 => /\ call[Main].pc = "idle"
                       /\ \A e \in Events : blocks[EventBlock(e)] = 0 /\ blocks[NameBlock(e)] = 0,
         is_active' \in BOOLEAN, destroyed' => destroyed \/ stage = 19,
         UNCHANGED <<client, crashed, num_durations, events, semaphore, ended, text, write>>,
         UNCHANGED <<queue, local, blocks, call>>
  PROVE  TInv'
<1> USE DEF TInv
<1>0. Main \in Callers BY TraceAssumption
<1>1. UNCHANGED <<at, event, slot, pushed, popped>> BY DEF local
<1>2. Work'
  <2>1. text' \subseteq Events \X Nat /\ crashed' \in BOOLEAN BY DEF Work, Typed
  <2> QED BY <1>1, <2>1, Quiet DEF IInv
<1>3. at[Main] = "idle"
  <2>1. Program[stage][1] \notin {"alloc", "free"} BY Stages
  <2>2. stage # 7 => at[Main] \in {"idle", "call"} BY DEF Staged
  <2> QED BY <2>1, <2>2 DEF IInv, Using
<1>4. ~destroyed BY DEF Staged
<1>5. Staged' BY <1>0, <1>1, <1>3, <1>4 DEF Staged
<1>6. Pushed' = Pushed BY <1>1 DEF Pushed
<1>7. Written' BY <1>6 DEF Written
<1>8. Memory'
  <2>1. client = "trace" => call[Main].pc = "idle" BY <1>0, <1>3 DEF Memory, Asked
  <2>2. \A u \in Callers : u # Main /\ Asked(u) => Asked(u)' BY <1>1 DEF Asked
  <2>3. ASSUME NEW k \in 1 .. 20, FreedAt(k)' PROVE FreedAt(k)
    <3>1. Program[k][1] = "free" /\ k < stage + 1 BY <1>1, <1>3, <2>3 DEF FreedAt
    <3>2. k # stage BY <3>1, Stages
    <3> QED BY <3>1, <3>2 DEF FreedAt
  <2>4. client = "trace" /\ stage' > 15 =>
          \A e \in Events : blocks[EventBlock(e)] = 0 /\ blocks[NameBlock(e)] = 0
    BY DEF Memory
  <2> QED BY <1>6, <2>1, <2>2, <2>3, <2>4 DEF Memory
<1> QED BY <1>2, <1>5, <1>7, <1>8

(* The text is handed to the file system, and written or not. *)
LEMMA WriteMoves ==
  ASSUME IInv, TInv, IInv', Written', text' \subseteq Events \X Nat,
         UNCHANGED <<client, stage, crashed, is_active, num_durations, events, semaphore, ended>>,
         UNCHANGED <<queue, local, blocks, call, destroyed>>
  PROVE  TInv'
<1> USE DEF TInv
<1>1. UNCHANGED <<at, event, slot, pushed, popped>> BY DEF local
<1>2. Work'
  <2>1. crashed' \in BOOLEAN /\ is_active' \in BOOLEAN BY DEF Work, Typed
  <2> QED BY <1>1, <2>1, Quiet DEF IInv
<1>3. Staged' BY <1>1 DEF Staged
<1>4. Pushed' = Pushed BY <1>1 DEF Pushed
<1>5. Memory' BY <1>1, <1>4 DEF Memory, Asked, FreedAt
<1> QED BY <1>2, <1>3, <1>5

LEMMA CaptureWriteWorks ==
  ASSUME IInv, TInv, IInv', Room, CaptureWrite
  PROVE  TInv'
<1> USE DEF TInv
<1>1. /\ Program[stage][1] = "write" /\ ~crashed
      /\ IF Uninit \in Recorded
           THEN crashed' = TRUE /\ UNCHANGED <<text, write>>
           ELSE text' = {<<e, ended[e]>> : e \in Recorded} /\ write' = "queued" /\ crashed' = crashed
      /\ UNCHANGED <<client, stage, is_active, num_durations, events, semaphore, ended>>
      /\ UNCHANGED <<queue, local, blocks, call, destroyed>>
  BY DEF CaptureWrite, Doing, heap_vars, heap
<1>2. stage = 10 BY <1>1, Stages DEF IInv, Using
<1>3. client = "trace" BY <1>2, TraceAssumption DEF Staged, Work, Typed
<1>4. Recorded = Pushed /\ \A e \in Pushed : ended[e] = 1 BY <1>1, <1>2, <1>3, AllEnded
<1>5. Uninit \notin Recorded BY <1>4, TraceAssumption DEF Pushed
<1>6. text' = {<<e, 1>> : e \in Pushed} /\ write' = "queued" /\ crashed' = crashed
  BY <1>1, <1>4, <1>5
<1>7. Pushed' = Pushed BY <1>1 DEF Pushed, local
<1>8. stage' = 10 BY <1>1, <1>2
<1>9. Written' BY <1>6, <1>7, <1>8 DEF Written
<1>10. text' \subseteq Events \X Nat BY <1>6 DEF Pushed
<1> QED BY <1>1, <1>6, <1>9, <1>10, WriteMoves

LEMMA FileWriteWorks ==
  ASSUME IInv, TInv, IInv', FileWrite
  PROVE  TInv'
<1> USE DEF TInv
<1>1. /\ write = "queued" /\ write' \in {"done", "failed"} /\ text' = text
      /\ UNCHANGED <<client, stage, crashed, is_active, num_durations, events, semaphore, ended>>
      /\ UNCHANGED <<queue, local, blocks, call, destroyed>>
  BY DEF FileWrite, heap_vars, heap
<1>2. Pushed' = Pushed BY <1>1 DEF Pushed, local
<1>3. Written' BY <1>1, <1>2 DEF Written
<1>4. text' \subseteq Events \X Nat BY <1>1 DEF Work, Typed
<1> QED BY <1>1, <1>3, <1>4, WriteMoves

LEMMA MainWorks ==
  ASSUME IInv, TInv, IInv', Room, MainStep
  PROVE  TInv'
<1> USE DEF TInv
<1>0. Main \in Callers /\ text \subseteq Events \X Nat /\ crashed \in BOOLEAN /\ is_active \in BOOLEAN
      /\ stage \in 1 .. 20
  BY TraceAssumption DEF Work, Typed, IInv, Using
<1>1. CASE CaptureStart
  <2>1. /\ Program[stage][1] = "start" /\ is_active' = TRUE /\ stage' = stage + 1
        /\ UNCHANGED <<client, crashed, num_durations, events, semaphore, ended, text, write>>
        /\ UNCHANGED <<queue, local, blocks, call, destroyed>>
    BY <1>1 DEF CaptureStart, Doing, heap_vars, heap
  <2>2. stage = 6 BY <1>0, <2>1, Stages
  <2> QED BY <1>0, <2>1, <2>2, StageWorks
<1>2. CASE MainJoin
  <2>1. /\ Program[stage][1] = "run" /\ stage' = stage + 1
        /\ at[Main] = "idle" /\ popped[Main] = pushed[Main]
        /\ \A t \in Callers \ {Main} : at[t] = "done"
        /\ UNCHANGED <<client, crashed, is_active, num_durations, events, semaphore, ended, text, write>>
        /\ UNCHANGED <<queue, local, blocks, call, destroyed>>
    BY <1>2 DEF MainJoin, Doing, Idle, heap_vars, heap
  <2>2. stage = 7 BY <1>0, <2>1, Stages
  <2> QED BY <1>0, <2>1, <2>2, StageWorks
<1>3. CASE DurationsFreed
  <2>1. /\ Program[stage][1] = "durations" /\ stage' = stage + 1 /\ Durations \cap InUse = {}
        /\ call[Main].pc = "idle"
        /\ UNCHANGED <<client, crashed, is_active, num_durations, events, semaphore, ended, text, write>>
        /\ UNCHANGED <<queue, local, blocks, call, destroyed>>
    BY <1>3 DEF DurationsFreed, Doing, heap_vars, heap
  <2>2. stage = 15 BY <1>0, <2>1, Stages
  <2>3. client = "trace" BY <2>2, TraceAssumption DEF Staged, Work, Typed
  <2>4. Recorded = Pushed BY <2>2, <2>3, AllEnded
  <2>5. ASSUME NEW e \in Events
        PROVE  blocks[EventBlock(e)] = 0 /\ blocks[NameBlock(e)] = 0
    <3>1. CASE e \notin Pushed BY <2>3, <3>1 DEF Memory
    <3>2. CASE e \in Pushed
      <4>1. EventBlock(e) \in Durations /\ NameBlock(e) \in Durations BY <2>4, <3>2 DEF Durations
      <4>2. EventBlock(e) \in Blocks /\ NameBlock(e) \in Blocks BY TraceAssumption
      <4> QED BY <2>1, <4>1, <4>2 DEF InUse
    <3> QED BY <3>1, <3>2
  <2> QED BY <1>0, <2>1, <2>2, <2>5, StageWorks
<1>4. CASE MainDestroy
  <2>1. /\ Program[stage][1] = "destroy" /\ stage' = stage + 1
        /\ UNCHANGED <<client, crashed, is_active, num_durations, events, semaphore, ended, text, write>>
        /\ UNCHANGED <<queue, local, blocks, call>>
    BY <1>4 DEF MainDestroy, Doing, HeapDestroy
  <2>2. stage = 19 BY <1>0, <2>1, Stages
  <2> QED BY <1>0, <2>1, <2>2, StageWorks
<1>6. CASE CaptureStop
  <2>1. /\ Program[stage][1] = "write" /\ is_active' = FALSE /\ stage' = stage + 1
        /\ UNCHANGED <<client, crashed, num_durations, events, semaphore, ended, text, write>>
        /\ UNCHANGED <<queue, local, blocks, call, destroyed>>
    BY <1>6 DEF CaptureStop, Doing, heap_vars, heap
  <2>2. stage = 10 BY <1>0, <2>1, Stages
  <2>3. is_active' \in BOOLEAN BY <2>1
  <2>4. destroyed' => destroyed \/ stage = 19 BY <2>1
  <2> QED BY <2>1, <2>2, <2>3, <2>4, StageWorks
<1>5. CASE FreeDuration
  <2>1. PICK b : /\ b \in Durations /\ b \in InUse /\ HeapCall(Main, "free", b)
                 /\ Program[stage][1] = "durations"
    BY <1>5 DEF FreeDuration, Doing
  <2>2. /\ UNCHANGED <<client, stage, crashed, is_active, num_durations, events, semaphore, ended, text, write>>
        /\ UNCHANGED <<queue, at, event, slot, pushed, popped>>
    BY <1>5 DEF FreeDuration, trace, local
  <2>3. stage = 15 BY <1>0, <2>1, Stages
  <2>4. client = "trace" BY <2>3, TraceAssumption DEF Staged, Work, Typed
  <2>5. at[Main] = "idle"
    <3>1. at[Main] \in {"idle", "call"} BY <2>3 DEF Staged
    <3> QED BY <2>1, <3>1 DEF IInv, Using
  <2>6. b \notin OwnBlocks
    <3>1. Recorded \subseteq Events BY <2>3, <2>4, AllEnded DEF Pushed
    <3> QED BY <2>1, <3>1, DistinctBlocks DEF Durations
  <2>7. /\ blocks' = blocks /\ destroyed' = destroyed
        /\ call'[Main].op = "free" /\ call'[Main].block = b
        /\ \A u \in Callers : u # Main => call'[u] = call[u]
    BY <1>0, <2>1 DEF HeapCall, heap, IInv, HeapInv, HeapTypeOK
  <2>8. Work' BY <1>0, <2>2, Quiet DEF IInv
  <2>9. Staged' BY <2>2, <2>7 DEF Staged
  <2>10. Pushed' = Pushed BY <2>2 DEF Pushed
  <2>11. Written' BY <2>2, <2>10 DEF Written
  <2>12. Memory'
    <3>1. \A u \in Callers : u # Main /\ Asked(u) => Asked(u)' BY <2>2, <2>7 DEF Asked
    <3>2. Asked(Main)' BY <2>2, <2>3, <2>5, <2>6, <2>7 DEF Asked
    <3>3. \A k \in 1 .. 20 : FreedAt(k)' => FreedAt(k) BY <2>2, <2>5 DEF FreedAt
    <3> QED BY <2>2, <2>7, <2>10, <3>1, <3>2, <3>3 DEF Memory
  <2> QED BY <2>8, <2>9, <2>11, <2>12
<1> QED BY <1>1, <1>2, <1>3, <1>4, <1>5, <1>6, MainCallWorks, MainReturnWorks, CaptureWriteWorks DEF MainStep

-----------------------------------------------------------------------------
LEMMA TraceInit == Init => TInv
<1> SUFFICES ASSUME Init PROVE TInv OBVIOUS
<1>1. /\ used_items = 0 /\ free_items = Capacity /\ items = [s \in Q!Slots |-> Uninit]
      /\ head_index = 0 /\ tail_index = 0 /\ queue_pc = [t \in Q!Threads |-> "idle"]
      /\ index = [t \in Q!Threads |-> 0] /\ item = [t \in Q!Threads |-> Uninit]
      /\ ok = [p \in {Pusher(t) : t \in Callers} |-> TRUE]
      /\ got = [c \in {Popper(t) : t \in Callers} |-> None]
  BY DEF Init, Q!Init
<1>2. /\ client \in Clients /\ stage \in {1, 19} /\ (client = "trace" <=> stage = 1)
      /\ crashed = FALSE /\ is_active = FALSE /\ semaphore = 1 /\ num_durations = 0
      /\ events = [i \in 0 .. Capacity - 1 |-> Uninit]
      /\ at = [t \in Callers |-> "idle"] /\ event = [t \in Callers |-> Uninit]
      /\ slot = [t \in Callers |-> 0] /\ pushed = [t \in Callers |-> 0] /\ popped = [t \in Callers |-> 0]
      /\ ended = [e \in Events |-> 0] /\ text = {} /\ write = "none"
  BY ProgramSound DEF Init
<1>3. /\ blocks = [b \in Blocks |-> 0] /\ destroyed = FALSE
      /\ \A t \in Callers : call[t].pc = "idle"
  BY DEF Init, HeapInit
<1>4. Main \in Callers /\ Capacity \in Nat \ {0} /\ PushBound \in Nat /\ Uninit \notin Events
  BY TraceAssumption
<1>5. \A t \in Callers : queue_pc[Pusher(t)] = "idle" /\ queue_pc[Popper(t)] = "idle"
  BY <1>1, Roles
<1>6. Typed
  <2>1. Q!TypeOK BY <1>1, <1>4, Roles DEF Q!TypeOK, Q!Threads
  <2>2. events \in [0 .. Capacity - 1 -> Events \cup {Uninit}] BY <1>2
  <2>3. slot \in [Callers -> 0 .. Capacity - 1] BY <1>2, <1>4
  <2>4. pushed \in [Callers -> 0 .. PushBound] /\ popped \in [Callers -> 0 .. PushBound]
    BY <1>2, <1>4
  <2>5. ended \in [Events -> Nat] /\ text \subseteq Events \X Nat BY <1>2
  <2>6. client \in Clients /\ crashed \in BOOLEAN /\ is_active \in BOOLEAN /\ semaphore \in {0, 1}
    BY <1>2
  <2> QED BY <2>1, <2>2, <2>3, <2>4, <2>5, <2>6 DEF Typed
<1>7. Aligned BY <1>2, <1>4, <1>5 DEF Aligned, AlignedAt
<1>8. \A t \in Callers : CountedAt(t) = 0 /\ ClaimedAt(t) = 0 /\ FetchedAt(t) = 0
  BY <1>2, <1>5 DEF CountedAt, ClaimedAt, FetchedAt
<1>9. \A e \in Events : e[1] \in Callers /\ e[2] \in 1 .. PushBound BY DEF Events
<1>10. Counted = {} /\ Claimed = {} /\ Fetched = {}
  BY <1>4, <1>8, <1>9 DEF Counted, Claimed, Fetched
<1>11. Numbered BY <1>1, <1>2, <1>10, FS_EmptySet DEF Numbered
<1>12. \A t \in Callers : ~Storing(t) /\ ~Writing(t) /\ ~Holding(t) /\ \A i : ~Reading(t, i)
  BY <1>2, <1>5 DEF Storing, Writing, Holding, Reading
<1>13. Stored BY <1>2, <1>4, <1>10, <1>12 DEF Stored
<1>14. Queued BY <1>1, <1>4, <1>10, <1>12 DEF Queued, Q!Slots
<1>15. Ending BY <1>1, <1>2, <1>5, <1>12 DEF Ending
<1>16. Staged BY <1>2, <1>3, <1>4 DEF Staged
<1>17. Written BY <1>2 DEF Written
<1>18. Memory
  <2>1. \A e \in Events : EventBlock(e) \in Blocks /\ NameBlock(e) \in Blocks BY TraceAssumption
  <2>2. ASSUME client = "trace", NEW k \in 1 .. 20 PROVE ~FreedAt(k)
    <3>1. stage = 1 BY <1>2, <2>2
    <3> QED BY <3>1, Stages DEF FreedAt
  <2> QED BY <1>2, <1>3, <2>1, <2>2 DEF Memory
<1> QED BY <1>6, <1>7, <1>11, <1>13, <1>14, <1>15, <1>16, <1>17, <1>18 DEF TInv, Work

LEMMA TraceStutters ==
  ASSUME TInv, Using, Using', UNCHANGED vars
  PROVE  TInv'
<1> USE DEF TInv
<1>1. /\ UNCHANGED <<client, stage, crashed, is_active, num_durations, events, semaphore, ended, text, write>>
      /\ UNCHANGED <<queue, at, event, slot, pushed, popped, blocks, call, destroyed>>
  BY DEF vars, trace, local, heap_vars, heap
<1>2. Work'
  <2>1. client' = client /\ crashed' \in BOOLEAN /\ is_active' \in BOOLEAN
        /\ text' \subseteq Events \X Nat
    BY <1>1 DEF Work, Typed
  <2> QED BY <1>1, <2>1, Quiet
<1>3. Staged' BY <1>1 DEF Staged
<1>4. Pushed' = Pushed BY <1>1 DEF Pushed
<1>5. Written' BY <1>1, <1>4 DEF Written
<1>6. Memory' BY <1>1, <1>4 DEF Memory, Asked, FreedAt
<1> QED BY <1>2, <1>3, <1>5, <1>6

LEMMA TraceStep ==
  ASSUME IInv, TInv, Room, [Next]_vars
  PROVE  TInv'
<1>0. IInv' BY InvariantStep
<1>1. ASSUME NEW t \in Callers, InCall(t) PROVE TInv'
  <2>1. ~crashed BY <1>1 DEF InCall
  <2>2. CASE TraceQueue(t)
    BY <2>2, PushAcquireWorks, PushClaimWorks, PushWriteWorks, PushReleaseWorks
    DEF TraceQueue, Q!PushStep
  <2>3. CASE TraceDequeue(t)
    BY <2>3, PopAcquireWorks, PopClaimWorks, PopReadWorks, PopReleaseWorks DEF TraceDequeue
  <2>4. CASE HeapStep(t) /\ UNCHANGED <<trace, queue, local>> BY <1>0, <2>4, HeapWorks
  <2> QED BY <1>1, <2>1, <2>2, <2>3, <2>4, NameWorks, CountWorks, StoreWorks, AcquireWorks,
             ReleaseWorks, EndWorks DEF InCall
<1>2. ASSUME NEW t \in Callers, TracePush(t) \/ TracePop(t) \/ ThreadEnd(t) PROVE TInv'
  BY <1>0, <1>2, PushWorks, PopWorks, EndThreadWorks
<1>3. ASSUME NEW t \in Callers, NEW e \in Events, AnyHeapCall(t, e) PROVE TInv'
  BY <1>0, <1>3, AnyCallWorks
<1>4. ASSUME MainStep PROVE TInv' BY <1>0, <1>4, MainWorks
<1>5. CASE UNCHANGED vars BY <1>0, <1>5, TraceStutters DEF IInv
<1>6. CASE FileWrite BY <1>0, <1>6, FileWriteWorks
<1> QED BY <1>1, <1>2, <1>3, <1>4, <1>5, <1>6 DEF Next

(* Every variable has its type in every state: with room in the array for all
   durations, no index runs past it (trace.c:94). *)
THEOREM TypeCorrect == ASSUME Room PROVE Spec => []TypeOK
<1>1. Init => IInv /\ TInv BY UsingInit, TraceInit
<1>2. IInv /\ TInv /\ [Next]_vars => (IInv /\ TInv)' BY InvariantStep, TraceStep
<1>3. IInv /\ TInv => TypeOK
  <2> SUFFICES ASSUME IInv, TInv PROVE TypeOK OBVIOUS
  <2>1. HeapTypeOK BY DEF IInv, HeapInv
  <2>2. stage \in 1 .. Len(Program) BY ProgramSound DEF IInv, Using
  <2>3. num_durations \in 0 .. Cardinality(Events) BY Bounds DEF TInv, Work
  <2> QED BY <2>1, <2>2, <2>3 DEF TypeOK, TInv, Work, Written, Typed, IInv, Using
<1> QED BY <1>1, <1>2, <1>3, PTL DEF Spec

(* The file written by trace_capture_stop has each duration that was pushed,
   begun and ended once, and trace_destroy frees the blocks of all of them, for
   any number of threads and durations that the array has room for. *)
THEOREM CaptureIsComplete == ASSUME Room PROVE Spec => []CaptureComplete
<1>1. Init => IInv /\ TInv BY UsingInit, TraceInit
<1>2. IInv /\ TInv /\ [Next]_vars => (IInv /\ TInv)' BY InvariantStep, TraceStep
<1>3. IInv /\ TInv => CaptureComplete
  <2> SUFFICES ASSUME IInv, TInv PROVE CaptureComplete OBVIOUS
  <2>2. ASSUME client = "trace", destroyed PROVE reported = {}
    <3>1. stage = 20 /\ reported = InUse BY <2>2 DEF TInv, Staged, IInv, HeapInv, Settled
    <3>2. \A k \in 1 .. 20 : Program[k][1] = "free" => blocks[Own(Program[k][2])] = 0
      <4>1. \A k \in 1 .. 20 : Program[k][1] = "free" => k < stage BY <3>1, Stages
      <4> QED BY <2>2, <4>1 DEF TInv, Memory, FreedAt
    <3>3. \A n \in {"trace", "queue", "array", "path", "fs", "text", "work"} :
            \E k \in 1 .. 20 : Program[k] = <<"free", n>>
      <4>1. /\ Program[18] = <<"free", "trace">> /\ Program[13] = <<"free", "queue">>
            /\ Program[17] = <<"free", "array">> /\ Program[16] = <<"free", "path">>
            /\ Program[14] = <<"free", "fs">> /\ Program[11] = <<"free", "text">>
            /\ Program[12] = <<"free", "work">>
        BY DEF Program
      <4> QED BY <4>1
    <3>4. ASSUME NEW b \in OwnBlocks PROVE blocks[b] = 0
      <4>1. PICK n \in {"trace", "queue", "array", "path", "fs", "text", "work"} : b = Own(n)
        BY DEF OwnBlocks
      <4>2. PICK k \in 1 .. 20 : Program[k] = <<"free", n>> BY <3>3
      <4>3. Program[k][1] = "free" /\ Program[k][2] = n BY <4>2
      <4> QED BY <3>2, <4>1, <4>3
    <3>5. \A e \in Events : blocks[EventBlock(e)] = 0 /\ blocks[NameBlock(e)] = 0
      BY <2>2, <3>1 DEF TInv, Memory
    <3>6. \A b \in Blocks : blocks[b] = 0 BY <3>4, <3>5, TraceAssumption
    <3> QED BY <3>1, <3>6 DEF InUse
  <2> QED BY <2>2 DEF CaptureComplete, TInv, Written
<1> QED BY <1>1, <1>2, <1>3, PTL DEF Spec

(* The threads of a trace use its queue as any threads may use a queue: each of
   their steps is one of Queue, or leaves the queue alone. *)
THEOREM QueueIsUsed == ASSUME Room PROVE Spec => Q!Spec
<1>1. Init => Q!Init BY DEF Init
<1>2. ASSUME IInv, TInv, [Next]_vars PROVE [Q!Next]_(Q!vars)
  <2>0. UNCHANGED queue => UNCHANGED Q!vars BY DEF queue, Q!vars, Q!shared
  <2>1. ASSUME NEW t \in Callers, InCall(t) PROVE [Q!Next]_(Q!vars)
    <3>1. Pusher(t) \in {Pusher(u) : u \in Callers} /\ Popper(t) \in {Popper(u) : u \in Callers}
      OBVIOUS
    <3>2. CASE TraceStore(t)
      <4>1. Q!PushCall(Pusher(t), event[t]) /\ at[t] = "store" BY <3>2 DEF TraceStore, Goto
      <4>2. event[t] \in Events
        <5>1. event[t] = <<t, pushed[t]>> /\ pushed[t] > 0 /\ pushed[t] \in 0 .. PushBound
          <6>1. AlignedAt(t) /\ pushed[t] \in 0 .. PushBound
            BY <1>2 DEF TInv, Work, Aligned, Typed
          <6> QED BY <4>1, <6>1 DEF AlignedAt
        <5> QED BY <5>1, TraceAssumption DEF Events
      <4> QED BY <3>1, <4>1, <4>2 DEF Q!Next, Q!Producer
    <3>3. CASE TraceQueue(t)
      <4>1. Q!PushStep(Pusher(t)) BY <3>3 DEF TraceQueue
      <4> QED BY <3>1, <4>1 DEF Q!Next, Q!Producer
    <3>4. CASE TraceAcquire(t)
      <4>1. Q!PopCall(Popper(t)) BY <3>4 DEF TraceAcquire
      <4> QED BY <3>1, <4>1 DEF Q!Next, Q!Consumer
    <3>5. CASE TraceDequeue(t)
      <4>1. \/ Q!PopAcquire(Popper(t)) \/ Q!PopClaim(Popper(t)) \/ Q!PopRead(Popper(t))
            \/ Q!PopRelease(Popper(t))
        BY <3>5 DEF TraceDequeue
      <4> QED BY <3>1, <4>1 DEF Q!Next, Q!Consumer
    <3>6. CASE HeapStep(t) /\ UNCHANGED <<trace, queue, local>> BY <2>0, <3>6
    <3>7. CASE TraceName(t) \/ TraceCount(t) \/ TraceRelease(t) \/ TraceEnd(t)
      BY <2>0, <3>7 DEF TraceName, TraceCount, TraceRelease, TraceEnd
    <3> QED BY <2>1, <3>2, <3>3, <3>4, <3>5, <3>6, <3>7 DEF InCall
  <2>2. ASSUME NEW t \in Callers, TracePush(t) \/ TracePop(t) \/ ThreadEnd(t)
        PROVE  [Q!Next]_(Q!vars)
    BY <2>0, <2>2 DEF TracePush, TracePop, ThreadEnd
  <2>3. ASSUME NEW t \in Callers, NEW e \in Events, AnyHeapCall(t, e) PROVE [Q!Next]_(Q!vars)
    BY <2>0, <2>3 DEF AnyHeapCall
  <2>4. ASSUME MainStep PROVE [Q!Next]_(Q!vars)
    BY <2>0, <2>4 DEF MainStep, MainCall, MainReturn, CaptureStart, MainJoin, CaptureWrite, CaptureStop,
                      FreeDuration, DurationsFreed, MainDestroy
  <2>5. CASE UNCHANGED vars BY <2>0, <2>5 DEF vars
  <2>6. CASE FileWrite BY <2>0, <2>6 DEF FileWrite
  <2> QED BY <1>2, <2>1, <2>2, <2>3, <2>4, <2>5, <2>6 DEF Next
<1>3. Init => IInv /\ TInv BY UsingInit, TraceInit
<1>4. IInv /\ TInv /\ [Next]_vars => (IInv /\ TInv)' BY InvariantStep, TraceStep
<1>5. IInv /\ TInv /\ [Next]_vars => [Q!Next]_(Q!vars) BY <1>2
<1> QED BY <1>1, <1>3, <1>4, <1>5, PTL DEF Spec, Q!Spec
=============================================================================
