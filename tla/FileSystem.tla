----------------------------- MODULE FileSystem -----------------------------
(***************************************************************************)
(* The asynchronous file system of src/src/fs.c: one client thread submits *)
(* reads and writes as work objects to three bounded queues, each drained  *)
(* by a thread of its own (plain files, compressed writes and compressed   *)
(* reads); the client waits on a work's event, destroys works, and shuts   *)
(* the threads down with a NULL work.                                      *)
(*                                                                         *)
(* Each queue has one pushing and one popping thread, so a push and a pop  *)
(* are single steps here (module QueueSpsc).                               *)
(***************************************************************************)
EXTENDS Naturals, Sequences

CONSTANTS
  Paths,        \* the files; all exist at the start
  Compressed,   \* the files that are read and written with use_compression
  Uses,         \* the uses a run makes of the file system, one a behaviour:
                \* capacity is the queue_capacity of fs_create; faults is
                \* whether system calls on files may fail by themselves; waits
                \* is whether the client waits for the works on a compressed
                \* file before it submits another (homework2_test_internal)
  MaxWorks      \* bound of the model: works submitted

ASSUME FileSystemAssumption ==
  /\ Compressed \subseteq Paths
  /\ Uses \subseteq [capacity : Nat \ {0}, faults : BOOLEAN, waits : BOOLEAN]
  /\ MaxWorks \in Nat

Workers == {"file", "compress", "decompress"}
Works == 1 .. MaxWorks
Stop == 0                       \* the NULL work
StopOrder == <<"file", "compress", "decompress">>

(* What a file holds: the data of the work that wrote it, what it held before
   the program started (0), or a part of something. *)
Old == 0
Torn == MaxWorks + 1
Data == 0 .. MaxWorks + 1

VARIABLES
  use,        \* the use made, chosen at the start
  works,      \* sequence of the works submitted: [op, path]
  done,       \* works whose event is signalled
  failed,     \* works whose result is an error
  buffer,     \* of each work: what it read
  blocks,     \* allocated memory: <<kind, work>>
  queues,     \* of each worker: its queue
  worker,     \* of each worker: [pc, work]
  files,      \* of each path: what the file holds
  client,     \* the client thread: [pc, work, stage]
  destroyed,  \* queues that fs_destroy has destroyed
  expected    \* history, of each read: the last write submitted before it

fs == <<works, failed, buffer, blocks, files, expected>>
vars == <<use, fs, done, queues, worker, client, destroyed>>

(* Mutant: fs_read pushes to decompress_queue whatever use_compression is. *)
QueueOfReads(op, path) ==
  CASE op = "read" -> "decompress"
    [] op = "write" /\ path \in Compressed -> "compress"
    [] op = "write" /\ path \notin Compressed -> "file"

QueueOf(op, path) ==
  CASE path \notin Compressed -> "file"
    [] path \in Compressed /\ op = "write" -> "compress"
    [] path \in Compressed /\ op = "read" -> "decompress"

Submitted == 1 .. Len(works)
OnPath(path) == {k \in Submitted : works[k].path = path}
Freed(k) == <<"work", k>> \notin blocks

Init ==
  /\ use \in Uses
  /\ works = << >>
  /\ done = {} /\ failed = {} /\ blocks = {} /\ destroyed = {}
  /\ buffer = [k \in Works |-> Old]
  /\ queues = [w \in Workers |-> << >>]
  /\ worker = [w \in Workers |-> [pc |-> "pop", work |-> Stop]]
  /\ files = [p \in Paths |-> Old]
  /\ client = [pc |-> "idle", work |-> Stop, stage |-> 1]
  /\ expected = [k \in Works |-> Old]
-----------------------------------------------------------------------------
(* The client thread *)

(* The last write submitted to a path. *)
LastWrite(path) ==
  LET writes == {k \in OnPath(path) : works[k].op = "write"}
  IN  IF writes = {} THEN Old ELSE CHOOSE k \in writes : \A j \in writes : j <= k

(* fs_read and fs_write up to queue_push; a compressed write allocates
   buffer_2 and compresses into it here. *)
FsSubmit(op, path) ==
  LET k == Len(works) + 1
  IN  /\ client.pc = "idle" /\ client.stage = 1
      /\ k <= MaxWorks
      /\ use.waits /\ path \in Compressed => OnPath(path) \subseteq done
      /\ works' = Append(works, [op |-> op, path |-> path])
      /\ blocks' = blocks \cup {<<"work", k>>}
                     \cup (IF op = "write" /\ path \in Compressed THEN {<<"buffer_2", k>>} ELSE {})
      /\ expected' = [expected EXCEPT ![k] = LastWrite(path)]
      /\ client' = [client EXCEPT !.pc = "push", !.work = k]
      /\ UNCHANGED <<use, done, failed, buffer, files, queues, worker, destroyed>>

(* Mutant: the push does not wait for a free slot. *)
FsPushUnbounded ==
  LET q == QueueOf(works[client.work].op, works[client.work].path)
  IN  /\ client.pc = "push"
      /\ queues' = [queues EXCEPT ![q] = Append(@, client.work)]
      /\ client' = [client EXCEPT !.pc = "idle", !.work = Stop]
      /\ UNCHANGED <<use, fs, done, worker, destroyed>>

(* queue_push of the work: blocks while the queue is full. *)
FsPush ==
  LET q == QueueOf(works[client.work].op, works[client.work].path)
  IN  /\ client.pc = "push"
      /\ Len(queues[q]) < use.capacity
      /\ queues' = [queues EXCEPT ![q] = Append(@, client.work)]
      /\ client' = [client EXCEPT !.pc = "idle", !.work = Stop]
      /\ UNCHANGED <<use, fs, done, worker, destroyed>>

(* fs_work_wait, fs_work_get_result, fs_work_get_buffer and fs_work_get_size
   ("wait") and fs_work_destroy ("destroy") block on the work's event. *)
WorkCall(k, call) ==
  /\ client.pc = "idle"
  /\ k \in Submitted /\ ~Freed(k)
  /\ client' = [client EXCEPT !.pc = call, !.work = k]
  /\ UNCHANGED <<use, fs, done, queues, worker, destroyed>>

WaitReturn ==
  /\ client.pc = "wait" /\ client.work \in done
  /\ client' = [client EXCEPT !.pc = "idle", !.work = Stop]
  /\ UNCHANGED <<use, fs, done, queues, worker, destroyed>>

DestroyReturn ==
  /\ client.pc = "destroy" /\ client.work \in done
  /\ blocks' = blocks \ {<<"work", client.work>>}
  /\ client' = [client EXCEPT !.pc = "idle", !.work = Stop]
  /\ UNCHANGED <<use, works, failed, buffer, files, expected, done, queues, worker, destroyed>>

(* fs_destroy: for each queue push NULL, join its thread, destroy the queue. *)
FsDestroy ==
  /\ client.pc = "idle" /\ client.stage = 1
  /\ client' = [client EXCEPT !.pc = "stop"]
  /\ UNCHANGED <<use, fs, done, queues, worker, destroyed>>

(* Mutant: every NULL goes to the first queue. *)
StopPushFirst ==
  LET q == "file"
  IN  /\ client.pc = "stop"
      /\ Len(queues[q]) < use.capacity
      /\ queues' = [queues EXCEPT ![q] = Append(@, Stop)]
      /\ client' = [client EXCEPT !.pc = "join"]
      /\ UNCHANGED <<use, fs, done, worker, destroyed>>

StopPush ==
  LET q == StopOrder[client.stage]
  IN  /\ client.pc = "stop"
      /\ Len(queues[q]) < use.capacity
      /\ queues' = [queues EXCEPT ![q] = Append(@, Stop)]
      /\ client' = [client EXCEPT !.pc = "join"]
      /\ UNCHANGED <<use, fs, done, worker, destroyed>>

StopJoin ==
  LET q == StopOrder[client.stage]
  IN  /\ client.pc = "join"
      /\ worker[q].pc = "exit"
      /\ destroyed' = destroyed \cup {q}
      /\ client' = [client EXCEPT !.stage = @ + 1,
                                  !.pc = IF client.stage = 3 THEN "idle" ELSE "stop"]
      /\ UNCHANGED <<use, fs, done, queues, worker>>
-----------------------------------------------------------------------------
(* The worker threads: the loop of file_thread_func and its two copies. *)

Goto(w, from, to) == worker[w].pc = from /\ worker' = [worker EXCEPT ![w].pc = to]

Op(w) == works[worker[w].work].op
Path(w) == works[worker[w].work].path

(* Workers that have the file at path open with the given operation. *)
Open(op, path) ==
  {w \in Workers : worker[w].pc \in {"transfer", "close"} /\ Op(w) = op /\ Path(w) = path}

(* Mutant: files are opened with all sharing modes. *)
SharableAlways(w) == TRUE

(* FILE_SHARE_READ of readers and FILE_SHARE_WRITE of writers: a file open for
   reading cannot be opened for writing and the other way round. *)
Sharable(w) == Open(IF Op(w) = "read" THEN "write" ELSE "read", Path(w)) = {}

WorkerPop(w) ==
  /\ worker[w].pc = "pop" /\ queues[w] # << >>
  /\ queues' = [queues EXCEPT ![w] = Tail(@)]
  /\ worker' = [worker EXCEPT ![w] =
       [pc |-> IF Head(queues[w]) = Stop THEN "exit" ELSE "open", work |-> Head(queues[w])]]
  /\ UNCHANGED <<use, fs, done, client, destroyed>>

(* CreateFile; CREATE_ALWAYS empties the file; a read then allocates buffer. *)
FileOpen(w) ==
  /\ Goto(w, "open", "transfer")
  /\ Sharable(w)
  /\ files' = IF Op(w) = "write" THEN [files EXCEPT ![Path(w)] = Torn] ELSE files
  /\ blocks' = IF Op(w) = "read" THEN blocks \cup {<<"buffer", worker[w].work>>} ELSE blocks
  /\ UNCHANGED <<use, works, failed, buffer, expected, done, queues, client, destroyed>>

(* Mutant: file_write keeps buffer_2. *)
FileTransferLeaks(w) ==
  /\ Goto(w, "transfer", "close")
  /\ IF Op(w) = "read"
       THEN buffer' = [buffer EXCEPT ![worker[w].work] = files[Path(w)]] /\ UNCHANGED files
       ELSE files' = [files EXCEPT ![Path(w)] = worker[w].work] /\ UNCHANGED buffer
  /\ UNCHANGED <<use, works, failed, blocks, expected, done, queues, client, destroyed>>

(* Mutant: the event is signalled before the file is closed. *)
FileTransferSignals(w) ==
  /\ Goto(w, "transfer", "close")
  /\ done' = done \cup {worker[w].work}
  /\ IF Op(w) = "read"
       THEN buffer' = [buffer EXCEPT ![worker[w].work] = files[Path(w)]] /\ UNCHANGED files
       ELSE files' = [files EXCEPT ![Path(w)] = worker[w].work] /\ UNCHANGED buffer
  /\ UNCHANGED <<use, works, failed, blocks, expected, queues, client, destroyed>>

(* ReadFile and WriteFile, of all there is. *)
FileTransfer(w) ==
  /\ Goto(w, "transfer", "close")
  /\ IF Op(w) = "read"
       THEN /\ buffer' = [buffer EXCEPT ![worker[w].work] = files[Path(w)]]
            /\ UNCHANGED <<files, blocks>>
       ELSE /\ files' = [files EXCEPT ![Path(w)] = worker[w].work]
            /\ blocks' = blocks \ {<<"buffer_2", worker[w].work>>}
            /\ UNCHANGED buffer
  /\ UNCHANGED <<use, works, failed, expected, done, queues, client, destroyed>>

(* CloseHandle, and the decompression of a compressed read. *)
FileClose(w) ==
  /\ Goto(w, "close", "signal")
  /\ UNCHANGED <<use, fs, done, queues, client, destroyed>>

(* Mutant: only one branch of use_compression signals the event. *)
WorkSignalPlain(w) ==
  /\ Goto(w, "signal", "pop")
  /\ done' = IF Path(w) \in Compressed THEN done ELSE done \cup {worker[w].work}
  /\ UNCHANGED <<use, fs, queues, client, destroyed>>

WorkSignal(w) ==
  /\ Goto(w, "signal", "pop")
  /\ done' = done \cup {worker[w].work}
  /\ UNCHANGED <<use, fs, queues, client, destroyed>>

(* A failed call: the error is kept in result, the file closed, and the
   function returns. *)
WorkFail(w) ==
  /\ \/ worker[w].pc = "open" /\ (use.faults \/ ~Sharable(w))
     \/ worker[w].pc = "transfer" /\ use.faults
  /\ failed' = failed \cup {worker[w].work}
  /\ worker' = [worker EXCEPT ![w].pc = "pop"]
  /\ UNCHANGED <<use, works, buffer, blocks, files, expected, done, queues, client, destroyed>>

Worker(w) ==
  \/ WorkerPop(w) \/ FileOpen(w) \/ FileTransfer(w) \/ FileClose(w)
  \/ WorkSignal(w) \/ WorkFail(w)

(* What the client does inside a call. *)
InCall == FsPush \/ WaitReturn \/ DestroyReturn \/ StopPush \/ StopJoin

Next ==
  \/ \E path \in Paths, op \in {"read", "write"} : FsSubmit(op, path)
  \/ \E k \in Submitted, call \in {"wait", "destroy"} : WorkCall(k, call)
  \/ FsDestroy
  \/ InCall
  \/ \E w \in Workers : Worker(w)

Spec == Init /\ [][Next]_vars

(* Threads that can run do; nothing obliges the client to make a call. *)
FairSpec == Spec /\ WF_vars(InCall) /\ \A w \in Workers : WF_vars(Worker(w))
-----------------------------------------------------------------------------
(* Every variable has its type. *)
TypeOK ==
  /\ use \in Uses
  /\ works \in Seq([op : {"read", "write"}, path : Paths]) /\ Len(works) <= MaxWorks
  /\ done \subseteq Submitted /\ failed \subseteq Submitted
  /\ buffer \in [Works -> Data]
  /\ blocks \subseteq {"work", "buffer", "buffer_2"} \X Works
  /\ queues \in [Workers -> Seq(Works \cup {Stop})]
  /\ \A w \in Workers : Len(queues[w]) <= use.capacity
  /\ worker \in [Workers -> [pc : {"pop", "open", "transfer", "close", "signal", "exit"},
                             work : Works \cup {Stop}]]
  /\ files \in [Paths -> Data]
  /\ client \in [pc : {"idle", "push", "wait", "destroy", "stop", "join"},
                 work : Works \cup {Stop}, stage : 1 .. 4]
  /\ destroyed \subseteq Workers
  /\ expected \in [Works -> Data]

(* The client waits for what it must, and no system call fails by itself. *)
Careful == use.waits /\ ~use.faults

(* A careful client's read that is done holds the data of the last write
   submitted to its path before it, though the client may never have waited for that write (plain
   files) and though writes and reads of a compressed file are on different
   threads (homework2_test compares the two). *)
ReadsLastWrite ==
  Careful => \A k \in done : works[k].op = "read" => buffer[k] = expected[k]

(* A read that is done never holds a part of a write, unless a write to its
   file failed half-way: the sharing modes of CreateFile keep them apart even
   when the client does not. *)
WholeReads ==
  \A k \in done :
    works[k].op = "read" /\ buffer[k] = Torn =>
      \E j \in failed : works[j].op = "write" /\ works[j].path = works[k].path

(* Whatever fails, a work that the client has destroyed is neither queued nor
   in the hands of a worker, and fs_destroy destroys a queue only when its
   thread has ended, with every work of the queue taken from it. *)
NoUseAfterDestroy ==
  /\ \A k \in Submitted : Freed(k) =>
       \A w \in Workers :
         /\ k \notin {queues[w][i] : i \in 1 .. Len(queues[w])}
         /\ worker[w].work = k => worker[w].pc = "pop"
  /\ \A w \in destroyed : worker[w].pc = "exit" /\ queues[w] = << >>

(* What is allocated for a work, by its kind. *)
Held(k) == {kind \in {"work", "buffer", "buffer_2"} : <<kind, k>> \in blocks}

(* What a work leaves allocated, whatever fails: one that is done, nothing but
   itself (the caller's fs_work_destroy frees it) and the buffer of a read,
   which is the caller's; one that fails, itself, for its event is never
   signalled and fs_work_destroy would wait, and, if it is a compressed write,
   buffer_2.  So the failures are all that ever leaks. *)
LeaksAreFailures ==
  /\ \A k \in done : Held(k) \subseteq {"work"} \cup (IF works[k].op = "read" THEN {"buffer"} ELSE {})
  /\ \A k \in failed : "work" \in Held(k) /\ (QueueOf(works[k].op, works[k].path) = "compress" => "buffer_2" \in Held(k))

(* Waiting for a work ends: every work submitted is done some day. *)
WorkCompletes == \A k \in Works : (k \in Submitted) ~> (k \in done)

(* Waiting for a work ends when the client is careful. *)
CarefulWorkCompletes ==
  \A k \in Works : (Careful /\ k \in Submitted) ~> (k \in done)

(* fs_destroy returns, whatever failed before. *)
ShutdownCompletes == (client.pc = "stop") ~> (client.stage = 4)
=============================================================================
