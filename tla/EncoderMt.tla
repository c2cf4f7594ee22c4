------------------------------ MODULE EncoderMt ------------------------------
(***************************************************************************)
(* The threaded .xz Stream encoder,                                        *)
(* src/safe/src/internal/container/stream_encoder_mt.rs: the application's *)
(* thread cuts the input into Blocks and hands each to a worker thread;    *)
(* the workers' output buffers are read back in order through the output   *)
(* queue (outqueue.rs).                                                    *)
(*                                                                         *)
(* An action is one critical section: what a thread does while it holds    *)
(* the shared mutex, a worker's mutex or an output buffer's mutex. Input   *)
(* is the sequence 1, 2, 3, ... of units; a Block's output is a number of  *)
(* units of its own, and header, index and footer are one unit each.       *)
(***************************************************************************)
EXTENDS Integers, Sequences, SequencesExt

CONSTANTS
  Threads,         (* lzma_mt.threads                                      *)
  BlockSize,       (* input units per Block                                *)
  Units,           (* bound: input units the application has in all        *)
  ChunkMax,        (* units a worker takes from its buffer at a time       *)
  Spaces,          (* output space the application may offer in a call     *)
  OutSizes,        (* sizes a Block may encode to                          *)
  Timeout,         (* lzma_mt.timeout # 0                                  *)
  Failures,        (* what may fail: "alloc", "encoder"                    *)
  Incompressible,  (* Blocks may outgrow the buffer and be stored          *)
  Chains,          (* bound: filter chains the application may install     *)
  AppActions       (* actions the application uses                         *)

Worker  == 0 .. Threads - 1
None    == -1
Flushes == {"FULL_FLUSH", "FULL_BARRIER", "FINISH"}

ASSUME EncoderAssumption ==
  /\ Threads \in Nat \ {0} /\ BlockSize \in Nat \ {0} /\ Units \in Nat
  /\ ChunkMax \in Nat \ {0} /\ Spaces \subseteq Nat /\ OutSizes \subseteq Nat
  /\ Timeout \in BOOLEAN /\ Incompressible \in BOOLEAN
  /\ Failures \subseteq {"alloc", "encoder"}
  /\ Chains \in Nat \ {0}
  /\ AppActions \subseteq {"RUN"} \cup Flushes

VARIABLES
  (* The application and its lzma_stream. *)
  pc,              (* where the application's thread is                    *)
  action,          (* action of the call in progress                       *)
  avail,           (* input units still in the application's buffer        *)
  space,           (* output space left in this call                       *)
  pending,         (* "RUN", the flush in progress, "End" or "Error"       *)
  ret,             (* what the last call returned                          *)
  (* StreamEncoderMt, touched by the application's thread only. *)
  sequence, current_worker, filters, index,
  (* EncoderSharedState. *)
  outq, read_pos, free_workers, thread_error,
  (* Workers: the mutex-protected state and the thread's own variables. *)
  ws, wl,
  (* History. *)
  accepted,        (* units taken from the application                     *)
  cuts,            (* input positions where a Block was closed             *)
  lost,            (* a worker wiped a job that was assigned to it         *)
  crashed          (* a worker panicked, which aborts the process          *)

app    == <<action, avail, space, pending, ret>>
coder  == <<sequence, current_worker, filters, index>>
shared == <<outq, read_pos, free_workers, thread_error>>
hist   == <<accepted, cuts, lost, crashed>>
vars   == <<pc, app, coder, shared, ws, wl, hist>>

IdleWorker  == [command |-> "Idle", input |-> <<>>, outbuf |-> None, filters |-> None]
IdleThread  == [pc |-> "idle", job |-> None, filters |-> None, content |-> <<>>]

(* new(): all workers are spawned idle; ids are pushed in order.           *)
Init ==
  /\ pc = "app" /\ action = "RUN" /\ avail = 0 /\ space = 0
  /\ pending = "RUN" /\ ret = "OK"
  /\ sequence = "Header" /\ current_worker = None /\ filters = 1 /\ index = <<>>
  /\ outq = <<>> /\ read_pos = 0 /\ thread_error = "OK"
  /\ free_workers = [i \in 1 .. Threads |-> i - 1]
  /\ ws = [w \in Worker |-> IdleWorker]
  /\ wl = [w \in Worker |-> IdleThread]
  /\ accepted = 0 /\ cuts = <<>>
  /\ lost = FALSE /\ crashed = FALSE

-----------------------------------------------------------------------------
(* The output queue, as the encoder uses it: a FIFO of buffers, of which   *)
(* only finished ones hold anything readable.                              *)

HasBuf     == Len(outq) < 2 * Threads
IsReadable == outq # <<>> /\ Head(outq).finished

(* Jobs are numbered in queue order; job j is the buffer at this place.    *)
Place(j)   == j - Len(index)
NewBuf     == [finished |-> FALSE, size |-> 0, content |-> <<>>, filters |-> None]

-----------------------------------------------------------------------------
(* The application's thread.                                               *)

(* lzma_code's admission (StreamState): a pending flush fixes the action   *)
(* and the input; a stream that ended or failed is not coded any more.     *)
Call ==
  /\ pc = "app" /\ pending \notin {"End", "Error"}
  /\ IF pending = "RUN"
     THEN action' \in AppActions /\ avail' \in 0 .. Units - accepted
     ELSE action' = pending /\ avail' = avail
  /\ pending' = action'
  /\ space' \in Spaces
  /\ pc' = IF sequence = "Block" THEN "read" ELSE "copy"
  /\ UNCHANGED <<ret, coder, shared, ws, wl, hist>>

(* A call returns r; TIMED_OUT reaches the application as OK.              *)
Return(r) ==
  /\ pc' = "app"
  /\ ret' = r
  /\ pending' = CASE r = "ERROR" -> "Error"
                  [] r = "STREAM_END" -> IF action = "FINISH" THEN "End" ELSE "RUN"
                  [] OTHER -> pending

(* copy_output_buffer for the header, the index and the footer.            *)
CopyFixed ==
  /\ pc = "copy"
  /\ IF space = 0
     THEN Return("OK") /\ UNCHANGED <<space, sequence>>
     ELSE /\ space' = space - 1
          /\ CASE sequence = "Header" ->
                    sequence' = "Block" /\ pc' = "read" /\ UNCHANGED <<pending, ret>>
               [] sequence = "Index" ->
                    sequence' = "Footer" /\ pc' = "copy" /\ UNCHANGED <<pending, ret>>
               [] sequence = "Footer" ->
                    Return("STREAM_END") /\ UNCHANGED sequence
  /\ UNCHANGED <<action, avail, current_worker, filters, index, shared, ws, wl, hist>>

(* read_ready_output: drain the head buffer as far as the space allows; a  *)
(* drained finished buffer leaves the queue and enters the index.          *)
ReadReady ==
  /\ pc = "read"
  /\ IF ~IsReadable
     THEN pc' = "error" /\ UNCHANGED <<outq, read_pos, index, space>>
     ELSE LET buf == Head(outq)
              n   == IF buf.size - read_pos < space THEN buf.size - read_pos ELSE space
          IN /\ space' = space - n
             /\ IF read_pos + n < buf.size
                THEN /\ read_pos' = read_pos + n
                     /\ pc' = "error"
                     /\ UNCHANGED <<outq, index>>
                ELSE /\ read_pos' = 0
                     /\ outq' = Tail(outq)
                     /\ index' = Append(index, [content |-> buf.content, filters |-> buf.filters])
                     /\ pc' = IF space' > 0 THEN "read" ELSE "error"
  /\ UNCHANGED <<action, avail, pending, ret, sequence, current_worker, filters,
                 free_workers, thread_error, ws, wl, hist>>

(* The first error any worker met ends the call, and the stream with it.   *)
CheckError ==
  /\ pc = "error"
  /\ IF thread_error = "OK"
     THEN pc' = "encode" /\ UNCHANGED <<pending, ret>>
     ELSE Return("ERROR")
  /\ UNCHANGED <<action, avail, space, coder, shared, ws, wl, hist>>

(* stream_encode_in has more to do: input to copy, or a Block to close.    *)
MoreToFeed == avail > 0 \/ (current_worker # None /\ action # "RUN")

(* free_workers.pop() takes the most recently freed worker.                *)
FreeAfterPop == Front(free_workers)

(* start_worker, under the shared mutex: take the most recently freed      *)
(* worker and a fresh buffer; without either, the input stays where it is. *)
(* (prealloc_buf refuses only sizes far above what get_options admits.)    *)
MayStart == HasBuf /\ free_workers # <<>>

StartWorker ==
  /\ pc = "encode" /\ MoreToFeed /\ current_worker = None
  /\ IF ~MayStart
     THEN pc' = "decide" /\ UNCHANGED <<outq, free_workers, current_worker>>
     ELSE /\ current_worker' = Last(free_workers)
          /\ free_workers' = FreeAfterPop
          /\ outq' = Append(outq, NewBuf)
          /\ pc' = "assign"
  /\ UNCHANGED <<app, sequence, filters, index, read_pos, thread_error,
                 ws, wl, hist>>

(* start_worker, under the worker's mutex: clone the filters (which may    *)
(* fail, with worker and buffer already taken) and set the worker going.   *)
AssignWorker ==
  /\ pc = "assign"
  /\ \/ /\ ws' = [ws EXCEPT ![current_worker] =
                   [command |-> "Run", input |-> <<>>,
                    outbuf |-> Len(index) + Len(outq), filters |-> filters]]
        /\ pc' = "encode"
        /\ UNCHANGED <<pending, ret, current_worker>>
     \/ /\ "alloc" \in Failures
        /\ current_worker' = None
        /\ Return("ERROR")
        /\ UNCHANGED ws
  /\ UNCHANGED <<action, avail, space, sequence, filters, index, shared, wl, hist>>

(* What fits into the rest of the Block.                                   *)
CopySize(room, left) == IF room < left THEN room ELSE left

(* The Block is complete when its buffer is full, or when the application  *)
(* asked for a boundary and has nothing more to give.                      *)
ClosesBlock(size, left) == size = BlockSize \/ (left = 0 /\ action # "RUN")

(* stream_encode_in, under the worker's mutex: copy what fits and tell the *)
(* worker when its Block is complete.                                      *)
FeedWorker ==
  /\ pc = "encode" /\ MoreToFeed /\ current_worker # None
  /\ LET w    == current_worker
         n    == CopySize(BlockSize - Len(ws[w].input), avail)
         done == ClosesBlock(Len(ws[w].input) + n, avail - n)
     IN /\ ws' = [ws EXCEPT ![w].input = @ \o [i \in 1 .. n |-> accepted + i],
                            ![w].command = IF done THEN "Finish" ELSE @]
        /\ current_worker' = IF done THEN None ELSE w
        /\ avail' = avail - n
        /\ accepted' = accepted + n
        /\ cuts' = IF done THEN Append(cuts, accepted + n) ELSE cuts
  /\ UNCHANGED <<pc, action, space, pending, ret, sequence, filters, index, shared,
                 wl, lost, crashed>>

FedAll ==
  /\ pc = "encode" /\ ~MoreToFeed
  /\ pc' = "decide"
  /\ UNCHANGED <<app, coder, shared, ws, wl, hist>>

(* A flush that waits for the output is served when the queue is empty.    *)
DrainedWhenNothingReadable == ~IsReadable
Drained == outq = <<>>

(* After feeding: with all input taken, RUN and FULL_BARRIER are served at *)
(* once, FULL_FLUSH and FINISH when the queue is empty; with the output    *)
(* full the call returns; otherwise the thread waits for the workers.      *)
Decide ==
  /\ pc = "decide"
  /\ CASE avail = 0 /\ action = "RUN" ->
            Return("OK") /\ UNCHANGED sequence
       [] avail = 0 /\ action = "FULL_BARRIER" ->
            Return("STREAM_END") /\ UNCHANGED sequence
       [] avail = 0 /\ Drained /\ action = "FULL_FLUSH" ->
            Return("STREAM_END") /\ UNCHANGED sequence
       [] avail = 0 /\ Drained /\ action = "FINISH" ->   \* begin_index
            \/ sequence' = "Index" /\ pc' = "copy" /\ UNCHANGED <<pending, ret>>
            \/ "encoder" \in Failures /\ Return("ERROR") /\ UNCHANGED sequence
       [] OTHER ->
            /\ UNCHANGED sequence
            /\ IF space = 0 THEN Return("OK")
               ELSE pc' = "wait" /\ UNCHANGED <<pending, ret>>
  /\ UNCHANGED <<action, avail, space, current_worker, filters, index, shared, ws, wl, hist>>

(* wait_on_encoder's condition: nothing to read, no error, and no place    *)
(* for input there may be.                                                 *)
NeedsWait ==
  /\ avail = 0 \/ free_workers = <<>> \/ ~HasBuf
  /\ ~IsReadable
  /\ thread_error = "OK"

(* Test the condition under the shared mutex, then sleep on the condition  *)
(* variable or go round the loop of code() again.                          *)
Wait ==
  /\ pc = "wait"
  /\ pc' = IF NeedsWait THEN "sleep" ELSE "read"
  /\ UNCHANGED <<app, coder, shared, ws, wl, hist>>

(* The deadline of this call has passed. It may be far away: nothing that  *)
(* must happen may wait for it (Fairness).                                 *)
TimeOut ==
  /\ pc = "sleep" /\ Timeout
  /\ IF NeedsWait THEN Return("OK")
     ELSE pc' = "read" /\ UNCHANGED <<pending, ret>>
  /\ UNCHANGED <<action, avail, space, coder, shared, ws, wl, hist>>

(* notify_all on the shared condition variable, after the mutex is         *)
(* released: a sleeping application thread tests its condition again.      *)
NotifiedNobody == pc
Notified == IF pc = "sleep" THEN "wait" ELSE pc

(* lzma_filters_update between two calls: only between two Blocks.         *)
MayUpdateFilters == sequence = "Block" /\ current_worker = None

UpdateFilters ==
  /\ pc = "app" /\ pending \notin {"End", "Error"} /\ filters < Chains
  /\ MayUpdateFilters
  /\ filters' = filters + 1
  /\ UNCHANGED <<pc, app, sequence, current_worker, index, shared, ws, wl, hist>>

(* lzma_end: tell every worker to exit. The workers read their commands    *)
(* one by one under their own mutexes, so telling them in one step loses   *)
(* no behaviour.                                                           *)
End ==
  /\ pc = "app"
  /\ ws' = [w \in Worker |-> [ws[w] EXCEPT !.command = "Exit"]]
  /\ pc' = "join"
  /\ UNCHANGED <<app, coder, shared, wl, hist>>

Join ==
  /\ pc = "join"
  /\ \A w \in Worker : wl[w].pc = "exited"
  /\ pc' = "ended"
  /\ outq' = <<>> /\ read_pos' = 0
  /\ UNCHANGED <<app, coder, free_workers, thread_error, ws, wl, hist>>

AppThread ==
  \/ CopyFixed \/ ReadReady \/ CheckError \/ StartWorker \/ AssignWorker
  \/ FeedWorker \/ FedAll \/ Decide \/ Wait \/ Join

-----------------------------------------------------------------------------
(* A worker's thread: encoder_worker_loop.                                 *)

Told(w) == ws[w].command \in {"Run", "Finish"}

(* Wait for a command, then take the filters and the buffer out of the     *)
(* shared state. Both are expected to be there: a panic aborts the process *)
(* (panic = "abort" in Cargo.toml), which ends every thread. The encoder   *)
(* is set up before any input is waited for, which may fail.               *)
Abort ==
  /\ crashed' = TRUE /\ pc' = "aborted"
  /\ wl' = [v \in Worker |-> [wl[v] EXCEPT !.pc = "exited"]]

TakeJob(w) ==
  /\ wl[w].pc = "idle"
  /\ \/ /\ ws[w].command = "Exit"
        /\ wl' = [wl EXCEPT ![w].pc = "exited"]
        /\ UNCHANGED <<pc, ws, crashed>>
     \/ /\ Told(w) /\ ws[w].filters = None
        /\ Abort /\ UNCHANGED ws
     \/ /\ Told(w) /\ ws[w].filters # None
        /\ ws' = [ws EXCEPT ![w].filters = None]
        /\ \E to \in {"run"} \cup (IF "encoder" \in Failures THEN {"fail"} ELSE {}) :
             wl' = [wl EXCEPT ![w] = [pc |-> to, job |-> ws[w].outbuf,
                                      filters |-> ws[w].filters, content |-> <<>>]]
        /\ UNCHANGED <<pc, crashed>>
  /\ UNCHANGED <<app, coder, shared, accepted, cuts, lost>>

(* The last chunk of a finished input is encoded with LZMA_FINISH.         *)
LastChunkOnceFinishing(w, n) == ws[w].command = "Finish"
LastChunk(w, n) ==
  ws[w].command = "Finish" /\ Len(wl[w].content) + n = Len(ws[w].input)

(* Wait for input, take a chunk (under the worker's mutex) and encode it   *)
(* into the buffer nobody else reads yet. The encoder may fail or run out  *)
(* of buffer instead.                                                      *)
EncodeChunk(w) ==
  LET done == Len(wl[w].content)
      left == Len(ws[w].input) - done
      n    == IF left < ChunkMax THEN left ELSE ChunkMax
  IN /\ wl[w].pc = "run"
     /\ ~(ws[w].command = "Run" /\ left = 0)
     /\ IF ws[w].command = "Exit"
        THEN wl' = [wl EXCEPT ![w].pc = "reset"]
        ELSE \/ wl' = [wl EXCEPT
                 ![w].pc = IF LastChunk(w, n) THEN "publish" ELSE "run",
                 ![w].content = @ \o SubSeq(ws[w].input, done + 1, done + n)]
             \/ /\ "encoder" \in Failures
                /\ wl' = [wl EXCEPT ![w].pc = "fail"]
             \/ /\ Incompressible
                /\ wl' = [wl EXCEPT ![w].pc = "full"]
     /\ UNCHANGED <<pc, app, coder, shared, ws, hist>>

(* The buffer is full: wait until the whole Block is known and store it    *)
(* uncompressed (block_uncomp_encode, which may fail).                     *)
BlockKnown(w) == ws[w].command # "Run"

StoreBlock(w) ==
  /\ wl[w].pc = "full" /\ BlockKnown(w)
  /\ \/ /\ ws[w].command = "Exit"
        /\ wl' = [wl EXCEPT ![w].pc = "reset"]
     \/ /\ ws[w].command # "Exit"
        /\ wl' = [wl EXCEPT ![w].pc = "publish", ![w].content = ws[w].input]
     \/ /\ ws[w].command # "Exit" /\ "encoder" \in Failures
        /\ wl' = [wl EXCEPT ![w].pc = "fail"]
  /\ UNCHANGED <<pc, app, coder, shared, ws, hist>>

(* Mark the buffer finished, under the buffer's mutex.                     *)
Publish(w) ==
  /\ wl[w].pc = "publish"
  /\ \E size \in OutSizes :
       outq' = [outq EXCEPT ![Place(wl[w].job)] =
                  [finished |-> TRUE, size |-> size,
                   content |-> wl[w].content, filters |-> wl[w].filters]]
  /\ wl' = [wl EXCEPT ![w].pc = "retire"]
  /\ UNCHANGED <<pc, app, coder, read_pos, free_workers, thread_error, ws, hist>>

(* Offer this worker for the next Block, under the shared mutex.           *)
Retire(w) ==
  /\ wl[w].pc = "retire"
  /\ free_workers' = Append(free_workers, w)
  /\ wl' = [wl EXCEPT ![w].pc = "reset"]
  /\ pc' = Notified
  /\ UNCHANGED <<app, coder, outq, read_pos, thread_error, ws, hist>>

(* Report the error, under the shared mutex. The worker is not offered     *)
(* again.                                                                  *)
Fail(w) ==
  /\ wl[w].pc = "fail"
  /\ thread_error' = IF thread_error = "OK" THEN "ERROR" ELSE thread_error
  /\ wl' = [wl EXCEPT ![w].pc = "reset"]
  /\ pc' = Notified
  /\ UNCHANGED <<app, coder, outq, read_pos, free_workers, ws, hist>>

(* Clear the job, under the worker's mutex, unless told to exit meanwhile. *)
(* The application may have assigned the next job since Retire: then that  *)
(* job is what gets cleared.                                               *)
CommandAfterReset(command) == IF command = "Exit" THEN "Exit" ELSE "Idle"

Reset(w) ==
  /\ wl[w].pc = "reset"
  /\ ws' = [ws EXCEPT ![w] = [IdleWorker EXCEPT
                                !.command = CommandAfterReset(ws[w].command)]]
  /\ wl' = [wl EXCEPT ![w] = IdleThread]
  /\ lost' = (lost \/ ws[w].outbuf # wl[w].job)
  /\ UNCHANGED <<pc, app, coder, shared, accepted, cuts, crashed>>

WorkerThread(w) ==
  \/ TakeJob(w) \/ EncodeChunk(w) \/ StoreBlock(w) \/ Publish(w)
  \/ Retire(w) \/ Fail(w) \/ Reset(w)

-----------------------------------------------------------------------------
Next ==
  \/ Call \/ UpdateFilters \/ End
  \/ AppThread \/ TimeOut
  \/ \E w \in Worker : WorkerThread(w)

Spec == Init /\ [][Next]_vars

(* Every thread is scheduled, and the application keeps calling once it    *)
(* has started a flush. No deadline has to pass: a sleeping application    *)
(* thread is woken by a worker's notification or not at all.               *)
Fairness ==
  /\ WF_vars(AppThread)
  /\ WF_vars(pending # "RUN" /\ Call)
  /\ \A w \in Worker : WF_vars(WorkerThread(w))

FairSpec == Spec /\ Fairness

-----------------------------------------------------------------------------
Promise == INSTANCE OrderedBlocks WITH
  accepted <- accepted,
  cuts     <- cuts,
  output   <- [b \in DOMAIN index |-> index[b].content],
  finished <- pending = "End"

(* The Blocks come out complete, in order and once each, whatever order    *)
(* the workers finish in: the threaded encoder implements OrderedBlocks.   *)
(* It does so even where a job is lost; then the Stream just never ends.   *)
ImplementsOrderedBlocks == Promise!Spec

(* A flush that is reported complete leaves a Block boundary behind, and,  *)
(* except for FULL_BARRIER, leaves nothing inside the encoder: no buffer   *)
(* is queued, no worker holds input, every accepted unit is out (code()).  *)
FlushBoundary ==
  (pc = "app" /\ ret = "STREAM_END" /\ action \in Flushes) =>
    /\ current_worker = None
    /\ accepted > 0 => Len(cuts) > 0 /\ Last(cuts) = accepted
    /\ action # "FULL_BARRIER" => Len(index) = Len(cuts)

(* A worker's job was wiped (FinishEnds, which does not hold, is about     *)
(* that), or a failed worker was told to finish and panicked.              *)
Derailed == lost \/ crashed

(* A call returns and a shutdown ends, with no deadline to rescue it: no   *)
(* wakeup of the application's thread is lost (wait_on_encoder against the *)
(* notifications of encoder_worker_loop) and no worker misses Exit. Where  *)
(* a job was wiped or a worker panicked nothing is claimed.                *)
CallReturns ==
  (pc \notin {"app", "ended"}) ~> (pc \in {"app", "ended"} \/ Derailed)

(* LZMA_FINISH: "Call lzma_code() with LZMA_FINISH until it returns        *)
(* LZMA_STREAM_END" (base.h): doing so ends in STREAM_END or in an error.  *)
FinishEnds ==
  (pending = "FINISH") ~> (pending \in {"End", "Error"} \/ pc = "ended" \/ crashed)
=============================================================================
