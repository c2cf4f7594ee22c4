--------------------------- MODULE StreamEncoderMt ---------------------------
(***************************************************************************)
(* The threaded .xz Stream encoder of the C library,                       *)
(* src/original/src/liblzma/common/stream_encoder_mt.c, over its output    *)
(* queue (outqueue.c). EncoderMt models the Rust port of the same coder;   *)
(* what differs is the order of critical sections, that workers are        *)
(* created on demand, that they can be stopped, and that a coder may be    *)
(* initialised again while its workers still run.                          *)
(*                                                                         *)
(* An action is what one thread does under one mutex, or between two of    *)
(* them on data of its own. Input is the sequence 1, 2, 3, ... of units.   *)
(***************************************************************************)
EXTENDS OutQueue

CONSTANTS
  BlockSize,       (* input units per Block                                *)
  ChunkMax,        (* in_chunk_max: units encoded at a time                *)
  OutSizes,        (* sizes a Block may encode to                          *)
  Setups           (* ways to use the encoder; a behaviour keeps to one    *)

Worker  == 1 .. Threads
None    == 0
Flushes == {"FULL_FLUSH", "FULL_BARRIER", "FINISH"}

(* A setup: units of input, chains of filters and inits of the lzma_stream *)
(* bound what the application does in all; actions and spaces are what it  *)
(* uses and offers; timeout says whether coder->timeout is set, failures   *)
(* what may fail ("alloc", "encoder"), incompressible whether Blocks may   *)
(* outgrow their buffer and be stored.                                     *)
ASSUME StreamEncoderAssumption ==
  /\ BlockSize \in Nat \ {0} /\ ChunkMax \in Nat \ {0}
  /\ OutSizes \subseteq Nat \ {0} /\ \E n \in OutSizes : \A m \in OutSizes : m <= n
  /\ \A s \in Setups :
       /\ DOMAIN s = {"units", "chains", "inits", "actions", "spaces", "timeout",
                      "failures", "incompressible"}
       /\ s.units \in Nat /\ s.chains \in Nat \ {0} /\ s.inits \in Nat \ {0}
       /\ s.actions \subseteq {"RUN"} \cup Flushes /\ s.spaces \subseteq Nat

(* outbuf_alloc_size: room for the largest Block (lzma_block_buffer_bound) *)
BufSize == CHOOSE n \in OutSizes : \A m \in OutSizes : m <= n

VARIABLES
  setup,     (* the setup of this behaviour                                *)
  (* The application and its lzma_stream.                                  *)
  pc,        (* where the application's thread is; "app": not in the library *)
  call,      (* [action, avail, space] of the call in progress             *)
  pending,   (* "RUN", the flush in progress, "End" or "Error"             *)
  ret,       (* what the last call returned                                *)
  (* lzma_stream_coder, touched by the application's thread only.          *)
  sequence, thr, filters, filters_cache, index, threads_initialized,
  (* lzma_stream_coder, under coder->mutex.                                *)
  outq, threads_free, thread_error, progress_in,
  (* worker_thread: under thr->mutex, and the thread's own variables.      *)
  ws, wl,
  (* History.                                                              *)
  inits,     (* initialisations so far                                     *)
  accepted,  (* units taken from the application                           *)
  cuts,      (* input positions where a Block was closed                   *)
  chain_of,  (* filter chain in force when each unit was accepted          *)
  unsettled, (* an initialisation went on before every worker was done     *)
  strayed    (* threads stopped between their command and taking it        *)

app    == <<call, pending, ret>>
coder  == <<sequence, thr, filters, filters_cache, index, threads_initialized>>
shared == <<outq, threads_free, thread_error, progress_in>>
hist   == <<inits, accepted, cuts, chain_of, unsettled, strayed>>
vars   == <<setup, pc, app, coder, shared, ws, wl, hist>>

IdleWorker == [state |-> "IDLE", in |-> <<>>, outbuf |-> <<0, 0>>, filters |-> None,
               progress_in |-> 0]
IdleThread == [pc |-> "idle", state |-> "IDLE", content |-> <<>>, size |-> 0]

(* stream_encoder_mt_init of a new coder: no thread exists yet.            *)
Init ==
  /\ setup \in Setups
  /\ pc = "app" /\ call = [action |-> "RUN", avail |-> 0, space |-> 0]
  /\ pending = "RUN" /\ ret = "OK"
  /\ sequence = "STREAM_HEADER" /\ thr = None /\ filters = 1 /\ filters_cache = None
  /\ index = <<>> /\ threads_initialized = 0
  /\ outq = Empty /\ threads_free = <<>> /\ thread_error = "OK" /\ progress_in = 0
  /\ ws = [w \in Worker |-> IdleWorker]
  /\ wl = [w \in Worker |-> IdleThread]
  /\ inits = 1 /\ accepted = 0 /\ cuts = <<>> /\ chain_of = <<>>
  /\ unsettled = FALSE /\ strayed = {}

-----------------------------------------------------------------------------
(* The application's thread.                                               *)

(* lzma_code's admission: a pending flush keeps its action and its input.  *)
Call ==
  /\ pc = "app" /\ pending \notin {"End", "Error"}
  /\ \E a \in IF pending = "RUN" THEN setup.actions ELSE {pending},
        n \in IF pending = "RUN" THEN 0 .. setup.units - accepted ELSE {call.avail},
        s \in setup.spaces :
       /\ call' = [action |-> a, avail |-> n, space |-> s]
       /\ pending' = a
  /\ pc' = IF sequence = "BLOCK" THEN "read" ELSE "copy"
  /\ UNCHANGED <<setup, ret, coder, shared, ws, wl, hist>>

(* A call returns r; LZMA_TIMED_OUT reaches the application as LZMA_OK.    *)
Return(r) ==
  /\ pc' = "app"
  /\ ret' = r
  /\ pending' = CASE r = "ERROR" -> "Error"
                  [] r = "STREAM_END" -> IF call.action = "FINISH" THEN "End" ELSE "RUN"
                  [] OTHER -> pending

Proceed(place) == pc' = place /\ UNCHANGED <<pending, ret>>

(* threads_stop: every thread is told under its own mutex. The threads do  *)
(* not look at each other, so telling all in one step loses no behaviour.  *)
AllTold(state) ==
  [w \in Worker |-> IF w <= threads_initialized THEN [ws[w] EXCEPT !.state = state] ELSE ws[w]]

(* threads_stop(coder, false) and return the error.                        *)
StopAndFail == ws' = AllTold("STOP") /\ Return("ERROR")

(* stream_encode_mt, SEQ_STREAM_HEADER, SEQ_INDEX and SEQ_STREAM_FOOTER:   *)
(* one unit each.                                                          *)
CopyFixed ==
  /\ pc = "copy"
  /\ IF call.space = 0
     THEN Return("OK") /\ UNCHANGED <<call, sequence>>
     ELSE /\ call' = [call EXCEPT !.space = @ - 1]
          /\ \/ sequence = "STREAM_HEADER" /\ sequence' = "BLOCK" /\ Proceed("read")
             \/ sequence = "INDEX" /\ sequence' = "STREAM_FOOTER" /\ Proceed("copy")
             \/ sequence = "STREAM_FOOTER" /\ Return("STREAM_END") /\ UNCHANGED sequence
  /\ UNCHANGED <<setup, thr, filters, filters_cache, index, threads_initialized, shared, ws, wl, hist>>

(* The top of the loop in SEQ_BLOCK, under coder->mutex: an error ends the *)
(* call, otherwise the head of the queue is read. A Block that is out      *)
(* entirely enters the Index (lzma_index_append may fail), and the loop    *)
(* goes round as long as there is space.                                   *)
ReadOutput ==
  /\ pc = "read"
  /\ IF thread_error # "OK"
     THEN StopAndFail /\ UNCHANGED <<call, outq, index>>
     ELSE LET n == Available(outq, call.space)
          IN /\ call' = [call EXCEPT !.space = @ - n]
             /\ outq' = Read(outq, call.space)
             /\ \/ /\ ~Drains(outq, call.space)
                   /\ Proceed("encode") /\ UNCHANGED <<index, ws>>
                \/ /\ Drains(outq, call.space)
                   /\ index' = Append(index, Head(outq.active).ret)
                   /\ Proceed(IF n < call.space THEN "read" ELSE "encode")
                   /\ UNCHANGED ws
                \/ /\ Drains(outq, call.space) /\ "alloc" \in setup.failures
                   /\ StopAndFail /\ UNCHANGED index
  /\ UNCHANGED <<setup, sequence, thr, filters, filters_cache, threads_initialized,
                 threads_free, thread_error, progress_in, wl, hist>>

(* The condition of stream_encode_in's loop.                               *)
MoreToFeed == call.avail > 0 \/ (thr # None /\ call.action # "RUN")

(* get_thread up to the choice of the thread: no buffer may be started, or *)
(* prealloc_buf and lzma_filters_copy (each may fail) and then, under      *)
(* coder->mutex, the most recently freed thread; else one more is created  *)
(* (initialize_new_thread may fail); else there is none now.               *)
NewThreadAllowed == threads_initialized < Threads

GetThread ==
  /\ pc = "encode" /\ MoreToFeed /\ thr = None
  /\ \/ /\ ~HasBuf(outq)
        /\ Proceed("decide")
        /\ UNCHANGED <<outq, thr, threads_free, threads_initialized, filters_cache, ws>>
     \/ /\ HasBuf(outq)
        /\ outq' = PreallocBuf(outq, BufSize)
        /\ filters_cache' = IF filters_cache = None THEN filters ELSE filters_cache
        /\ UNCHANGED ws
        /\ \/ /\ threads_free # <<>>
              /\ thr' = Head(threads_free) /\ threads_free' = Tail(threads_free)
              /\ Proceed("assign") /\ UNCHANGED threads_initialized
           \/ /\ threads_free = <<>> /\ NewThreadAllowed
              /\ thr' = threads_initialized + 1
              /\ threads_initialized' = threads_initialized + 1
              /\ Proceed("assign") /\ UNCHANGED threads_free
           \/ /\ threads_free = <<>> /\ ~NewThreadAllowed
              /\ Proceed("decide")
              /\ UNCHANGED <<thr, threads_free, threads_initialized>>
     \/ /\ HasBuf(outq) /\ "alloc" \in setup.failures
        /\ StopAndFail
        /\ UNCHANGED <<outq, thr, threads_free, threads_initialized, filters_cache>>
  /\ UNCHANGED <<setup, call, sequence, filters, index, thread_error, progress_in, wl, hist>>

(* Jobs are numbered in queue order in each initialisation.                *)
NextJob == <<inits, Len(index) + Len(outq.active) + 1>>

(* get_thread, under thr->mutex: start the thread on a new buffer, with    *)
(* the filters copied for it.                                              *)
AssignThread ==
  /\ pc = "assign"
  /\ ws' = [ws EXCEPT ![thr].state = "RUN", ![thr].in = <<>>,
                      ![thr].outbuf = NextJob, ![thr].filters = filters_cache]
  /\ outq' = [GetBuf(outq, NextJob, thr) EXCEPT !.active[Len(outq.active) + 1].ret = <<>>]
  /\ filters_cache' = None
  /\ pc' = "encode"
  /\ UNCHANGED <<setup, app, sequence, thr, filters, index, threads_initialized,
                 threads_free, thread_error, progress_in, wl, hist>>

(* The Block is complete when its buffer is full, or when the application  *)
(* asked for a boundary and has no more input.                             *)
ClosesBlock(size, left) == size = BlockSize \/ (left = 0 /\ call.action # "RUN")

(* lzma_bufcpy: what fits into the rest of the Block.                      *)
CopySize(room, left) == SmallerOf(room, left)

(* stream_encode_in: copy what fits; under thr->mutex tell the thread, and *)
(* that its Block is complete. A thread found idle has failed: then its    *)
(* error is what the call returns.                                         *)
FeedThread ==
  /\ pc = "encode" /\ MoreToFeed /\ thr # None
  /\ LET n    == CopySize(BlockSize - Len(ws[thr].in), call.avail)
         done == ClosesBlock(Len(ws[thr].in) + n, call.avail - n)
         more == [i \in 1 .. n |-> accepted + i]
     IN /\ call' = [call EXCEPT !.avail = @ - n]
        /\ accepted' = accepted + n
        /\ chain_of' = chain_of \o [i \in 1 .. n |-> filters]
        /\ IF ws[thr].state = "IDLE"
           THEN pc' = "blockerror" /\ UNCHANGED <<thr, ws, cuts>>
           ELSE /\ ws' = [ws EXCEPT ![thr].in = @ \o more,
                                    ![thr].state = IF done THEN "FINISH" ELSE @]
                /\ thr' = IF done THEN None ELSE thr
                /\ cuts' = IF done THEN Append(cuts, accepted + n) ELSE cuts
                /\ UNCHANGED pc
  /\ UNCHANGED <<setup, pending, ret, sequence, filters, filters_cache, index, threads_initialized,
                 shared, wl, inits, unsettled, strayed>>

(* stream_encode_in: fetch thread_error, under coder->mutex.               *)
BlockError ==
  /\ pc = "blockerror"
  /\ IF thread_error = "OK" THEN Proceed("decide") /\ UNCHANGED ws ELSE StopAndFail
  /\ UNCHANGED <<setup, call, coder, shared, wl, hist>>

FedAll ==
  /\ pc = "encode" /\ ~MoreToFeed
  /\ pc' = "decide"
  /\ UNCHANGED <<setup, app, coder, shared, ws, wl, hist>>

(* After feeding: with all input taken, RUN and FULL_BARRIER are served at *)
(* once, FULL_FLUSH and FINISH when the queue is empty; with the output    *)
(* full the call returns; otherwise the thread waits for the workers.      *)
(* lzma_index_encoder_init may fail; that stops no thread, as none runs.   *)
Drained == IsEmpty(outq)

Decide ==
  /\ pc = "decide"
  /\ CASE call.avail = 0 /\ call.action = "RUN" -> Return("OK") /\ UNCHANGED sequence
       [] call.avail = 0 /\ call.action = "FULL_BARRIER" ->
            Return("STREAM_END") /\ UNCHANGED sequence
       [] call.avail = 0 /\ Drained /\ call.action = "FULL_FLUSH" ->
            Return("STREAM_END") /\ UNCHANGED sequence
       [] call.avail = 0 /\ Drained /\ call.action = "FINISH" ->
            \/ sequence' = "INDEX" /\ Proceed("copy")
            \/ "alloc" \in setup.failures /\ UNCHANGED sequence /\ Return("ERROR")
       [] OTHER ->
            /\ UNCHANGED sequence
            /\ IF call.space = 0 THEN Return("OK") ELSE Proceed("wait")
  /\ UNCHANGED <<setup, call, thr, filters, filters_cache, index, threads_initialized,
                 shared, ws, wl, hist>>

(* wait_for_work's condition: there is no input or no place for it, and    *)
(* nothing to read and no error.                                           *)
NeedsWait ==
  /\ call.avail = 0 \/ threads_free = <<>> \/ ~HasBuf(outq)
  /\ ~IsReadable(outq)
  /\ thread_error = "OK"

(* Test the condition under coder->mutex; sleep, or go round the loop.     *)
Wait ==
  /\ pc = "wait"
  /\ pc' = IF NeedsWait THEN "sleep" ELSE "read"
  /\ UNCHANGED <<setup, app, coder, shared, ws, wl, hist>>

(* mythread_cond_timedwait says that the time is over: the call returns,   *)
(* whatever the condition is by now.                                       *)
TimeOut ==
  /\ pc = "sleep" /\ setup.timeout
  /\ Return("OK")
  /\ UNCHANGED <<setup, call, coder, shared, ws, wl, hist>>

(* mythread_cond_signal(&coder->cond), given with coder->mutex held.       *)
SignalNobody == pc
Signalled == IF pc = "sleep" THEN "wait" ELSE pc

(* stream_encoder_mt_update: only between two Blocks; drops the copy made  *)
(* for a thread that could not be had.                                     *)
CacheKeptOnUpdate == filters_cache
CacheAfterUpdate  == None
MayUpdate == sequence \in {"STREAM_HEADER", "BLOCK"} /\ thr = None

UpdateFilters ==
  /\ pc = "app" /\ pending \notin {"End", "Error"} /\ filters < setup.chains
  /\ MayUpdate
  /\ filters' = filters + 1
  /\ filters_cache' = CacheAfterUpdate
  /\ UNCHANGED <<setup, pc, app, sequence, thr, index, threads_initialized, shared, ws, wl, hist>>

-----------------------------------------------------------------------------
(* Initialising the same lzma_stream again, with as many threads.          *)

(* threads_stop(coder, true), first half.                                  *)
Reinit ==
  /\ pc = "app" /\ inits < setup.inits
  /\ ws' = AllTold("STOP")
  /\ inits' = inits + 1
  /\ pc' = "settle"
  /\ UNCHANGED <<setup, app, coder, shared, wl, accepted, cuts, chain_of, unsettled, strayed>>

(* lzma_outq_init: the queue's buffers join the cache (all of one size     *)
(* here), the counter of what is in use follows.                           *)
RequeuedAll ==
  [outq EXCEPT !.cache = @ \o [i \in DOMAIN outq.active |-> BufSize],
               !.active = <<>>, !.read_pos = 0, !.mem_in_use = 0]

(* threads_stop's second half waits until every thread is idle; then       *)
(* everything but the threads and the list of free ones starts afresh.     *)
(* A thread is idle as soon as it says so under its own mutex, although it *)
(* has yet to report under coder->mutex.                                   *)
AllIdle  == \A w \in Worker : ws[w].state = "IDLE"
StillDue == \E w \in Worker : wl[w].pc = "report"

Restart ==
  /\ pc = "settle" /\ AllIdle
  /\ pc' = "app" /\ pending' = "RUN" /\ ret' = "OK"
  /\ call' = [action |-> "RUN", avail |-> 0, space |-> 0]
  /\ sequence' = "STREAM_HEADER" /\ thr' = None /\ filters' = 1 /\ filters_cache' = None
  /\ index' = <<>> /\ outq' = RequeuedAll
  /\ thread_error' = "OK" /\ progress_in' = 0
  /\ accepted' = 0 /\ cuts' = <<>> /\ chain_of' = <<>>
  /\ unsettled' = (unsettled \/ StillDue)
  /\ UNCHANGED <<setup, threads_initialized, threads_free, ws, wl, inits, strayed>>

(* stream_encoder_mt_end: threads_end tells every thread to exit, joins    *)
(* them, and everything is freed. A second initialisation that fails after *)
(* threads_stop frees the coder before it returns (lzma_next_strm_init):   *)
(* Restart, and End with no call in between.                               *)
End ==
  /\ pc = "app"
  /\ ws' = AllTold("EXIT")
  /\ pc' = "join"
  /\ UNCHANGED <<setup, app, coder, shared, wl, hist>>

Join ==
  /\ pc = "join"
  /\ \A w \in 1 .. threads_initialized : wl[w].pc = "exited"
  /\ pc' = "ended"
  /\ outq' = Empty
  /\ UNCHANGED <<setup, app, coder, threads_free, thread_error, progress_in, ws, wl, hist>>

AppThread ==
  \/ CopyFixed \/ ReadOutput \/ GetThread \/ AssignThread \/ FeedThread \/ BlockError
  \/ FedAll \/ Decide \/ Wait \/ TimeOut \/ Restart \/ Join

-----------------------------------------------------------------------------
(* A worker's thread: worker_start and worker_encode.                      *)

(* worker_start, under thr->mutex: settle a stop, wait, take the command.  *)
(* A thread that is stopped before it took its command has been taken off  *)
(* the free list and does not put itself back.                             *)
TakeCommand(w) ==
  /\ wl[w].pc = "idle"
  /\ \/ /\ ws[w].state = "STOP"
        /\ ws' = [ws EXCEPT ![w].state = "IDLE"]
        /\ strayed' = IF w \in ToSet(threads_free) THEN strayed ELSE strayed \cup {w}
        /\ UNCHANGED wl
     \/ /\ ws[w].state = "EXIT"
        /\ wl' = [wl EXCEPT ![w].pc = "exited"]
        /\ UNCHANGED <<ws, strayed>>
     \/ /\ ws[w].state \in {"RUN", "FINISH"}
        /\ wl' = [wl EXCEPT ![w] = [IdleThread EXCEPT !.pc = "run", !.state = ws[w].state]]
        /\ UNCHANGED <<ws, strayed>>
  /\ UNCHANGED <<setup, pc, app, coder, shared, inits, accepted, cuts, chain_of, unsettled>>

(* The local state worker_encode returns; FINISH stands for a whole Block. *)
Leave(w, state) ==
  [wl EXCEPT ![w].pc = IF state = "EXIT" THEN "exited" ELSE "release", ![w].state = state]

(* The last of a complete Block is encoded with LZMA_FINISH.               *)
LastChunk(w, n) == ws[w].state = "FINISH" /\ Len(wl[w].content) + n = Len(ws[w].in)

(* worker_encode's loop: publish progress, wait for input and take state   *)
(* and size, under thr->mutex; then encode a chunk. The encoder (or its    *)
(* initialisation, or the header) may fail, or run out of output buffer.   *)
EncodeChunk(w) ==
  LET done == Len(wl[w].content)
      left == Len(ws[w].in) - done
      n    == SmallerOf(left, ChunkMax)
  IN /\ wl[w].pc = "run"
     /\ ~(ws[w].state = "RUN" /\ left = 0)
     /\ ws' = [ws EXCEPT ![w].progress_in = done]
     /\ \/ /\ ws[w].state \in {"STOP", "EXIT"}
           /\ wl' = Leave(w, ws[w].state)
        \/ /\ ws[w].state \in {"RUN", "FINISH"}
           /\ \E size \in OutSizes :
                wl' = [wl EXCEPT ![w].content = @ \o SubSeq(ws[w].in, done + 1, done + n),
                         ![w].pc = IF LastChunk(w, n) THEN "release" ELSE "run",
                         ![w].size = IF LastChunk(w, n) THEN size ELSE 0,
                         ![w].state = IF LastChunk(w, n) THEN "FINISH" ELSE "RUN"]
        \/ /\ ws[w].state \in {"RUN", "FINISH"} /\ "encoder" \in setup.failures
           /\ wl' = [wl EXCEPT ![w].pc = "fail"]
        \/ /\ ws[w].state \in {"RUN", "FINISH"} /\ setup.incompressible
           /\ wl' = [wl EXCEPT ![w].pc = "full"]
     /\ UNCHANGED <<setup, pc, app, coder, shared, hist>>

(* The buffer is full: wait until the whole Block is known and store it    *)
(* uncompressed, which may fail (block_uncomp_encode).                     *)
StoreEarly(w) == TRUE
BlockKnown(w) == ws[w].state # "RUN"

StoreBlock(w) ==
  /\ wl[w].pc = "full" /\ BlockKnown(w)
  /\ \/ /\ ws[w].state \in {"STOP", "EXIT"}
        /\ wl' = Leave(w, ws[w].state)
     \/ /\ ws[w].state \notin {"STOP", "EXIT"}
        /\ wl' = [Leave(w, "FINISH") EXCEPT ![w].content = ws[w].in, ![w].size = BufSize]
     \/ /\ ws[w].state = "FINISH" /\ "encoder" \in setup.failures
        /\ wl' = [wl EXCEPT ![w].pc = "fail"]
  /\ UNCHANGED <<setup, pc, app, coder, shared, ws, hist>>

(* worker_error, under coder->mutex: the first error is kept.              *)
WorkerError(w) ==
  /\ wl[w].pc = "fail"
  /\ thread_error' = IF thread_error = "OK" THEN "ERROR" ELSE thread_error
  /\ wl' = Leave(w, "STOP")
  /\ pc' = Signalled
  /\ UNCHANGED <<setup, app, coder, outq, threads_free, progress_in, ws, hist>>

(* worker_start, under thr->mutex: idle again, unless told to exit.        *)
IdleUnlessExit(state) == IF state = "EXIT" THEN "EXIT" ELSE "IDLE"

Release(w) ==
  /\ wl[w].pc = "release"
  /\ ws' = [ws EXCEPT ![w].state = IdleUnlessExit(@)]
  /\ wl' = [wl EXCEPT ![w].pc = "report"]
  /\ UNCHANGED <<setup, pc, app, coder, shared, hist>>

WholeBlock(w) == wl[w].state = "FINISH"

(* The queue with the buffer at place i finished by w.                     *)
FinishedAt(i, w) ==
  [outq EXCEPT !.active[i].pos = wl[w].size, !.active[i].finished = TRUE,
               !.active[i].ret = <<wl[w].content, ws[w].filters>>]

(* worker_start, under coder->mutex: a whole Block is finished, its size   *)
(* moves from the thread's progress to the total, the thread is free. The  *)
(* buffer of a thread that Restart did not wait for is in the cache by     *)
(* now, or serves another job: it may be any that is queued.               *)
Places(w) ==
  IF ws[w].outbuf[1] = inits
  THEN {i \in DOMAIN outq.active : outq.active[i].job = ws[w].outbuf}
  ELSE DOMAIN outq.active

Late(w) == ws[w].outbuf[1] # inits

FinishedIfWhole(w) ==
  IF WholeBlock(w)
  THEN {FinishedAt(i, w) : i \in Places(w)} \cup (IF Late(w) THEN {outq} ELSE {})
  ELSE {outq}

NotFreeAfterStop(w) == IF WholeBlock(w) THEN <<w>> \o threads_free ELSE threads_free
FreeAgain(w) == <<w>> \o threads_free

(* The size of a finished Block, added to the total.                       *)
AccountedLater(w) == progress_in
Accounted(w) == progress_in + (IF WholeBlock(w) THEN Len(wl[w].content) ELSE 0)

Report(w) ==
  /\ wl[w].pc = "report"
  /\ outq' \in FinishedIfWhole(w)
  /\ progress_in' = Accounted(w)
  /\ ws' = [ws EXCEPT ![w].progress_in = 0]
  /\ threads_free' = FreeAgain(w)
  /\ wl' = [wl EXCEPT ![w] = IdleThread]
  /\ pc' = Signalled
  /\ UNCHANGED <<setup, app, coder, thread_error, hist>>

WorkerThread(w) ==
  \/ TakeCommand(w) \/ EncodeChunk(w) \/ StoreBlock(w) \/ WorkerError(w)
  \/ Release(w) \/ Report(w)

-----------------------------------------------------------------------------
Next ==
  \/ Call \/ UpdateFilters \/ Reinit \/ End
  \/ AppThread
  \/ \E w \in Worker : WorkerThread(w)

Spec == Init /\ [][Next]_vars

(* Every thread is scheduled, and the application keeps calling once it    *)
(* has started a flush, with output space again and again.                 *)
Fairness ==
  /\ WF_vars(AppThread)
  /\ WF_vars(pending # "RUN" /\ Call)
  /\ SF_vars(pending # "RUN" /\ Call /\ call'.space > 0)
  /\ \A w \in Worker : WF_vars(WorkerThread(w))

FairSpec == Spec /\ Fairness

-----------------------------------------------------------------------------

Promise == INSTANCE OrderedBlocks WITH
  accepted <- accepted,
  cuts     <- cuts,
  output   <- [b \in DOMAIN index |-> index[b][1]],
  finished <- pending = "End"

(* The Blocks come out complete, in order and once each, whatever order    *)
(* the threads finish in, and also after the coder was initialised again   *)
(* while threads were still at work on the old Stream: every step is one   *)
(* of OrderedBlocks, or starts a new Stream. (Up to unsettled.)            *)
ImplementsOrderedBlocks ==
  /\ Promise!Init
  /\ [][unsettled' \/ Promise!Next \/ (Restart /\ (Promise!Init)')]_(Promise!vars)

(* Every thread is on the free list once, or it has a command, a job or a  *)
(* report to make: none is lost, none is offered twice or while it works.  *)
(* (get_thread, worker_start, threads_stop.)                               *)
AtWork(w) == wl[w].pc # "idle" \/ ws[w].state \in {"RUN", "FINISH"}

ThreadsAccounted ==
  pc \notin {"join", "ended", "assign"} =>
    /\ IsInjective(threads_free)
    /\ \A w \in 1 .. threads_initialized :
         (ws[w].state # "STOP" /\ w \notin strayed) => (w \in ToSet(threads_free)) = ~AtWork(w)

(* A Block is encoded with the filters in force when its input was taken,  *)
(* also when the filters were copied for a thread that could not be had,   *)
(* and then replaced (get_thread, stream_encoder_mt_update).               *)
FiltersPerBlock ==
  ~unsettled => \A b \in DOMAIN index : \A u \in ToSet(index[b][1]) :
                  index[b][2] = chain_of[u]

(* get_progress: the finished Blocks and what each thread says of its own. *)
ProgressOf(threads) == FoldFunction(LAMBDA t, sum : t.progress_in + sum, 0, threads)
WorkerProgress == ProgressOf(ws)
Progress == progress_in + WorkerProgress

(* Progress never goes back when a Block moves from its thread to the      *)
(* total, and never exceeds the input taken. A Stream that failed or is    *)
(* given up withdraws what its threads had.                                *)
ProgressAdvances ==
  [][(thread_error' = "OK" /\ inits = inits' /\ pc' # "settle" /\ pending' # "Error"
        /\ ~unsettled') =>
       (Progress' >= Progress \/ Restart) /\ Progress' <= accepted']_vars

(* A thread was lost, or not waited for, by threads_stop: what follows is  *)
(* stated up to that (see unsettled and strayed).                          *)
Derailed == unsettled \/ strayed # {}

(* LZMA_FINISH: "Call lzma_code() with LZMA_FINISH until it returns        *)
(* LZMA_STREAM_END" (base.h): doing so ends in STREAM_END or in an error.  *)
FinishCompletes ==
  (pending = "FINISH") ~>
     (pending \in {"End", "Error"} \/ pc \in {"settle", "ended"} \/ Derailed)

=============================================================================
