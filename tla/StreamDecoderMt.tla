--------------------------- MODULE StreamDecoderMt ---------------------------
(***************************************************************************)
(* The threaded .xz decoder of the C library,                              *)
(* src/original/src/liblzma/common/stream_decoder_mt.c, over its output    *)
(* queue (outqueue.c). DecoderMt models the Rust port of the same coder.   *)
(* Here the decoding is incremental, threads are created on demand, their  *)
(* filters stay allocated when they are free, and a worker's input buffer  *)
(* belongs to it and to the application's thread at once.                  *)
(*                                                                         *)
(* An action is what one thread does under one mutex, or between two of    *)
(* them on data of its own. Stream header, Block header, Index, Stream     *)
(* footer and a byte of Stream Padding are one unit of input each; a Block *)
(* has in units of input (padding and check included) and out of output.   *)
(***************************************************************************)
EXTENDS OutQueue

CONSTANTS
  MemlimitThreading,  (* memlimit_threading                                *)
  MemlimitStop,       (* memlimit_stop, as initialised                     *)
  ChunkMax,           (* chunk_size: units decoded at a time               *)
  Setups              (* files, flags and ways to use the decoder          *)

Worker == 1 .. Threads
None   == 0

(* What may be wrong: the header of the Stream that begins with the Block, *)
(* the Block's header, sizes no Index can hold (lzma_index_hash_append),   *)
(* its data, or, behind its data, the Index, the footer or the padding of  *)
(* the Stream it ends. DATA_ERROR stands for every answer to what is wrong *)
(* with a file, FORMAT_ERROR and OPTIONS_ERROR among them.                 *)
Flaws == {"stream", "header", "record", "data", "index", "footer", "padding"}

BlockRecord == [in : Nat \ {0}, out : Nat, filters : Nat, known : BOOLEAN, last : BOOLEAN,
                flaw : {"none"} \cup Flaws]

(* A setup: the file, flags, what may fail ("alloc"), the input added in a *)
(* call, the space offered, whether the application may announce the end   *)
(* of its input early, and the memory limits it may set later. A file is   *)
(* what the decoder may look at: with no LZMA_CONCATENATED that ends with  *)
(* the first Stream, whatever follows it (stream_decode_mt).               *)
SetupRecord ==
  [file : Seq(BlockRecord), fail_fast : BOOLEAN, tell : BOOLEAN, concatenated : BOOLEAN,
   timeout : BOOLEAN, alloc_fails : BOOLEAN, offers : SUBSET Nat, spaces : SUBSET Nat,
   truncates : BOOLEAN, stop_limits : SUBSET Nat]

ASSUME StreamDecoderAssumption ==
  /\ MemlimitThreading \in Nat /\ MemlimitStop \in Nat /\ MemlimitThreading <= MemlimitStop
  /\ ChunkMax \in Nat \ {0}
  /\ \A s \in Setups :
       /\ s \in SetupRecord /\ s.file # <<>> /\ s.file[Len(s.file)].last
       /\ \A b \in DOMAIN s.file :
            /\ s.file[b].flaw \in {"index", "footer", "padding"} => s.file[b].last
            /\ s.file[b].flaw = "padding" => s.concatenated
            /\ s.file[b].flaw = "stream" /\ b > 1 => s.file[b - 1].last
       /\ \A b \in 1 .. Len(s.file) - 1 : s.file[b].last => s.concatenated

VARIABLES
  setup,            (* one of Setups                                       *)
  (* The application and lzma_code.                                        *)
  pc,               (* where the application's thread is                   *)
  action, avail, space, pending, ret,
  moved,            (* this call consumed or produced something            *)
  stuck,            (* allow_buf_error                                     *)
  (* lzma_stream_coder, touched by the application's thread only.          *)
  sequence, pending_error, thr, threads_initialized, out_was_filled, memlimit_stop,
  block,            (* the Block whose header was decoded last             *)
  direct,           (* coder->block_decoder and mem_direct_mode            *)
  (* Locals of the call in progress.                                       *)
  waiting_allowed, can_start, wrote,
  seen_free,        (* mem_in_use, mem_cached and threads_free as last seen*)
  (* lzma_stream_coder, under coder->mutex.                                *)
  outq, threads_free, thread_error, mem_in_use, mem_cached,
  (* worker_thread: shared fields, and those only the thread itself uses.  *)
  ws, wl,
  (* History.                                                              *)
  eaten,            (* input units consumed in all                         *)
  output,           (* output units delivered                              *)
  gave_up,          (* FINISH was used before the end of the file          *)
  overtaken         (* get_thread took a thread freed after it was planned *)

call   == <<action, pending, ret, stuck>>
kept   == <<thr, threads_initialized, memlimit_stop, block, direct>>
coder  == <<sequence, pending_error, out_was_filled, kept>>
locals == <<waiting_allowed, can_start, wrote, seen_free>>
shared == <<outq, threads_free, thread_error, mem_in_use, mem_cached>>
flow   == <<avail, space, moved, eaten, output>>
hist   == <<setup, gave_up, overtaken>>
vars   == <<pc, call, coder, locals, shared, flow, ws, wl, hist>>

FreshDecoder == [in |-> 0, out |-> 0]
NoDirect == [in |-> 0, out |-> 0, mem |-> 0]
IdleWorker == [state |-> "IDLE", in_filled |-> 0, job |-> None, alive |-> FALSE,
               partial |-> "DISABLED", mem_filters |-> 0]
IdleThread == [pc |-> "idle", d |-> FreshDecoder, seen |-> 0, partial |-> "DISABLED", ret |-> "OK"]
NothingSeen == [total |-> 0, free |-> <<>>]

Init ==
  /\ setup \in Setups
  /\ pc = "app" /\ action = "RUN" /\ avail = 0 /\ space = 0
  /\ pending = "RUN" /\ ret = "OK" /\ moved = FALSE /\ stuck = FALSE
  /\ sequence = "STREAM_HEADER" /\ pending_error = "OK" /\ thr = None
  /\ threads_initialized = 0 /\ out_was_filled = FALSE /\ memlimit_stop = MemlimitStop
  /\ block = 0 /\ direct = NoDirect
  /\ waiting_allowed = FALSE /\ can_start = FALSE /\ wrote = FALSE /\ seen_free = NothingSeen
  /\ outq = Empty /\ threads_free = <<>> /\ thread_error = "OK"
  /\ mem_in_use = 0 /\ mem_cached = 0
  /\ ws = [w \in Worker |-> IdleWorker]
  /\ wl = [w \in Worker |-> IdleThread]
  /\ eaten = 0 /\ output = <<>> /\ gave_up = FALSE /\ overtaken = FALSE

-----------------------------------------------------------------------------
(* The file.                                                               *)

File   == setup.file
Tail3(r) == IF r.last THEN (IF r.flaw = "padding" THEN 5 ELSE 3) ELSE 0
TakenBy(blocks) == FoldSeq(LAMBDA r, sum : sum + 1 + r.in + Tail3(r), 1, blocks)
Before(b) == TakenBy(SubSeq(File, 1, b - 1))
FileSize == Before(Len(File) + 1) - 1
Rest   == FileSize - eaten
AtIndex == block > 0 /\ File[block].last /\ eaten < Before(block + 1)
AtZero == File[block].flaw = "padding" /\ eaten < Before(block + 1) - 1

(* is_direct_mode_needed, comp_blk_size, and what the next Block takes.    *)
NextIn    == File[block].in + File[block].filters
NextBlock == NextIn + Usage(File[block].out)
TooBig    == File[block].filters > memlimit_stop
Threaded  == File[block].known /\ NextBlock <= MemlimitThreading

(* The Block decoder: what can be decoded from the first i units of input. *)
Decoded(r, i) == (r.out * i) \div r.in

(* It takes up to a units of input and gives out up to s of output; input  *)
(* beyond what fills the output waits. A flaw shows at the check or before.*)
Coded(r, d, a, s) ==
  LET most  == SmallerOf(r.in, d.in + a)
      over  == {j \in d.in .. most : Decoded(r, j) > d.out + s}
      i     == IF over = {} THEN most ELSE CHOOSE j \in over : \A k \in over : j <= k
      e     == [in |-> i, out |-> SmallerOf(Decoded(r, i), d.out + s)]
      whole == e = [in |-> r.in, out |-> r.out]
      rets  == CASE r.flaw # "data"       -> {IF whole THEN "STREAM_END" ELSE "OK"}
                 [] r.flaw = "data" /\ whole -> {"DATA_ERROR"}
                 [] OTHER                 -> IF i = 0 THEN {"OK"} ELSE {"OK", "DATA_ERROR"}
  IN {[d |-> e, ret |-> x] : x \in rets}

-----------------------------------------------------------------------------
(* lzma_code around the decoder.                                           *)

Call ==
  /\ pc = "app" /\ pending \in {"RUN", "FINISH"}
  /\ \/ /\ pending = "RUN" /\ action' = "RUN"
        /\ \E more \in setup.offers : avail' = avail + more /\ avail' <= Rest
        /\ UNCHANGED gave_up
     \/ /\ pending = "RUN" /\ action' = "FINISH"
        /\ avail' \in {Rest} \cup (IF setup.truncates THEN {avail} ELSE {})
        /\ gave_up' = (gave_up \/ avail' < Rest)
     \/ /\ pending = "FINISH" /\ action' = "FINISH"
        /\ UNCHANGED <<avail, gave_up>>
  /\ pending' = action'
  /\ space' \in setup.spaces
  /\ moved' = FALSE
  /\ waiting_allowed' = (action' = "FINISH" \/ (avail' = 0 /\ ~out_was_filled))
  /\ out_was_filled' = FALSE
  /\ pc' = "code"
  /\ UNCHANGED <<ret, stuck, sequence, pending_error, kept, can_start, wrote, seen_free,
                 shared, eaten, output, ws, wl, setup, overtaken>>

(* The second idle OK in a row becomes BUF_ERROR, a time-out becomes OK.   *)
Returned(r) ==
  CASE r = "TIMED_OUT"              -> "OK"
    [] r = "OK" /\ ~moved' /\ stuck -> "BUF_ERROR"
    [] OTHER                        -> r

Return(r) ==
  /\ pc' = "app"
  /\ ret' = Returned(r)
  /\ stuck' = (r = "OK" /\ ~moved')
  /\ pending' = CASE r \in {"OK", "TIMED_OUT", "GET_CHECK", "MEMLIMIT_ERROR"} -> pending
                  [] r = "STREAM_END" -> "End"
                  [] OTHER            -> "Error"
  /\ UNCHANGED action

GoTo(p) == pc' = p /\ UNCHANGED call

Consume(n) ==
  /\ avail' = avail - n /\ eaten' = eaten + n /\ moved' = (moved \/ n > 0)
  /\ UNCHANGED <<space, output>>

(* threads_stop and threads_end tell every thread under its own mutex. The *)
(* threads do not look at each other: one step loses no behaviour.         *)
Told(state) ==
  [w \in Worker |-> IF w <= threads_initialized THEN [ws[w] EXCEPT !.state = state] ELSE ws[w]]
StopAndFail(r) == ws' = Told("IDLE") /\ Return(r)

(* Call read_output_and_wait.                                              *)
EnterWait ==
  /\ GoTo("read")
  /\ wrote' = FALSE /\ can_start' = FALSE
  /\ UNCHANGED <<waiting_allowed, seen_free>>

-----------------------------------------------------------------------------
(* stream_decode_mt, by sequence, up to read_output_and_wait.              *)

StreamHeader ==
  /\ pc = "code" /\ sequence = "STREAM_HEADER"
  /\ IF avail = 0
     THEN UNCHANGED <<flow, sequence>> /\ Return("OK")
     ELSE /\ Consume(1)
          /\ IF File[block + 1].flaw = "stream"
             THEN UNCHANGED sequence /\ Return("DATA_ERROR")
             ELSE /\ sequence' = "BLOCK_HEADER"
                  /\ IF setup.tell THEN Return("GET_CHECK") ELSE GoTo("code")
  /\ UNCHANGED <<pending_error, kept, out_was_filled, locals, shared, ws, wl, hist>>

CutOff == setup.fail_fast /\ action = "FINISH"

BlockHeader ==
  /\ pc = "code" /\ sequence = "BLOCK_HEADER"
  /\ \/ /\ avail = 0 /\ CutOff
        /\ UNCHANGED <<flow, sequence, pending_error, block, locals>> /\ StopAndFail("DATA_ERROR")
     \/ /\ avail = 0 /\ ~CutOff
        /\ EnterWait /\ UNCHANGED <<flow, sequence, pending_error, block, ws>>
     \/ /\ avail > 0 /\ AtIndex
        /\ sequence' = "INDEX_WAIT_OUTPUT" /\ GoTo("code")
        /\ UNCHANGED <<flow, pending_error, block, locals, ws>>
     \/ /\ avail > 0 /\ ~AtIndex
        /\ Consume(1) /\ block' = block + 1 /\ GoTo("code")
        /\ IF File[block'].flaw = "header"
           THEN sequence' = "ERROR" /\ pending_error' = "DATA_ERROR"
           ELSE sequence' = "BLOCK_INIT" /\ UNCHANGED pending_error
        /\ UNCHANGED <<locals, ws>>
  /\ UNCHANGED <<thr, threads_initialized, memlimit_stop, direct, out_was_filled, shared, wl, hist>>

BlockInit ==
  /\ pc = "code" /\ sequence = "BLOCK_INIT"
  /\ IF TooBig
     THEN EnterWait /\ UNCHANGED <<sequence, pending_error, direct>>
     ELSE /\ IF Threaded /\ File[block].flaw = "record"
             THEN sequence' = "ERROR" /\ pending_error' = "DATA_ERROR"
             ELSE /\ sequence' = IF Threaded THEN "BLOCK_THR_INIT" ELSE "BLOCK_DIRECT_INIT"
                  /\ UNCHANGED pending_error
          /\ direct' = IF Threaded THEN NoDirect ELSE direct
          /\ GoTo("code") /\ UNCHANGED locals
  /\ UNCHANGED <<thr, threads_initialized, memlimit_stop, block, out_was_filled,
                 flow, shared, ws, wl, hist>>

(* Unless failing fast, what is in front of the error comes out first.     *)
ErrorDrainsFirst == ~setup.fail_fast

WaitFirst ==
  /\ pc = "code"
  /\ \/ sequence \in {"BLOCK_THR_INIT", "BLOCK_DIRECT_INIT", "INDEX_WAIT_OUTPUT"}
     \/ sequence = "ERROR" /\ ErrorDrainsFirst
  /\ EnterWait
  /\ UNCHANGED <<coder, flow, shared, ws, wl, hist>>

ErrorNow ==
  /\ pc = "code" /\ sequence = "ERROR" /\ ~ErrorDrainsFirst
  /\ UNCHANGED <<coder, locals, flow, shared, ws, wl, hist>>
  /\ Return(pending_error)

(* SEQ_BLOCK_THR_RUN: copy input into the thread's buffer and tell it.     *)
Wanted == File[block].in - ws[thr].in_filled

BlockThrRun ==
  /\ pc = "code" /\ sequence = "BLOCK_THR_RUN"
  /\ IF CutOff /\ avail < Wanted
     THEN UNCHANGED <<flow, locals>> /\ StopAndFail("DATA_ERROR")
     ELSE /\ ws' = [ws EXCEPT ![thr].in_filled = @ + SmallerOf(Wanted, avail)]
          /\ Consume(SmallerOf(Wanted, avail)) /\ EnterWait
  /\ UNCHANGED <<coder, shared, wl, hist>>

(* SEQ_BLOCK_DIRECT_RUN, and lzma_index_hash_append at the Block's end.    *)
Unrecorded == File[block].flaw = "record"

BlockDirectRun ==
  /\ pc = "code" /\ sequence = "BLOCK_DIRECT_RUN"
  /\ \E r \in Coded(File[block], direct, avail, space) :
       LET used == r.d.in - direct.in
           made == r.d.out - direct.out
       IN /\ direct' = [direct EXCEPT !.in = r.d.in, !.out = r.d.out]
          /\ avail' = avail - used /\ eaten' = eaten + used /\ space' = space - made
          /\ output' = output \o [i \in 1 .. made |-> <<block, direct.out + i>>]
          /\ moved' = (moved \/ used + made > 0)
          /\ \/ /\ r.ret = "STREAM_END" /\ ~Unrecorded
                /\ sequence' = "BLOCK_HEADER" /\ GoTo("code")
             \/ /\ r.ret = "STREAM_END" /\ Unrecorded
                /\ Return("DATA_ERROR") /\ UNCHANGED sequence
             \/ /\ r.ret # "STREAM_END"
                /\ Return(r.ret) /\ UNCHANGED sequence
  /\ UNCHANGED <<pending_error, out_was_filled, thr, threads_initialized, memlimit_stop, block,
                 locals, shared, ws, wl, hist>>

IndexDecode ==
  /\ pc = "code" /\ sequence = "INDEX_DECODE"
  /\ IF avail = 0 THEN UNCHANGED <<flow, sequence>> /\ Return("OK")
     ELSE /\ Consume(1)
          /\ IF File[block].flaw = "index" THEN UNCHANGED sequence /\ Return("DATA_ERROR")
             ELSE sequence' = "STREAM_FOOTER" /\ GoTo("code")
  /\ UNCHANGED <<pending_error, kept, out_was_filled, locals, shared, ws, wl, hist>>

StreamFooter ==
  /\ pc = "code" /\ sequence = "STREAM_FOOTER"
  /\ IF avail = 0 THEN UNCHANGED <<flow, sequence>> /\ Return("OK")
     ELSE /\ Consume(1)
          /\ \/ /\ File[block].flaw = "footer"
                /\ UNCHANGED sequence /\ Return("DATA_ERROR")
             \/ /\ File[block].flaw # "footer" /\ ~setup.concatenated
                /\ UNCHANGED sequence /\ Return("STREAM_END")
             \/ /\ File[block].flaw # "footer" /\ setup.concatenated
                /\ sequence' = "STREAM_PADDING" /\ GoTo("code")
  /\ UNCHANGED <<pending_error, kept, out_was_filled, locals, shared, ws, wl, hist>>

(* SEQ_STREAM_PADDING: a Stream may follow a multiple of four zeros; the   *)
(* end of the input ends the file. A file's flawed padding is two zeros.   *)
PaddingPos == IF File[block].flaw = "padding" THEN 2 - (Before(block + 1) - 1 - eaten) ELSE 0

StreamPadding ==
  /\ pc = "code" /\ sequence = "STREAM_PADDING"
  /\ \/ /\ avail = 0 /\ action # "FINISH"
        /\ UNCHANGED <<flow, sequence>> /\ Return("OK")
     \/ /\ avail = 0 /\ action = "FINISH"
        /\ UNCHANGED <<flow, sequence>>
        /\ Return(IF PaddingPos = 0 THEN "STREAM_END" ELSE "DATA_ERROR")
     \/ /\ avail > 0 /\ AtZero
        /\ UNCHANGED sequence /\ Consume(1) /\ GoTo("code")
     \/ /\ avail > 0 /\ ~AtZero /\ PaddingPos # 0
        /\ UNCHANGED sequence /\ Consume(1) /\ Return("DATA_ERROR")
     \/ /\ avail > 0 /\ ~AtZero /\ PaddingPos = 0
        /\ UNCHANGED flow /\ sequence' = "STREAM_HEADER" /\ GoTo("code")
  /\ UNCHANGED <<pending_error, kept, out_was_filled, locals, shared, ws, wl, hist>>

Code ==
  \/ StreamHeader \/ BlockHeader \/ BlockInit \/ WaitFirst \/ ErrorNow \/ BlockThrRun
  \/ BlockDirectRun \/ IndexDecode \/ StreamFooter \/ StreamPadding

-----------------------------------------------------------------------------
(* read_output_and_wait, under coder->mutex.                               *)

(* worker_enable_partial_update, for the Block now at the head.            *)
AskedForPartial(q) ==
  IF HeadWorker(q) = NoWorker THEN ws ELSE [ws EXCEPT ![HeadWorker(q)].partial = "START"]

(* May the next Block start: memory, a place in the queue and a thread.    *)
Room(q) == MemlimitThreading - mem_in_use - q.mem_in_use >= NextBlock
InputPossible(q) ==
  /\ sequence = "BLOCK_THR_INIT" /\ Room(q) /\ HasBuf(q)
  /\ threads_initialized < Threads \/ threads_free # <<>>

(* The thread that is fed has decoded all its input into the queue's head, *)
(* as its last partial update says.                                        *)
InputNeverExhausted(q) == FALSE
InputExhausted(q) ==
  /\ thr # None /\ ws[thr].partial # "DISABLED"
  /\ Head(q.active).in_pos = ws[thr].in_filled

MayWait == sequence \in {"BLOCK_HEADER", "BLOCK_THR_RUN"} => waiting_allowed

KeepsWaiting(q) ==
  /\ ~InputPossible(q) /\ MayWait /\ ~IsEmpty(q) /\ ~IsReadable(q) /\ ~InputExhausted(q)

(* A thread's error ends the call only with LZMA_FAIL_FAST.                *)
ThreadErrorEndsCall == thread_error # "OK"
FailFastError == thread_error # "OK" /\ setup.fail_fast

(* Read; when that drained a Block, enable partial output of the next and  *)
(* read again ("reread": the mutex is held all the time). Then an error of *)
(* a thread, and what to wait for.                                         *)
ReadQueue ==
  /\ pc \in {"read", "reread"}
  /\ \E n \in {Available(outq, space)}, r \in {ReadRet(outq, space)}, q \in {Read(outq, space)} :
       /\ space' = space - n
       /\ output' = output \o Copied(outq, space)
       /\ moved' = (moved \/ n > 0)
       /\ wrote' = ((pc = "reread" /\ wrote) \/ n > 0)
       /\ out_was_filled' = (out_was_filled \/ (r = "OK" /\ space' = 0 /\ wrote'))
       /\ \/ /\ r = "STREAM_END"
             /\ outq' = TakeHeadWorker(q) /\ ws' = AskedForPartial(q)
             /\ GoTo("reread") /\ UNCHANGED <<pending_error, can_start>>
          \/ /\ r \notin {"OK", "STREAM_END"}
             /\ outq' = q /\ StopAndFail(r) /\ UNCHANGED <<pending_error, can_start>>
          \/ /\ r = "OK" /\ FailFastError
             /\ outq' = q /\ StopAndFail(thread_error) /\ UNCHANGED <<pending_error, can_start>>
          \/ /\ r = "OK" /\ ~FailFastError
             /\ outq' = q
             /\ pending_error' = IF thread_error # "OK" THEN "PROG_ERROR" ELSE pending_error
             /\ can_start' = InputPossible(q)
             /\ GoTo(IF KeepsWaiting(q) THEN "sleep" ELSE "after") /\ UNCHANGED ws
  /\ UNCHANGED <<sequence, kept, waiting_allowed, seen_free, threads_free, thread_error,
                 mem_in_use, mem_cached, avail, eaten, wl, hist>>

(* mythread_cond_signal(&coder->cond), with coder->mutex held.             *)
SignalNobody == pc
Signalled == IF pc = "sleep" THEN "read" ELSE pc

TimeOut ==
  /\ pc = "sleep" /\ setup.timeout
  /\ UNCHANGED <<coder, locals, flow, shared, ws, wl, hist>>
  /\ Return("TIMED_OUT")

(* What stream_decode_mt does when read_output_and_wait returns LZMA_OK.   *)
AfterWait ==
  /\ pc = "after"
  /\ \/ /\ sequence \in {"BLOCK_HEADER", "BLOCK_THR_RUN", "BLOCK_THR_INIT"} /\ pending_error # "OK"
        /\ sequence' = "ERROR" /\ GoTo("code") /\ UNCHANGED thr
     \/ /\ sequence = "BLOCK_HEADER" /\ pending_error = "OK"
        /\ UNCHANGED <<flow, sequence, thr>> /\ Return("OK")
     \/ /\ sequence = "BLOCK_THR_RUN" /\ pending_error = "OK"
        /\ IF Wanted > 0 THEN UNCHANGED <<flow, sequence, thr>> /\ Return("OK")
           ELSE thr' = None /\ sequence' = "BLOCK_HEADER" /\ GoTo("code")
     \/ /\ sequence = "BLOCK_THR_INIT" /\ pending_error = "OK"
        /\ UNCHANGED <<flow, sequence, thr>>
        /\ IF can_start THEN GoTo("plan") ELSE Return("OK")
     \/ /\ sequence \notin {"BLOCK_HEADER", "BLOCK_THR_RUN", "BLOCK_THR_INIT"} /\ ~IsEmpty(outq)
        /\ UNCHANGED <<flow, sequence, thr>> /\ Return("OK")
     \/ /\ sequence = "BLOCK_INIT" /\ IsEmpty(outq)
        /\ UNCHANGED <<flow, sequence, thr>> /\ Return("MEMLIMIT_ERROR")
     \/ /\ sequence = "BLOCK_DIRECT_INIT" /\ IsEmpty(outq)
        /\ GoTo("direct") /\ UNCHANGED <<sequence, thr>>
     \/ /\ sequence = "INDEX_WAIT_OUTPUT" /\ IsEmpty(outq)
        /\ sequence' = "INDEX_DECODE" /\ GoTo("code") /\ UNCHANGED thr
     \/ /\ sequence = "ERROR" /\ IsEmpty(outq)
        /\ UNCHANGED <<flow, sequence, thr>> /\ Return(pending_error)
  /\ UNCHANGED <<pending_error, out_was_filled, threads_initialized, memlimit_stop, block, direct,
                 flow, locals, shared, ws, wl, hist>>

-----------------------------------------------------------------------------
(* SEQ_BLOCK_THR_INIT: room is made for the next Block in three steps.     *)

MemMax == MemlimitThreading - NextBlock

(* Look at the counters and at the free threads.                           *)
PlanRoom ==
  /\ pc = "plan"
  /\ seen_free' = [total |-> mem_in_use + mem_cached, free |-> threads_free]
  /\ GoTo("free")
  /\ UNCHANGED <<coder, waiting_allowed, can_start, wrote, shared, flow, ws, wl, hist>>

(* Which free threads give up their filters: all, but the one that will be *)
(* taken first if its filters do not take more than the next Block's.      *)
FreedNone(free) == {}
Freed(free) ==
  IF ws[Head(free)].mem_filters <= File[block].filters THEN ToSet(Tail(free)) ELSE ToSet(free)

FiltersOf(threads) == FoldSet(LAMBDA w, sum : sum + ws[w].mem_filters, 0, threads)

(* Without the mutex: clear the queue's cache, except one buffer of the    *)
(* right size, and free filters, as far as the limit requires; then charge *)
(* the Block, under the mutex.                                             *)
MakeRoom ==
  LET q      == IF seen_free.total + outq.mem_allocated > MemMax
                THEN ClearCacheKeep(outq, File[block].out) ELSE outq
      freed  == IF seen_free.free # <<>> /\ seen_free.total + outq.mem_in_use > MemMax
                THEN Freed(seen_free.free) ELSE {}
  IN /\ pc = "free"
     /\ outq' = q
     /\ ws' = [w \in Worker |-> IF w \in freed THEN [ws[w] EXCEPT !.mem_filters = 0] ELSE ws[w]]
     /\ mem_cached' = mem_cached - FiltersOf(freed)
     /\ mem_in_use' = mem_in_use + NextIn
     /\ GoTo("get")
     /\ UNCHANGED <<coder, locals, threads_free, thread_error, flow, wl, hist>>

(* lzma_outq_prealloc_buf, get_thread (under the mutex), the input buffer  *)
(* and the output buffer; each allocation may fail, which stops all. That  *)
(* the Block decoder cannot be initialised (pending_error and SEQ_ERROR    *)
(* with a thread that was taken for nothing) is left out.                  *)
GetThread ==
  /\ pc = "get"
  /\ \/ /\ setup.alloc_fails
        /\ UNCHANGED <<outq, threads_free, mem_cached, thr, threads_initialized, flow, overtaken>>
        /\ StopAndFail("MEM_ERROR")
     \/ \E w \in {IF threads_free # <<>> THEN Head(threads_free) ELSE threads_initialized + 1} :
          /\ thr' = w
          /\ threads_free' = IF threads_free # <<>> THEN Tail(threads_free) ELSE threads_free
          /\ threads_initialized' = IF threads_free # <<>> THEN threads_initialized ELSE w
          /\ mem_cached' = mem_cached - (IF threads_free # <<>> THEN ws[w].mem_filters ELSE 0)
          /\ ws' = [ws EXCEPT ![w] = [IdleWorker EXCEPT !.job = block, !.alive = TRUE,
                                        !.mem_filters = File[block].filters]]
          /\ outq' = GetBuf(PreallocBuf(outq, File[block].out), block, w)
          /\ overtaken' = (overtaken \/ threads_free # seen_free.free)
          /\ GoTo("start")
  /\ UNCHANGED <<sequence, pending_error, out_was_filled, memlimit_stop, block, direct, locals,
                 thread_error, mem_in_use, flow, wl, setup, gave_up>>

(* Start the thread, under its mutex.                                      *)
StartThread ==
  /\ pc = "start"
  /\ ws' = [ws EXCEPT ![thr].state = "RUN"]
  /\ GoTo("partial")
  /\ UNCHANGED <<coder, locals, shared, flow, wl, hist>>

(* If its buffer is the queue's head it is asked for output from the start.*)
EnablePartial ==
  /\ pc = "partial"
  /\ outq' = TakeHeadWorker(outq) /\ ws' = AskedForPartial(outq)
  /\ sequence' = "BLOCK_THR_RUN" /\ GoTo("code")
  /\ seen_free' = NothingSeen
  /\ UNCHANGED <<pending_error, out_was_filled, kept, waiting_allowed, can_start, wrote,
                 threads_free, thread_error, mem_in_use, mem_cached, flow, wl, hist>>

(* SEQ_BLOCK_DIRECT_INIT: the queue's cache and the threads go first.      *)
GoDirect ==
  /\ pc = "direct"
  /\ outq' = ClearCache(outq) /\ ws' = Told("EXIT")
  /\ GoTo("joindirect")
  /\ UNCHANGED <<coder, locals, threads_free, thread_error, mem_in_use, mem_cached, flow, wl, hist>>

AllExited == \A w \in 1 .. threads_initialized : wl[w].pc = "exited"

JoinDirect ==
  /\ pc = "joindirect" /\ AllExited
  /\ threads_initialized' = 0 /\ threads_free' = <<>> /\ mem_in_use' = 0 /\ mem_cached' = 0
  /\ ws' = [w \in Worker |-> IdleWorker] /\ wl' = [w \in Worker |-> IdleThread]
  /\ direct' = [NoDirect EXCEPT !.mem = File[block].filters]
  /\ \/ sequence' = "BLOCK_DIRECT_RUN" /\ GoTo("code")
     \/ setup.alloc_fails /\ UNCHANGED <<flow, sequence>> /\ Return("MEM_ERROR")
  /\ UNCHANGED <<pending_error, thr, out_was_filled, memlimit_stop, block, locals, outq,
                 thread_error, flow, hist>>

(* stream_decoder_mt_memconfig: the limit is not set below what is in use. *)
MemUsage == direct.mem + mem_in_use + mem_cached + outq.mem_allocated

SetMemlimit ==
  /\ pc = "app" /\ pending \in {"RUN", "FINISH"}
  /\ \E limit \in setup.stop_limits : limit >= MemUsage /\ memlimit_stop' = limit
  /\ UNCHANGED <<pc, call, sequence, pending_error, thr, threads_initialized, out_was_filled, block,
                 direct, locals, shared, flow, ws, wl, hist>>

(* stream_decoder_mt_end                                                   *)
End ==
  /\ pc = "app"
  /\ ws' = Told("EXIT") /\ GoTo("join")
  /\ UNCHANGED <<coder, locals, shared, flow, wl, hist>>

Join ==
  /\ pc = "join" /\ AllExited
  /\ outq' = Empty /\ GoTo("ended")
  /\ UNCHANGED <<coder, locals, threads_free, thread_error, mem_in_use, mem_cached, flow, ws, wl, hist>>

AppThread ==
  \/ Code \/ ReadQueue \/ TimeOut \/ AfterWait \/ PlanRoom \/ MakeRoom \/ GetThread
  \/ StartThread \/ EnablePartial \/ GoDirect \/ JoinDirect \/ Join

-----------------------------------------------------------------------------
(* A worker's thread: worker_decoder.                                      *)

MutexFree == pc # "reread"    (* coder->mutex *)

(* Under thr->mutex: exit, or wait for input or a request; take all input. *)
NothingToDo(w) == ws[w].in_filled = wl[w].d.in /\ ws[w].partial # "START"

Look(w) ==
  /\ wl[w].pc = "idle"
  /\ \/ /\ ws[w].state = "EXIT"
        /\ wl' = [wl EXCEPT ![w] = [IdleThread EXCEPT !.pc = "exited"]]
     \/ /\ ws[w].state = "RUN" /\ ~NothingToDo(w)
        /\ wl' = [wl EXCEPT ![w].pc = "decode", ![w].seen = ws[w].in_filled,
                            ![w].partial = ws[w].partial]
  /\ UNCHANGED <<pc, call, coder, locals, shared, flow, ws, hist>>

Decode(w) ==
  /\ wl[w].pc = "decode"
  /\ \E r \in Coded(File[ws[w].job], wl[w].d,
                    SmallerOf(wl[w].seen - wl[w].d.in, ChunkMax), File[ws[w].job].out) :
       wl' = [wl EXCEPT ![w].d = r.d, ![w].ret = r.ret, ![w].seen = 0, ![w].partial = "DISABLED",
                ![w].pc = IF r.ret # "OK" THEN "settle"
                          ELSE IF wl[w].partial # "DISABLED" THEN "publish" ELSE "idle"]
  /\ UNCHANGED <<pc, call, coder, locals, shared, flow, ws, hist>>

Place(job) == CHOOSE i \in DOMAIN outq.active : outq.active[i].job = job

(* A partial update, under coder->mutex.                                   *)
Publish(w) ==
  /\ wl[w].pc = "publish" /\ MutexFree
  /\ ws' = [ws EXCEPT ![w].partial = "ENABLED"]
  /\ outq' = [outq EXCEPT !.active[Place(ws[w].job)] =
                             [@ EXCEPT !.pos = wl[w].d.out, !.in_pos = wl[w].d.in]]
  /\ wl' = [wl EXCEPT ![w].pc = "idle", ![w].ret = "OK"]
  /\ pc' = Signalled
  /\ UNCHANGED <<call, coder, locals, threads_free, thread_error, mem_in_use, mem_cached, flow, hist>>

(* After the Block, or an error: idle, under thr->mutex; only the input of *)
(* a whole Block is freed, as the application still writes to another's.   *)
AliveNever(w) == FALSE
AliveAfter(w) == wl[w].ret # "STREAM_END"

StateAfterBlock(state) == IF state = "EXIT" THEN "EXIT" ELSE "IDLE"

Settle(w) ==
  /\ wl[w].pc = "settle"
  /\ ws' = [ws EXCEPT ![w].state = StateAfterBlock(@),
                      ![w].alive = AliveAfter(w)]
  /\ wl' = [wl EXCEPT ![w].pc = "report"]
  /\ UNCHANGED <<pc, call, coder, locals, shared, flow, hist>>

(* Finish the buffer, under coder->mutex. After a success the thread is    *)
(* free, and its filters are cached instead of in use.                     *)
Reports(w) == wl[w].ret = "STREAM_END"

Report(w) ==
  LET job  == ws[w].job
      done == [outq.active[Place(job)] EXCEPT !.finished = TRUE, !.ret = wl[w].ret,
                                               !.pos = wl[w].d.out, !.in_pos = wl[w].d.in]
  IN /\ wl[w].pc = "report" /\ MutexFree
     /\ outq' = [outq EXCEPT !.active[Place(job)] = done]
     /\ IF Reports(w)
        THEN /\ threads_free' = <<w>> \o threads_free
             /\ mem_in_use' = mem_in_use - File[job].in - ws[w].mem_filters
             /\ mem_cached' = mem_cached + ws[w].mem_filters
             /\ UNCHANGED thread_error
        ELSE /\ thread_error' = IF thread_error = "OK" THEN wl[w].ret ELSE thread_error
             /\ UNCHANGED <<threads_free, mem_in_use, mem_cached>>
     /\ wl' = [wl EXCEPT ![w] = IdleThread]
     /\ pc' = Signalled
     /\ UNCHANGED <<call, coder, locals, flow, ws, hist>>

WorkerThread(w) == Look(w) \/ Decode(w) \/ Publish(w) \/ Settle(w) \/ Report(w)

-----------------------------------------------------------------------------
Next ==
  \/ Call \/ SetMemlimit \/ End
  \/ AppThread
  \/ \E w \in Worker : WorkerThread(w)

Spec == Init /\ [][Next]_vars

(* Every thread is scheduled, also when it competes for coder->mutex, and  *)
(* an application that has announced the end of its input goes on calling  *)
(* with room for output.                                                   *)
Fairness ==
  /\ WF_vars(AppThread)
  /\ WF_vars(pending = "FINISH" /\ Call /\ space' > 0)
  /\ \A w \in Worker : WF_vars(WorkerThread(w)) /\ SF_vars(Publish(w)) /\ SF_vars(Report(w))

FairSpec == Spec /\ Fairness

-----------------------------------------------------------------------------

Promise == INSTANCE DecodedFile WITH
  file <- File, fail_fast <- setup.fail_fast,
  outcome <- IF pending = "End" THEN "End" ELSE IF pending = "Error" THEN ret ELSE "Open"

(* The threaded decoder delivers what the file holds, in order, once, as   *)
(* far as it is sound, partial output of the Block at the head included,   *)
(* and ends as the file deserves: it implements DecodedFile.               *)
ImplementsDecodedFile == Promise!Spec

(* The input buffer that the application's thread writes to is allocated,  *)
(* belongs to the Block at hand, and its thread is not offered for another *)
(* one, also when the thread has met an error in what it has got so far;   *)
(* when its partial output is asked for, its Block is the only one queued  *)
(* (SEQ_BLOCK_THR_RUN, worker_decoder, read_output_and_wait's assertions). *)
FedThreadIsLive ==
  (sequence = "BLOCK_THR_RUN" /\ pending \in {"RUN", "FINISH"} /\ pc \notin {"join", "ended"}) =>
    /\ Wanted > 0 => ws[thr].alive /\ ws[thr].job = block /\ thr \notin ToSet(threads_free)
    /\ (ws[thr].partial # "DISABLED" /\ outq.active # <<>>) =>
         Len(outq.active) = 1 /\ Head(outq.active).job = block

(* "Memory usage that will not be exceeded in multi-threaded mode"         *)
(* (memlimit_threading): what runs never exceeds it, so the subtraction in *)
(* read_output_and_wait does not wrap, and neither does all that is        *)
(* allocated, unless a thread was freed while room was made for a Block    *)
(* and get_thread took it instead of the one that had been counted on.     *)
(* After MEM_ERROR the counters hold a Block for which nothing was         *)
(* allocated, and all that is left to do is to free the coder.             *)
RunningMemory   == mem_in_use + outq.mem_in_use
AllocatedMemory == mem_in_use + mem_cached + outq.mem_allocated

MemoryBounded ==
  /\ RunningMemory <= MemlimitThreading
  /\ (pc # "get" /\ ret # "MEM_ERROR" /\ ~overtaken) => AllocatedMemory <= MemlimitThreading

Over == pending \in {"End", "Error"} \/ ret \in {"BUF_ERROR", "MEMLIMIT_ERROR"} \/ pc = "ended"

(* Every call returns, and freeing the coder ends: no signal is lost, the  *)
(* application's thread never sleeps with nobody to wake it, also when the *)
(* Block at the head has only part of its input.                           *)
CallReturns == (pc \notin {"app", "ended"}) ~> (pc \in {"app", "ended"})

(* Finishing takes finitely many calls: what the threads hold comes out.   *)
FinishCompletes == (pending = "FINISH") ~> Over

=============================================================================
