------------------------------ MODULE DecoderMt ------------------------------
(***************************************************************************)
(* The threaded .xz decoder,                                               *)
(* src/safe/src/internal/container/stream_decoder_mt.rs: the application's *)
(* thread parses headers, hands each Block whose sizes are in its header   *)
(* to a worker thread, feeds it the input, and drains the output queue in  *)
(* order; other Blocks are decoded by the application's thread itself      *)
(* ("direct mode").                                                        *)
(*                                                                         *)
(* An action is what a thread does while it holds the shared mutex, or a   *)
(* worker's or a buffer's. Stream header, Block header, Index, Stream      *)
(* footer and a byte of Stream Padding are one unit of input each; a       *)
(* Block's data is comp units, then tail units of padding and check.       *)
(***************************************************************************)
EXTENDS OutQueue

CONSTANTS
  MemlimitThreading,  (* lzma_mt.memlimit_threading                        *)
  MemlimitStop,       (* lzma_mt.memlimit_stop                             *)
  Setups              (* files, flags and ways to use the decoder          *)

Worker == 0 .. Threads - 1
None   == -1

(* What may be wrong: the header of the Stream that begins with the Block, *)
(* the Block's header, sizes no Index can hold (index_hash_append), its    *)
(* data, or, behind its data, the Index, the footer or the padding of the  *)
(* Stream it ends. DATA_ERROR stands for every answer to what is wrong     *)
(* with a file, FORMAT_ERROR and OPTIONS_ERROR among them.                 *)
Flaws == {"stream", "header", "record", "data", "index", "footer", "padding"}

(* Everything about a Block: its sizes (BlockDecoder), the memory its      *)
(* filters take, whether its header has the sizes, whether it ends its     *)
(* Stream, and what is wrong with it.                                      *)
BlockRecord == [chunks : Nat, comp : Nat, tail : Nat, out : Nat, filters : Nat,
                known : BOOLEAN, last : BOOLEAN, flaw : {"none"} \cup Flaws]

(* What does not change while a file is decoded: the file, the options of  *)
(* lzma_mt, whether copying filters may fail, and what the application     *)
(* does: the input it adds and the space it offers in a call, whether it   *)
(* may finish early, and the memory limits it may set later.               *)
SetupRecord ==
  [file : Seq(BlockRecord), fail_fast : BOOLEAN, tell : BOOLEAN, concatenated : BOOLEAN,
   timeout : BOOLEAN, alloc_fails : BOOLEAN, offers : SUBSET Nat, spaces : SUBSET Nat,
   truncates : BOOLEAN, stop_limits : SUBSET Nat]

ASSUME DecoderAssumption ==
  /\ MemlimitThreading \in Nat /\ MemlimitStop \in Nat /\ MemlimitThreading <= MemlimitStop
  /\ \A s \in Setups :
       /\ s \in SetupRecord /\ s.file # <<>> /\ s.file[Len(s.file)].last
       /\ \A b \in 1 .. Len(s.file) - 1 : s.file[b].last => s.concatenated
       /\ \A b \in DOMAIN s.file :
            /\ s.file[b].flaw \in {"index", "footer", "padding"} => s.file[b].last
            /\ s.file[b].flaw = "padding" => s.concatenated
            /\ s.file[b].flaw = "stream" /\ b > 1 => s.file[b - 1].last

VARIABLES
  setup,            (* one of Setups                                       *)
  (* The application and lzma_code.                                        *)
  pc,               (* where the application's thread is                   *)
  action,           (* action of the call in progress                      *)
  avail,            (* input units left in the application's buffer        *)
  space,            (* output space left in this call                      *)
  pending,          (* "RUN", "FINISH", "End" or "Error"                   *)
  ret,              (* what the last call returned                         *)
  moved,            (* this call consumed or produced something            *)
  stuck,            (* allow_buf_error                                     *)
  (* StreamDecoderMt, touched by the application's thread only.            *)
  sequence, pending_error, current_worker, out_was_filled, memlimit_stop,
  block,            (* the Block whose header was decoded last             *)
  direct,           (* direct mode's decoder (BlockDecoder)                *)
  (* The call in progress: locals of code() and wait_on_decoder().         *)
  waiting_allowed, can_start, wrote,
  asked,            (* the worker to be asked for output, or being prepared*)
  (* DecoderSharedState.                                                   *)
  outq, free_workers, thread_error, mem_in_use,
  (* Workers: the mutex-protected state and the thread's own variables.    *)
  ws, wl,
  (* History.                                                              *)
  eaten,            (* input units consumed in all                         *)
  output,           (* output units delivered                              *)
  gave_up,          (* FINISH was used before the end of the file          *)
  lost,             (* a worker wiped a job it had just been given         *)
  missed,           (* a notification came between check and sleep         *)
  misjudged,        (* a sound Block was met in a way that gets it refused *)
  torn              (* the direct decoder was cut off within its data      *)

call   == <<action, pending, ret, stuck>>
coder  == <<sequence, pending_error, current_worker, out_was_filled, memlimit_stop, block, direct>>
locals == <<waiting_allowed, can_start, wrote, asked>>
shared == <<outq, free_workers, thread_error, mem_in_use>>
flow   == <<avail, space, moved, eaten, output>>
verdict == <<misjudged, torn>>
hist   == <<setup, gave_up, lost, missed, verdict>>
vars   == <<pc, call, coder, locals, shared, flow, ws, wl, hist>>

Direct == INSTANCE BlockDecoder

IdleWorker == [command |-> "Idle", in_size |-> 0, in_filled |-> 0, job |-> None,
               outbuf |-> None, partial |-> "Disabled"]
IdleThread == [pc |-> "idle", job |-> None, seen |-> 0, partial |-> "Disabled", ret |-> "OK"]

Init ==
  /\ setup \in Setups
  /\ pc = "app" /\ action = "RUN" /\ avail = 0 /\ space = 0
  /\ pending = "RUN" /\ ret = "OK" /\ moved = FALSE /\ stuck = FALSE
  /\ sequence = "StreamHeader" /\ pending_error = "OK" /\ current_worker = None
  /\ out_was_filled = FALSE /\ memlimit_stop = MemlimitStop
  /\ block = 0 /\ direct = Direct!FreshDecoder
  /\ waiting_allowed = FALSE /\ can_start = FALSE /\ wrote = FALSE /\ asked = None
  /\ outq = Empty /\ thread_error = "OK" /\ mem_in_use = 0
  /\ free_workers = [i \in 1 .. Threads |-> i - 1]
  /\ ws = [w \in Worker |-> IdleWorker]
  /\ wl = [w \in Worker |-> IdleThread]
  /\ eaten = 0 /\ output = <<>>
  /\ gave_up = FALSE /\ lost = FALSE /\ missed = FALSE /\ misjudged = FALSE /\ torn = FALSE

-----------------------------------------------------------------------------
(* The file and the flags.                                                 *)

File         == setup.file
FailFast     == setup.fail_fast     (* LZMA_FAIL_FAST                      *)
Tell         == setup.tell          (* one of the LZMA_TELL_ flags applies *)
Concatenated == setup.concatenated  (* LZMA_CONCATENATED                   *)
Timeout      == setup.timeout       (* lzma_mt.timeout # 0                 *)

Total(b)   == File[b].comp + File[b].tail
Ending(r)  == IF r.last THEN (IF r.flaw = "padding" THEN 5 ELSE 3) ELSE 0
TakenBy(blocks) == FoldSeq(LAMBDA r, sum : sum + 1 + r.comp + r.tail + Ending(r), 1, blocks)
Before(b)  == TakenBy(SubSeq(File, 1, b - 1))
FileSize   == Before(Len(File) + 1) - 1
AtIndex    == block > 0 /\ File[block].last /\ eaten < Before(block + 1)
AtZero     == File[block].flaw = "padding" /\ eaten < Before(block + 1) - 1

(* comp_block_size and what the next Block needs in all.                   *)
NextMem == File[block].filters + Total(block) + Usage(File[block].out)

Place(job) == CHOOSE i \in DOMAIN outq.active : outq.active[i].job = job

-----------------------------------------------------------------------------
(* lzma_code around the decoder.                                           *)

(* The application adds input, or announces the end of it.                 *)
Call ==
  /\ pc = "app" /\ pending \in {"RUN", "FINISH"}
  /\ LET rest == FileSize - eaten
     IN \/ /\ pending = "RUN" /\ action' = "RUN"
           /\ \E more \in setup.offers : avail' = avail + more /\ avail' <= rest
           /\ UNCHANGED gave_up
        \/ /\ pending = "RUN" /\ action' = "FINISH"
           /\ \/ avail' = rest
              \/ setup.truncates /\ avail' = avail
           /\ gave_up' = (gave_up \/ avail' < rest)
        \/ pending = "FINISH" /\ action' = "FINISH" /\ UNCHANGED <<avail, gave_up>>
  /\ pending' = action'
  /\ space' \in setup.spaces
  /\ moved' = FALSE
  /\ waiting_allowed' = (action' = "FINISH" \/ (avail' = 0 /\ ~out_was_filled))
  /\ out_was_filled' = FALSE
  /\ pc' = "code"
  /\ UNCHANGED <<ret, stuck, sequence, pending_error, current_worker, memlimit_stop, block,
                 direct, can_start, wrote, asked, shared, eaten, output, ws, wl, setup, lost, missed, verdict>>

(* The call returns r (StreamState: the second idle OK in a row becomes    *)
(* BUF_ERROR, a time-out becomes OK).                                      *)
Returned(r) ==
  CASE r = "TIMED_OUT"                -> "OK"
    [] r = "OK" /\ ~moved' /\ stuck   -> "BUF_ERROR"
    [] OTHER                          -> r

Return(r) ==
  /\ pc' = "app"
  /\ ret' = Returned(r)
  /\ stuck' = (r = "OK" /\ ~moved')
  /\ pending' = CASE r \in {"OK", "TIMED_OUT", "GET_CHECK", "MEMLIMIT_ERROR"} -> pending
                  [] r = "STREAM_END" -> "End"
                  [] OTHER            -> "Error"
  /\ UNCHANGED action

(* The call goes on at p.                                                  *)
GoTo(p) == pc' = p /\ UNCHANGED call

(* Consume n units of input.                                               *)
Consume(n) ==
  /\ avail' = avail - n /\ eaten' = eaten + n
  /\ moved' = (moved \/ n > 0)
  /\ UNCHANGED <<space, output>>

(* abort_workers: every worker is told to exit. The workers read their     *)
(* commands one by one, so telling them in one step loses no behaviour.    *)
AbortWorkers == ws' = [w \in Worker |-> [ws[w] EXCEPT !.command = "Exit"]]

(* The coder's state but for the place in its sequence.                    *)
kept == <<pending_error, current_worker, memlimit_stop, block, direct>>

(* Enter wait_on_decoder.                                                  *)
EnterWait ==
  /\ GoTo("read")
  /\ wrote' = FALSE /\ can_start' = FALSE
  /\ UNCHANGED <<waiting_allowed, asked>>

-----------------------------------------------------------------------------
(* code(), up to wait_on_decoder, by sequence.                             *)

StreamHeader ==
  /\ pc = "code" /\ sequence = "StreamHeader"
  /\ IF avail = 0
     THEN UNCHANGED <<flow, sequence>> /\ Return("OK")
     ELSE /\ Consume(1)
          /\ IF File[block + 1].flaw = "stream"
             THEN UNCHANGED sequence /\ Return("DATA_ERROR")
             ELSE sequence' = "BlockHeader" /\ IF Tell THEN Return("GET_CHECK") ELSE GoTo("code")
  /\ UNCHANGED <<kept, out_was_filled, locals, shared, ws, wl, hist>>

BlockHeader ==
  /\ pc = "code" /\ sequence = "BlockHeader"
  /\ \/ /\ avail = 0
        /\ EnterWait
        /\ UNCHANGED <<flow, sequence, pending_error, block>>
     \/ /\ avail > 0 /\ AtIndex
        /\ sequence' = "IndexWaitOutput" /\ GoTo("code")
        /\ UNCHANGED <<flow, pending_error, block, locals>>
     \/ /\ avail > 0 /\ ~AtIndex
        /\ Consume(1) /\ block' = block + 1 /\ GoTo("code")
        /\ IF File[block'].flaw = "header"
           THEN sequence' = "Error" /\ pending_error' = "DATA_ERROR"
           ELSE sequence' = "BlockInit" /\ UNCHANGED pending_error
        /\ UNCHANGED locals
  /\ UNCHANGED <<current_worker, memlimit_stop, direct, out_was_filled, shared, ws, wl, hist>>

(* Which way the Block is decoded.                                         *)
TooBig    == File[block].filters > memlimit_stop
Threaded  == File[block].known /\ NextMem <= MemlimitThreading

BlockInit ==
  /\ pc = "code" /\ sequence = "BlockInit"
  /\ IF TooBig
     THEN EnterWait /\ UNCHANGED <<sequence, pending_error>>
     ELSE /\ IF Threaded /\ File[block].flaw = "record"
             THEN sequence' = "Error" /\ pending_error' = "DATA_ERROR"
             ELSE /\ sequence' = IF Threaded THEN "BlockThreadInit" ELSE "BlockDirectInit"
                  /\ UNCHANGED pending_error
          /\ GoTo("code") /\ UNCHANGED locals
  /\ UNCHANGED <<current_worker, memlimit_stop, block, direct, out_was_filled, flow, shared,
                 ws, wl, hist>>

WaitFirst ==
  /\ pc = "code"
  /\ \/ sequence \in {"BlockThreadInit", "BlockDirectInit", "IndexWaitOutput"}
     \/ sequence = "Error" /\ ~FailFast
  /\ EnterWait
  /\ UNCHANGED <<sequence, kept, out_was_filled, flow, shared, ws, wl, hist>>

ErrorNow ==
  /\ pc = "code" /\ sequence = "Error" /\ FailFast
  /\ UNCHANGED <<sequence, kept, out_was_filled, locals, flow, shared, ws, wl, hist>>
  /\ Return(pending_error)

(* Copy input into the worker's buffer. With fail_fast a Block that will   *)
(* never be complete is an error, but abort_workers takes one worker's     *)
(* mutex after the other and this worker's is already held here: when its  *)
(* turn comes the thread waits for itself (a std Mutex is not reentrant).  *)
Wanted == ws[current_worker].in_size - ws[current_worker].in_filled
CutOff == FailFast /\ action = "FINISH" /\ avail < Wanted

AbortWorkersBefore(v) ==
  ws' = [w \in Worker |-> IF w < v THEN [ws[w] EXCEPT !.command = "Exit"] ELSE ws[w]]

BlockThreadRun ==
  /\ pc = "code" /\ sequence = "BlockThreadRun"
  /\ IF CutOff
     THEN GoTo("selflock") /\ AbortWorkersBefore(current_worker) /\ UNCHANGED <<flow, locals>>
     ELSE LET n == SmallerOf(Wanted, avail)
          IN /\ ws' = [ws EXCEPT ![current_worker].in_filled = @ + n]
             /\ Consume(n) /\ EnterWait
  /\ UNCHANGED <<sequence, kept, out_was_filled, shared, wl, hist>>

(* Direct mode: what a call of the decoder did, and index_hash_append      *)
(* after the Block's end.                                                  *)
Recorded(r) ==
  IF r.ret = "STREAM_END" /\ File[block].flaw = "record" THEN [r EXCEPT !.ret = "DATA_ERROR"] ELSE r

DirectStep(r) ==
  /\ direct' = IF r.ret = "STREAM_END" THEN Direct!FreshDecoder ELSE r.d
  /\ avail' = avail - r.in /\ eaten' = eaten + r.in
  /\ space' = space - Len(r.units)
  /\ output' = output \o [i \in DOMAIN r.units |-> <<block, r.units[i]>>]
  /\ moved' = (moved \/ r.in > 0 \/ r.units # <<>>)
  /\ IF r.ret = "STREAM_END"
     THEN sequence' = "BlockHeader" /\ GoTo("code") /\ UNCHANGED out_was_filled
     ELSE /\ Return(r.ret)
          /\ out_was_filled' = (space' = 0 /\ r.units # <<>>)
          /\ UNCHANGED sequence

(* A Block without sizes is decoded in one go, from input that holds all   *)
(* of it; then the result is given out bit by bit.                         *)
Buffered(b, d, a, s) ==
  LET whole == Total(block)
      used  == IF d.in = 0 THEN whole ELSE 0
      n     == SmallerOf(b.out - d.out, s)
      e     == [d EXCEPT !.in = whole, !.out = @ + n]
  IN IF d.in = 0 /\ a < whole         THEN Direct!Answer(d, 0, <<>>, "OK")
     ELSE IF d.in = 0 /\ b.flaw = "data" THEN Direct!Answer(d, 0, <<>>, "DATA_ERROR")
     ELSE Direct!Answer(e, used, Direct!Units(d.out + 1, n),
                        IF e.out < b.out THEN "OK" ELSE "STREAM_END")

(* The Block's sizes are used up and its end marker has not been seen.     *)
UsedUp(b) == direct'.coding /\ direct'.in = b.comp /\ direct'.out = b.out

BlockDirectRun ==
  /\ pc = "code" /\ sequence = "BlockDirectRun"
  /\ LET b == File[block]
     IN
     /\ \/ /\ space = 0         (* and next_out is NULL                    *)
           /\ DirectStep(Direct!Answer(direct, 0, <<>>, "OK"))
        \/ /\ b.known
           /\ DirectStep(Recorded(Direct!Code(b, direct, avail, space, action = "FINISH")))
        \/ /\ ~b.known
           /\ DirectStep(Recorded(Buffered(b, direct, avail, space)))
        \/ /\ ~b.known /\ b.flaw = "data" /\ direct.in = 0 /\ avail > 0
           /\ DirectStep(Direct!Answer(direct, 0, <<>>, "DATA_ERROR"))
     /\ torn' = (torn \/ (b.known /\ action = "RUN" /\ direct.in + avail \in 1 .. b.comp - 1))
     /\ misjudged' = (misjudged \/ UsedUp(b))
  /\ UNCHANGED <<pending_error, current_worker, memlimit_stop, block, locals, shared, ws, wl>>
  /\ UNCHANGED <<setup, gave_up, lost, missed>>

IndexDecode ==
  /\ pc = "code" /\ sequence = "IndexDecode"
  /\ IF avail = 0
     THEN UNCHANGED <<flow, sequence>> /\ Return("OK")
     ELSE /\ Consume(1)
          /\ IF File[block].flaw = "index" THEN UNCHANGED sequence /\ Return("DATA_ERROR")
             ELSE sequence' = "StreamFooter" /\ GoTo("code")
  /\ UNCHANGED <<kept, out_was_filled, locals, shared, ws, wl, hist>>

StreamFooter ==
  /\ pc = "code" /\ sequence = "StreamFooter"
  /\ IF avail = 0
     THEN UNCHANGED <<flow, sequence>> /\ Return("OK")
     ELSE /\ Consume(1)
          /\ \/ /\ File[block].flaw = "footer"
                /\ UNCHANGED sequence /\ Return("DATA_ERROR")
             \/ /\ File[block].flaw # "footer" /\ ~Concatenated
                /\ UNCHANGED sequence /\ Return("STREAM_END")
             \/ /\ File[block].flaw # "footer" /\ Concatenated
                /\ sequence' = "StreamPadding" /\ GoTo("code")
  /\ UNCHANGED <<kept, out_was_filled, locals, shared, ws, wl, hist>>

(* A Stream may follow a multiple of four zeros (reset_stream); the end of *)
(* the input ends the file. A file's flawed padding is two zeros.          *)
PaddingPos == IF File[block].flaw = "padding" THEN 2 - (Before(block + 1) - 1 - eaten) ELSE 0

StreamPadding ==
  /\ pc = "code" /\ sequence = "StreamPadding"
  /\ \/ /\ avail = 0 /\ action # "FINISH"
        /\ UNCHANGED <<flow, sequence, pending_error, current_worker>> /\ Return("OK")
     \/ /\ avail = 0 /\ action = "FINISH"
        /\ UNCHANGED <<flow, sequence, pending_error, current_worker>>
        /\ Return(IF PaddingPos = 0 THEN "STREAM_END" ELSE "DATA_ERROR")
     \/ /\ avail > 0 /\ AtZero
        /\ UNCHANGED <<sequence, pending_error, current_worker>> /\ Consume(1) /\ GoTo("code")
     \/ /\ avail > 0 /\ ~AtZero /\ PaddingPos # 0
        /\ UNCHANGED <<sequence, pending_error, current_worker>> /\ Consume(1) /\ Return("DATA_ERROR")
     \/ /\ avail > 0 /\ ~AtZero /\ PaddingPos = 0
        /\ sequence' = "StreamHeader" /\ pending_error' = "OK" /\ current_worker' = None
        /\ UNCHANGED flow /\ GoTo("code")
  /\ UNCHANGED <<memlimit_stop, block, direct, out_was_filled, locals, shared, ws, wl, hist>>

Code ==
  \/ StreamHeader \/ BlockHeader \/ BlockInit \/ WaitFirst \/ ErrorNow \/ BlockThreadRun
  \/ BlockDirectRun \/ IndexDecode \/ StreamFooter \/ StreamPadding

-----------------------------------------------------------------------------
(* wait_on_decoder.                                                        *)

(* threaded_input_possible                                                 *)
InputPossible(q) ==
  /\ MemlimitThreading >= mem_in_use + q.mem_in_use + NextMem
  /\ HasBuf(q)
  /\ free_workers # <<>>

(* Only these pass on code()'s waiting_allowed; the others always wait.    *)
Waiting == waiting_allowed \/ sequence \notin {"BlockHeader", "BlockThreadRun"}

(* The worker being fed has taken all it was given and says so.            *)
CaughtUp(q) ==
  /\ current_worker # None
  /\ ws[current_worker].partial # "Disabled"
  /\ \E i \in DOMAIN q.active :
       /\ q.active[i].job = ws[current_worker].outbuf
       /\ q.active[i].in_pos = ws[current_worker].in_filled

StartNow(q) == sequence = "BlockThreadInit" /\ InputPossible(q)

NothingToWaitFor(q) ==
  \/ ~Waiting
  \/ sequence # "BlockThreadInit" /\ IsEmpty(q)
  \/ IsReadable(q)
  \/ CaughtUp(q)

(* wait_on_decoder gives up: the queue's head failed, or any worker has    *)
(* and the application wants to know at once.                              *)
GivesUpOnAnyError(r, failed) == r \notin {"OK", "STREAM_END"} \/ (r = "OK" /\ failed)
GivesUp(r, failed) == r \notin {"OK", "STREAM_END"} \/ (r = "OK" /\ failed /\ FailFast)

(* Read the queue under the shared mutex and decide whether to sleep. The  *)
(* error of a drained buffer aborts the decoder; a drained buffer makes    *)
(* the next one's worker a candidate for partial output.                   *)
ReadQueue ==
  LET q      == Read(outq, space)
      r      == ReadRet(outq, space)
      n      == Available(outq, space)
      filled == space = n /\ (wrote \/ n > 0)
      worker == HeadWorker(q)
      failed == thread_error # "OK" /\ ~filled
  IN /\ pc = "read"
     /\ space' = space - n /\ moved' = (moved \/ n > 0)
     /\ output' = output \o Copied(outq, space)
     /\ wrote' = (wrote \/ n > 0)
     /\ UNCHANGED <<avail, eaten, free_workers, thread_error, mem_in_use>>
     /\ UNCHANGED <<sequence, current_worker, out_was_filled, memlimit_stop, block, direct,
                    waiting_allowed, wl, hist>>
     /\ \/ /\ r = "STREAM_END"
           /\ outq' = TakeHeadWorker(q) /\ asked' = worker
           /\ GoTo(IF worker = NoWorker THEN "read" ELSE "partial")
           /\ UNCHANGED <<pending_error, can_start, ws>>
        \/ /\ GivesUp(r, failed)
           /\ outq' = q
           /\ AbortWorkers /\ Return(IF r = "OK" THEN thread_error ELSE r)
           /\ UNCHANGED <<pending_error, can_start, asked>>
        \/ /\ r = "OK" /\ ~GivesUp(r, failed)
           /\ outq' = q
           /\ pending_error' = IF failed THEN "PROG_ERROR" ELSE pending_error
           /\ can_start' = (~filled /\ StartNow(q))
           /\ GoTo(IF filled \/ StartNow(q) \/ NothingToWaitFor(q) THEN "done" ELSE "park")
           /\ UNCHANGED <<asked, ws>>

(* request_partial_output, under the worker's mutex.                       *)
RequestPartial ==
  /\ pc = "partial"
  /\ ws' = [ws EXCEPT ![asked].partial = IF @ = "Disabled" THEN "Start" ELSE @]
  /\ GoTo("read")
  /\ UNCHANGED <<coder, locals, shared, flow, wl, hist>>

(* Between the last look at the worker and the sleep, the shared mutex is  *)
(* held; the worker's and the buffer's are not.                            *)
Park ==
  /\ pc = "park"
  /\ GoTo("sleep")
  /\ UNCHANGED <<coder, locals, shared, flow, ws, wl, hist>>

TimeOut ==
  /\ pc = "sleep" /\ Timeout
  /\ Return("TIMED_OUT")
  /\ UNCHANGED <<coder, locals, shared, flow, ws, wl, hist>>

(* A condition variable may wake its thread for no reason.                 *)
SpuriousWake ==
  /\ pc = "sleep"
  /\ GoTo("read") /\ wrote' = FALSE
  /\ UNCHANGED <<coder, waiting_allowed, can_start, asked, shared, flow, ws, wl, hist>>

(* notify_all on the shared condition variable.                            *)
NotifiedNobody == UNCHANGED <<pc, wrote>>
Notified ==
  /\ pc' = IF pc = "sleep" THEN "read" ELSE pc
  /\ wrote' = (wrote /\ pc # "sleep")

-----------------------------------------------------------------------------
(* code(), after wait_on_decoder.                                          *)

(* OK, remembering whether the output buffer is full.                      *)
ReturnFilled ==
  /\ out_was_filled' = (space = 0)
  /\ Return("OK")
  /\ UNCHANGED <<pending_error, sequence, current_worker, ws>>

ToSequence(next) ==
  /\ sequence' = next /\ GoTo("code")
  /\ UNCHANGED <<pending_error, out_was_filled, ws>>

Done ==
  /\ pc = "done"
  /\ UNCHANGED <<memlimit_stop, block, locals, flow, shared, wl, hist>>
  /\ direct' = IF sequence = "BlockDirectInit" THEN Direct!FreshDecoder ELSE direct
  /\ \/ /\ pending_error # "OK"
        /\ sequence \in {"BlockHeader", "BlockThreadInit", "BlockThreadRun"}
        /\ ToSequence("Error") /\ UNCHANGED current_worker
     \/ /\ pending_error = "OK" /\ sequence = "BlockHeader"
        /\ IF FailFast /\ action = "FINISH"
           THEN AbortWorkers /\ Return("DATA_ERROR")
                /\ UNCHANGED <<pending_error, sequence, current_worker, out_was_filled>>
           ELSE ReturnFilled
     \/ /\ pending_error = "OK" /\ sequence = "BlockThreadInit"
        /\ IF can_start
           THEN GoTo("prepare")
                /\ UNCHANGED <<pending_error, sequence, current_worker, out_was_filled, ws>>
           ELSE ReturnFilled
     \/ /\ pending_error = "OK" /\ sequence = "BlockThreadRun"
        /\ IF Wanted > 0 THEN ReturnFilled
           ELSE ToSequence("BlockHeader") /\ current_worker' = None
     \/ /\ sequence \in {"BlockInit", "BlockDirectInit", "IndexWaitOutput", "Error"}
        /\ ~IsEmpty(outq)
        /\ Return("OK")
        /\ UNCHANGED <<pending_error, sequence, current_worker, out_was_filled, ws>>
     \/ /\ sequence \in {"BlockInit", "Error"} /\ IsEmpty(outq)
        /\ Return(IF sequence = "Error" THEN pending_error ELSE "MEMLIMIT_ERROR")
        /\ UNCHANGED <<pending_error, sequence, current_worker, out_was_filled, ws>>
     \/ /\ sequence = "BlockDirectInit" /\ IsEmpty(outq) /\ setup.alloc_fails   \* start_direct
        /\ Return("MEM_ERROR")
        /\ UNCHANGED <<pending_error, sequence, current_worker, out_was_filled, ws>>
     \/ /\ sequence \in {"BlockDirectInit", "IndexWaitOutput"} /\ IsEmpty(outq)
        /\ ToSequence(IF sequence = "IndexWaitOutput" THEN "IndexDecode" ELSE "BlockDirectRun")
        /\ UNCHANGED current_worker

(* prepare_worker: make room, ...                                          *)
NeedsRoomWithoutCache == MemlimitThreading < mem_in_use + outq.mem_in_use + NextMem
NeedsRoom == MemlimitThreading < mem_in_use + outq.mem_allocated + NextMem

PrepareRoom ==
  /\ pc = "prepare"
  /\ outq' = IF NeedsRoom THEN ClearCacheKeep(outq, File[block].out) ELSE outq
  /\ GoTo("start")
  /\ UNCHANGED <<coder, locals, free_workers, thread_error, mem_in_use, flow, ws, wl, hist>>

(* ... take a worker and a buffer (prealloc_buf refuses only sizes that no *)
(* Block has: an lzma_vli is below 2^63, and Vec does not return when the  *)
(* memory is not there), ...                                               *)
FreeAfterPop == Front(free_workers)

StartWorker ==
  /\ pc = "start"
  /\ IF InputPossible(outq)
     THEN LET b == File[block] w == Last(free_workers)
          IN /\ outq' = GetBuf(PreallocBuf(outq, b.out), block, w)
             /\ free_workers' = FreeAfterPop /\ asked' = w
             /\ mem_in_use' = mem_in_use + Total(block) + b.filters
             /\ UNCHANGED flow /\ GoTo("assign")
     ELSE UNCHANGED <<outq, free_workers, asked, mem_in_use, flow>> /\ Return("OK")
  /\ UNCHANGED <<coder, waiting_allowed, can_start, wrote, thread_error, ws, wl, hist>>

(* ... and hand it the Block, unless copying its filters fails half-way.   *)
AssignWorker ==
  /\ pc = "assign"
  /\ UNCHANGED <<sequence, pending_error, out_was_filled, memlimit_stop, block, direct,
                 locals, shared, flow, wl, hist>>
  /\ LET job == [ws[asked] EXCEPT !.in_size = Total(block), !.in_filled = 0,
                                  !.outbuf = block, !.partial = "Disabled"]
     IN \/ /\ ws' = [ws EXCEPT ![asked] = [job EXCEPT !.job = block, !.command = "Run"]]
           /\ current_worker' = asked
           /\ GoTo("request")
        \/ /\ setup.alloc_fails
           /\ ws' = [ws EXCEPT ![asked] = job]
           /\ UNCHANGED current_worker /\ Return("MEM_ERROR")

(* Every worker is asked for partial output.                               *)
RequestAtStart ==
  /\ pc = "request"
  /\ ws' = [ws EXCEPT ![asked].partial = IF @ = "Disabled" THEN "Start" ELSE @]
  /\ sequence' = "BlockThreadRun" /\ GoTo("code")
  /\ UNCHANGED <<kept, out_was_filled, locals, shared, flow, wl, hist>>

(* lzma_memlimit_set: not below what is in use, as memconfig counts it.    *)
MemUsage == (IF sequence = "BlockDirectRun" THEN File[block].filters ELSE 0)
            + mem_in_use + outq.mem_allocated

SetMemlimit ==
  /\ pc = "app" /\ pending \in {"RUN", "FINISH"}
  /\ \E limit \in setup.stop_limits : limit >= MemUsage /\ memlimit_stop' = limit
  /\ UNCHANGED <<pc, call, sequence, pending_error, current_worker, out_was_filled, block,
                 direct, locals, shared, flow, ws, wl, hist>>

(* lzma_end                                                                *)
End ==
  /\ pc = "app"
  /\ AbortWorkers /\ GoTo("join")
  /\ UNCHANGED <<coder, locals, shared, flow, wl, hist>>

Join ==
  /\ pc = "join"
  /\ \A w \in Worker : wl[w].pc = "exited"
  /\ outq' = Empty /\ GoTo("ended")
  /\ UNCHANGED <<coder, locals, free_workers, thread_error, mem_in_use, flow, ws, wl, hist>>

AppThread ==
  \/ Code \/ ReadQueue \/ RequestPartial \/ Park \/ TimeOut
  \/ Done \/ PrepareRoom \/ StartWorker \/ AssignWorker \/ RequestAtStart \/ Join

-----------------------------------------------------------------------------
(* A worker's thread: decoder_worker_loop.                                 *)

(* The application's thread waits for itself with this worker's mutex held.*)
Jammed(w) == pc = "selflock" /\ w = current_worker

TakeJob(w) ==
  /\ wl[w].pc = "idle" /\ ws[w].command # "Idle" /\ ~Jammed(w)
  /\ IF ws[w].command = "Exit"
     THEN wl' = [wl EXCEPT ![w].pc = "exited"] /\ UNCHANGED ws
     ELSE /\ ws' = [ws EXCEPT ![w].job = None]
          /\ wl' = [wl EXCEPT ![w] = [IdleThread EXCEPT !.pc = "look", !.job = ws[w].job]]
  /\ UNCHANGED <<pc, call, coder, locals, shared, flow, hist>>

(* Wait for input beyond what has been seen, or for a request; take all    *)
(* there is.                                                               *)
IdlingUntilFull(w) ==
  ws[w].command = "Run" /\ ws[w].in_filled < ws[w].in_size
Idling(w) ==
  ws[w].command = "Run" /\ ws[w].in_filled = wl[w].seen /\ ws[w].partial # "Start"

Look(w) ==
  /\ wl[w].pc = "look" /\ ~Idling(w) /\ ~Jammed(w)
  /\ IF ws[w].command = "Exit"
     THEN /\ wl' = [wl EXCEPT ![w].pc = "release", ![w].ret = "PROG_ERROR"]
          /\ UNCHANGED ws
     ELSE /\ ws' = [ws EXCEPT ![w].partial = IF @ = "Start" THEN "Enabled" ELSE @]
          /\ wl' = [wl EXCEPT ![w].seen = ws[w].in_filled,
                              ![w].pc = IF ws[w].partial = "Disabled" THEN "decode" ELSE "publish"]
  /\ UNCHANGED <<pc, call, coder, locals, shared, flow, hist>>

(* Publish how much input has been seen, under the buffer's mutex; notify  *)
(* the application without the shared mutex.                               *)
Publish(w) ==
  /\ wl[w].pc = "publish"
  /\ outq' = [outq EXCEPT !.active[Place(wl[w].job)].in_pos = wl[w].seen]
  /\ wl' = [wl EXCEPT ![w].pc = "notify"]
  /\ UNCHANGED <<pc, call, coder, locals, free_workers, thread_error, mem_in_use, ws, flow, hist>>

Notify(w) ==
  /\ wl[w].pc = "notify"
  /\ wl' = [wl EXCEPT ![w].pc = "decode"]
  /\ missed' = (missed \/ pc = "park")
  /\ Notified
  /\ UNCHANGED <<call, coder, waiting_allowed, can_start, asked, shared, ws, flow, setup, gave_up, lost, verdict>>

(* Part of the input is only tried out: it must turn out to be incomplete. *)
(* All of it is decoded into the buffer.                                   *)
Verdicts(w) ==
  LET b == File[wl[w].job] seen == wl[w].seen
  IN (IF b.flaw = "data" THEN {"DATA_ERROR"} ELSE {})
     \cup (IF seen = Total(wl[w].job)
           THEN IF b.flaw = "data" THEN {} ELSE {"STREAM_END"}
           ELSE IF seen >= b.comp THEN {"DATA_ERROR"} ELSE {"OK"})

Decode(w) ==
  /\ wl[w].pc = "decode"
  /\ \E r \in Verdicts(w) :
       wl' = [wl EXCEPT ![w].ret = r, ![w].pc = IF r = "OK" THEN "look" ELSE "release"]
  /\ misjudged' = (misjudged \/ wl[w].seen \in File[wl[w].job].comp .. Total(wl[w].job) - 1)
  /\ UNCHANGED <<pc, call, coder, locals, shared, ws, flow, setup, gave_up, lost, missed, torn>>

(* After a success the input buffer is given up.                           *)
Release(w) ==
  /\ wl[w].pc = "release" /\ ~Jammed(w)
  /\ ws' = IF wl[w].ret = "STREAM_END"
           THEN [ws EXCEPT ![w].in_size = 0, ![w].in_filled = 0]
           ELSE ws
  /\ wl' = [wl EXCEPT ![w].pc = "finish"]
  /\ UNCHANGED <<pc, call, coder, locals, shared, flow, hist>>

(* Publish the result under the shared mutex; the worker is offered again  *)
(* and its memory no longer counted only if it has succeeded.              *)
Offered(w) == wl[w].ret = "STREAM_END"

Finish(w) ==
  LET job  == wl[w].job
      ok   == wl[w].ret = "STREAM_END"
      done == [outq.active[Place(job)] EXCEPT
                 !.finished = TRUE, !.ret = wl[w].ret,
                 !.pos = IF ok THEN File[job].out ELSE 0,
                 !.in_pos = IF ok THEN Total(job) ELSE 0]
  IN /\ wl[w].pc = "finish" /\ pc # "park"
     /\ outq' = [outq EXCEPT !.active[Place(job)] = done]
     /\ IF Offered(w)
        THEN /\ free_workers' = Append(free_workers, w)
             /\ mem_in_use' = mem_in_use - (Total(job) + File[job].filters)
        ELSE UNCHANGED <<free_workers, mem_in_use>>
     /\ thread_error' = IF ~ok /\ thread_error = "OK" THEN wl[w].ret ELSE thread_error
     /\ wl' = [wl EXCEPT ![w].pc = "reset"]
     /\ Notified
     /\ UNCHANGED <<call, coder, waiting_allowed, can_start, asked, ws, flow, hist>>

(* Clear the job, under the worker's mutex, unless told to exit meanwhile. *)
(* The application may have assigned the next job since Finish: then that  *)
(* job is what gets cleared.                                               *)
CommandAfterReset(command) == IF command = "Exit" THEN "Exit" ELSE "Idle"

Reset(w) ==
  /\ wl[w].pc = "reset" /\ ~Jammed(w)
  /\ ws' = [ws EXCEPT ![w].outbuf = None, ![w].job = None, ![w].partial = "Disabled",
                      ![w].command = CommandAfterReset(@)]
  /\ wl' = [wl EXCEPT ![w] = IdleThread]
  /\ lost' = (lost \/ ws[w].outbuf # wl[w].job)
  /\ UNCHANGED <<pc, call, coder, locals, shared, flow, setup, gave_up, missed, verdict>>

WorkerThread(w) ==
  \/ TakeJob(w) \/ Look(w) \/ Publish(w) \/ Notify(w) \/ Decode(w)
  \/ Release(w) \/ Finish(w) \/ Reset(w)

-----------------------------------------------------------------------------
Next ==
  \/ Call \/ SetMemlimit \/ End
  \/ AppThread \/ SpuriousWake
  \/ \E w \in Worker : WorkerThread(w)

Spec == Init /\ [][Next]_vars

(* Every thread is scheduled, a worker waiting for the shared mutex gets   *)
(* it however often the application's thread takes it in between, and an   *)
(* application that has announced the end of its input goes on calling     *)
(* with room for output.                                                   *)
Fairness ==
  /\ WF_vars(AppThread)
  /\ WF_vars(pending = "FINISH" /\ Call /\ space' > 0)
  /\ \A w \in Worker : WF_vars(WorkerThread(w)) /\ SF_vars(Finish(w))

FairSpec == Spec /\ Fairness

-----------------------------------------------------------------------------

Promise == INSTANCE DecodedFile WITH
  file <- File, fail_fast <- FailFast,
  outcome <- IF pending = "End" THEN "End" ELSE IF pending = "Error" THEN ret ELSE "Open"

(* A file is refused for a Block that was misjudged.                       *)
Misled ==
  /\ misjudged' /\ pending \in {"RUN", "FINISH"} /\ pending' = "Error" /\ ret' = "DATA_ERROR"
  /\ Promise!Delivers /\ UNCHANGED setup

(* The threaded decoder delivers what the file holds, in order, once, as   *)
(* far as it is sound, and ends as the file deserves: it implements        *)
(* DecodedFile, whoever finishes first and however input and output are    *)
(* cut, but for three cuts that the code gets wrong. A sound file may be   *)
(* refused with DATA_ERROR, what is delivered until then being right       *)
(* (Misled), when a worker looks while its input ends between the Block's  *)
(* data and the end of its check (decoder_worker_loop takes a successful   *)
(* decode_raw of an incomplete Block for a bad Block), and when a call     *)
(* uses up the sizes of a Block decoded directly and leaves its end marker *)
(* unseen (UsedUp). And when the input of a RUN call ends within the data  *)
(* of a Block that is decoded directly, nothing is promised any more: its  *)
(* reader cannot be resumed (PrefixUnlessCut).                             *)
ImplementsDecodedFile == Promise!Init /\ [][Promise!Next \/ Misled \/ torn']_(Promise!vars)

(* What the workers and the queue hold, cached buffers included, stays     *)
(* within memlimit_threading (threaded_input_possible, prepare_worker).    *)
ThreadingMemoryBounded == mem_in_use + outq.mem_allocated <= MemlimitThreading

(* A job was wiped, a notification missed, or a thread waits for itself.   *)
Derailed == lost \/ missed \/ pc = "selflock"

Over == pending \in {"End", "Error"} \/ ret \in {"BUF_ERROR", "MEMLIMIT_ERROR"} \/ pc = "ended"

(* A call returns and a shutdown ends, unless one of the three struck      *)
(* (wait_on_decoder, decoder_worker_loop, abort_workers).                  *)
CallReturns == (pc \notin {"app", "ended"}) ~> (pc \in {"app", "ended"} \/ Derailed)

(* Finishing takes finitely many calls: what the workers hold comes out    *)
(* (code(), wait_on_decoder).                                              *)
FinishCompletes ==
  (pending = "FINISH") ~> (Over \/ Derailed)

=============================================================================
