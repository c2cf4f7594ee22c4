----------------------- MODULE StreamDecoderMtProofs -----------------------
(***************************************************************************)
(* Proofs about the threaded decoder of the C library: the thread that is  *)
(* fed is live and alone in what it does, memory stays within              *)
(* memlimit_threading, and what comes out is what the file holds, for      *)
(* every number of threads, every limit, every file and every way to call  *)
(* the decoder.                                                            *)
(***************************************************************************)
EXTENDS StreamDecoderMt, OutQueueLemmas

-----------------------------------------------------------------------------
(* The inductive invariant. First what the variables hold.                 *)

Rets == {"OK", "STREAM_END", "DATA_ERROR"}
Buffer == [job : Nat, size : Nat, worker : Worker \cup {NoWorker}, pos : Int, in_pos : Int,
           finished : BOOLEAN, ret : Rets]
Partials == {"DISABLED", "START", "ENABLED"}
WorkerRecord == [state : {"IDLE", "RUN", "EXIT"}, in_filled : Nat, job : Nat, alive : BOOLEAN,
                 partial : Partials, mem_filters : Nat]
ThreadRecord == [pc : {"idle", "decode", "publish", "settle", "report", "exited"},
                 d : [in : Int, out : Int], seen : Int, partial : Partials, ret : Rets]

Distinct(s) == \A i, j \in DOMAIN s : s[i] = s[j] => i = j

Types ==
  /\ IsQueue(outq, Buffer, Nat)
  /\ ws \in [Worker -> WorkerRecord] /\ wl \in [Worker -> ThreadRecord]
  /\ threads_initialized \in 0 .. Threads
  /\ threads_free \in Seq(Worker) /\ Distinct(threads_free)
  /\ \A i \in DOMAIN threads_free : threads_free[i] <= threads_initialized
  /\ mem_in_use \in Int /\ mem_cached \in Int
  /\ seen_free.total \in Int /\ seen_free.free \in Seq(Worker)

(* The input that was announced is the file's, and the Block at hand one   *)
(* of its Blocks.                                                          *)
AtBlock == sequence \in {"BLOCK_INIT", "BLOCK_THR_INIT", "BLOCK_THR_RUN", "BLOCK_DIRECT_INIT",
                         "BLOCK_DIRECT_RUN"}

InputFits ==
  /\ setup \in Setups /\ block \in 0 .. Len(File) /\ (AtBlock => block # 0)
  /\ avail \in Nat /\ eaten \in Nat /\ avail + eaten <= FileSize
  /\ sequence = "BLOCK_DIRECT_RUN" =>
       /\ direct = [in |-> direct.in, out |-> direct.out, mem |-> direct.mem]
       /\ direct.in \in 0 .. File[block].in

(* Where the application's thread is and what it does there.               *)
Where ==
  /\ pc \in {"plan", "free", "get", "start", "partial"} => sequence = "BLOCK_THR_INIT"
  /\ pc \in {"direct", "joindirect"} => sequence = "BLOCK_DIRECT_INIT" /\ outq.active = <<>>
  /\ pc = "joindirect" => outq.cache = <<>>
  /\ ret = "MEM_ERROR" => pending = "Error" /\ pc \in {"app", "join", "ended"}

(* The Block at hand has a thread and a buffer; or it has neither yet.     *)
Fed   == sequence = "BLOCK_THR_RUN" \/ pc \in {"start", "partial"}
Fresh == sequence \in {"BLOCK_INIT", "BLOCK_THR_INIT", "BLOCK_DIRECT_INIT"} /\ pc \notin {"start", "partial"}

(* A thread that is free, or was never made, does nothing; any other works *)
(* on a Block, on what it has got of it.                                   *)
Free(w)  == w \in ToSet(threads_free)
Given(w) == w <= threads_initialized /\ ~Free(w)

Rests(w) == ws[w].state # "RUN" /\ wl[w].d.in = 0 /\ wl[w].pc \in {"idle", "exited"}
Works(w) ==
  /\ ws[w].job \in DOMAIN File /\ ws[w].in_filled <= File[ws[w].job].in
  /\ wl[w].d.in <= ws[w].in_filled
  /\ wl[w].pc = "decode" => wl[w].d.in <= wl[w].seen /\ wl[w].seen <= ws[w].in_filled
  /\ (wl[w].pc \in {"settle", "report"} /\ wl[w].ret = "STREAM_END") =>
       wl[w].d.in = File[ws[w].job].in

ThreadSound(w) ==
  /\ ~Given(w) => Rests(w)
  /\ Given(w) => Works(w)
  /\ ws[w].job <= block /\ 0 <= wl[w].d.in
  /\ wl[w].pc = "report" => ws[w].state # "RUN"

ThreadsSound == \A w \in Worker : ThreadSound(w)

(* The thread that is fed: as long as its Block lacks input it has a       *)
(* buffer for it and is not free.                                          *)
FedSound ==
  Fed =>
    /\ thr \in Worker /\ thr <= threads_initialized /\ ws[thr].job = block
    /\ ws[thr].in_filled <= File[block].in
    /\ ws[thr].in_filled < File[block].in => ws[thr].alive /\ ~Free(thr)
    /\ pc = "start" => ~Free(thr) /\ ws[thr].state = "IDLE" /\ wl[thr].pc \in {"idle", "exited"}

(* The queue holds Blocks in order, the one that is fed last; whoever      *)
(* fills a buffer works on its Block; and only the thread of the Block at  *)
(* the head, or of one that has left the queue, has been asked for partial *)
(* output.                                                                 *)
QueueOrdered ==
  /\ \A i \in DOMAIN outq.active :
       outq.active[i].job <= block /\ (Fresh => outq.active[i].job < block)
  /\ \A i, j \in DOMAIN outq.active : i < j => outq.active[i].job < outq.active[j].job
  /\ (Fed /\ outq.active # <<>>) => outq.active[Len(outq.active)].job = block

Owned(b) ==
  b.finished \/ b.worker = NoWorker \/ (Given(b.worker) /\ ws[b.worker].job = b.job)
BufferOwned == \A i \in DOMAIN outq.active : Owned(outq.active[i])

Partly(w) ==
  \/ ws[w].partial # "DISABLED" \/ wl[w].pc = "publish"
  \/ wl[w].pc = "decode" /\ wl[w].partial # "DISABLED"
PartialAtHead == \A w \in Worker : (Partly(w) /\ outq.active # <<>>) => ws[w].job <= Head(outq.active).job

(* Memory. A Block that may start finds a thread and room among what runs. *)
Committed == pc \in {"plan", "free"} \/ (pc = "after" /\ sequence = "BLOCK_THR_INIT" /\ can_start)

ReadyToStart == (Committed \/ pc = "get") => threads_initialized < Threads \/ threads_free # <<>>

RunningFits ==
  /\ RunningMemory <= MemlimitThreading
  /\ Committed => RunningMemory + NextBlock <= MemlimitThreading
  /\ pc = "get" => RunningMemory + Usage(File[block].out) <= MemlimitThreading

(* The counters are exact.                                                 *)
Filters == [w \in Worker |-> ws[w].mem_filters]
CachedExact == mem_cached = SumOver(Filters, ToSet(threads_free), Threads)

(* While room is made, threads may become free, in front of those seen,    *)
(* and what they no longer use can only lower the total.                   *)
Suffixed(s, t) == Len(s) <= Len(t) /\ \A i \in 1 .. Len(s) : s[i] = t[Len(t) - Len(s) + i]
Behind == pc \in {"free", "get"} => Suffixed(seen_free.free, threads_free)
Seen   == pc = "free" => mem_in_use + mem_cached <= seen_free.total

(* What is allocated fits, between making room and taking it if one thread *)
(* or none is to be replaced.                                              *)
HeadFilters == IF threads_free = <<>> THEN 0 ELSE ws[Head(threads_free)].mem_filters
Others == mem_in_use + mem_cached - HeadFilters
AllocatedFits ==
  ~overtaken =>
    /\ (pc # "get" /\ ret # "MEM_ERROR") => AllocatedMemory <= MemlimitThreading
    /\ (pc = "get" /\ threads_free = seen_free.free) =>
         /\ Others + outq.mem_in_use + Usage(File[block].out) <= MemlimitThreading
         /\ Reusable(outq, File[block].out) => Others + outq.mem_allocated <= MemlimitThreading

ThreadInv == ThreadsSound /\ FedSound
QueueInv  == QueueOrdered /\ BufferOwned /\ PartialAtHead
MemoryInv == ReadyToStart /\ RunningFits /\ Counted(outq) /\ CachedExact /\ Behind /\ Seen /\ AllocatedFits

IInv == Types /\ InputFits /\ Where /\ ThreadInv /\ QueueInv /\ MemoryInv
-----------------------------------------------------------------------------
(* The file and what is read of it.                                        *)

LEMMA FileType ==
  ASSUME setup \in Setups
  PROVE  /\ File \in Seq(BlockRecord) /\ Len(File) \in Nat \ {0} /\ File[Len(File)].last
         /\ \A b \in DOMAIN File : /\ File[b].in \in Nat \ {0} /\ File[b].out \in Nat
                                   /\ File[b].filters \in Nat
         /\ setup.offers \subseteq Nat
  <1>1. setup \in SetupRecord /\ setup.file # <<>> /\ setup.file[Len(setup.file)].last
    BY StreamDecoderAssumption
  <1>2. setup.file \in Seq(BlockRecord) /\ setup.offers \subseteq Nat
    BY <1>1 DEF SetupRecord
  <1>3. \A b \in DOMAIN setup.file : setup.file[b] \in BlockRecord
    BY <1>2
  <1>4. Len(setup.file) \in Nat \ {0}
    BY <1>1, <1>2
  <1> QED BY <1>1, <1>2, <1>3, <1>4 DEF File, BlockRecord

(* What the Blocks before b take, as a fold that the lemmas about sums     *)
(* know.                                                                   *)
TakenFold(f, s, S) ==
  f = [t \in SUBSET S |-> IF t = {} THEN 1
                          ELSE LET x == CHOOSE x \in t : TRUE
                               IN f[t \ {x}] + 1 + s[x].in + Tail3(s[x])]

LEMMA FileSizeType == ASSUME setup \in Setups PROVE Before(Len(File) + 1) \in Int /\ FileSize \in Nat
  <1>1. File \in Seq(BlockRecord) /\ Len(File) \in Nat /\ \A b \in 1 .. Len(File) : File[b].in \in Nat
    BY FileType
  <1>2. PICK n \in Nat : n = Len(File)
    BY <1>1
  <1>3. PICK s : s = SubSeq(File, 1, n)
    OBVIOUS
  <1>4. DOMAIN s = 1 .. n /\ \A i \in 1 .. n : s[i] = File[i]
    BY <1>1, <1>2, <1>3
  <1>5. PICK S : S = 1 .. n
    OBVIOUS
  <1>6. PICK v : v = [i \in S |-> 1 + s[i].in + Tail3(s[i])]
    OBVIOUS
  <1>7. IntsOn(v, S)
    <2>1. ASSUME NEW i \in S PROVE v[i] \in Int
      <3>1. s[i].in \in Nat /\ Tail3(s[i]) \in Nat
        BY <1>1, <1>2, <1>4, <1>5 DEF Tail3
      <3> QED BY <1>6, <3>1
    <2> QED BY <2>1 DEF IntsOn
  <1>8. PICK one \in Int : one = 1
    OBVIOUS
  <1>9. S \in SUBSET (1 .. n)
    BY <1>5
  <1>10. PICK f \in [SUBSET S -> Int] : AddsUp(f, v, S, one)
    BY <1>7, <1>8, <1>9, FoldExists
  <1>11. TakenFold(f, s, S)
    <2>1. ASSUME NEW t \in SUBSET S
          PROVE  f[t] = IF t = {} THEN 1 ELSE LET x == CHOOSE x \in t : TRUE
                                              IN f[t \ {x}] + 1 + s[x].in + Tail3(s[x])
      <3>1. CASE t = {}
        BY <1>8, <1>10, <3>1 DEF AddsUp
      <3>2. CASE t # {}
        <4>1. PICK x \in S : x = Some(t)
          BY <3>2, SomeIn
        <4>2. f[t \ {x}] \in Int
          BY <1>10
        <4>3. f[t] = v[x] + f[t \ {x}]
          BY <1>10, <3>2, <4>1, <4>2 DEF AddsUp
        <4>4. s[x].in \in Nat /\ Tail3(s[x]) \in Nat
          BY <1>1, <1>2, <1>4, <1>5 DEF Tail3
        <4>5. f[t] = f[t \ {x}] + 1 + s[x].in + Tail3(s[x])
          BY <1>6, <4>2, <4>3, <4>4
        <4> QED BY <3>2, <4>1, <4>5 DEF Some
      <3> QED BY <3>1, <3>2
    <2> QED BY <1>10, <2>1 DEF TakenFold
  <1>12. PICK g : g = CHOOSE h : TakenFold(h, s, S)
    OBVIOUS
  <1>13. TakenFold(g, s, S)
    BY <1>11, <1>12
  <1>14. Before(Len(File) + 1) = g[S]
    <2>1. Before(Len(File) + 1) = TakenBy(SubSeq(File, 1, Len(File) + 1 - 1))
      BY DEF Before
    <2>2. SubSeq(File, 1, Len(File) + 1 - 1) = s
      BY <1>2, <1>3
    <2>3. TakenBy(s) = g[S]
      BY <1>4, <1>5, <1>12
      DEF TakenBy, FoldSeq, FoldFunction, FoldFunctionOnSet, MapThenFoldSet, TakenFold
    <2> QED BY <2>1, <2>2, <2>3
  <1>15. AddsUp(g, v, S, one)
    <2>1. ASSUME NEW t \in SUBSET S, t # {}, g[t \ {Some(t)}] \in Int
          PROVE  g[t] = v[Some(t)] + g[t \ {Some(t)}]
      <3>1. PICK x \in S : x = Some(t)
        BY <2>1, SomeIn
      <3>2. g[t] = g[t \ {x}] + 1 + s[x].in + Tail3(s[x])
        BY <1>13, <2>1, <3>1 DEF TakenFold, Some
      <3>3. s[x].in \in Nat /\ Tail3(s[x]) \in Nat
        BY <1>1, <1>2, <1>4, <1>5 DEF Tail3
      <3> QED BY <1>6, <2>1, <3>1, <3>2, <3>3
    <2>2. g[{}] = 1
      BY <1>13 DEF TakenFold
    <2> QED BY <1>8, <2>1, <2>2 DEF AddsUp
  <1>16. g[S] = one + SumOver(v, S, n) /\ SumOver(v, S, n) \in Int
    <2>1. IntsOn(v, S \cap (1 .. n))
      BY <1>5, <1>7
    <2> QED BY <1>7, <1>8, <1>9, <1>15, <2>1, FoldIsSum, SumOverType
  <1>17. SumOver(v, S, n) \in Nat
    <2>1. ASSUME NEW i \in S PROVE v[i] \in Nat
      <3>1. s[i].in \in Nat /\ Tail3(s[i]) \in Nat
        BY <1>1, <1>2, <1>4, <1>5 DEF Tail3
      <3> QED BY <1>6, <3>1
    <2>2. PICK u : u = Only(v, S, n)
      OBVIOUS
    <2>3. \A i \in 1 .. n : u[i] \in Nat
      BY <1>5, <2>1, <2>2 DEF Only
    <2>4. SumTo(u, n) \in Nat
      BY <2>3, SumNat
    <2> QED BY <2>2, <2>4 DEF SumOver
  <1>18. one + SumOver(v, S, n) - 1 = SumOver(v, S, n)
    BY <1>8, <1>17
  <1> QED BY <1>14, <1>16, <1>17, <1>18 DEF FileSize

-----------------------------------------------------------------------------
(* What the next Block takes.                                              *)
LEMMA NextType ==
  ASSUME InputFits, block # 0
  PROVE  /\ block \in DOMAIN File /\ File[block].in \in Nat \ {0} /\ File[block].out \in Nat
         /\ File[block].filters \in Nat
         /\ NextIn \in Nat /\ Usage(File[block].out) \in Nat /\ NextBlock \in Nat
         /\ NextBlock = NextIn + Usage(File[block].out)
  <1>1. block \in 1 .. Len(File)
    BY FileType DEF InputFits
  <1>2. /\ block \in DOMAIN File /\ File[block].in \in Nat \ {0} /\ File[block].out \in Nat
        /\ File[block].filters \in Nat
    BY <1>1, FileType DEF InputFits
  <1>3. NextIn \in Nat /\ Usage(File[block].out) \in Nat
    BY <1>2, QueueAssumption DEF NextIn, Usage
  <1> QED BY <1>2, <1>3 DEF NextBlock

(* The Block decoder takes no more than it is given, nor than the Block    *)
(* has, and STREAM_END says that it has it all.                            *)
LEMMA CodedTakes ==
  ASSUME NEW r, r.in \in Nat \ {0}, NEW d, NEW a \in Nat, NEW s, d.in \in 0 .. r.in,
         NEW c \in Coded(r, d, a, s)
  PROVE  /\ c.d = [in |-> c.d.in, out |-> c.d.out]
         /\ c.d.in \in d.in .. r.in /\ c.d.in <= d.in + a
         /\ c.ret \in {"OK", "STREAM_END", "DATA_ERROR"}
         /\ c.ret = "STREAM_END" => c.d.in = r.in
         /\ (r.out \in Nat /\ d.out + s \in Int) => c.d.out \in Int
  <1> DEFINE most  == SmallerOf(r.in, d.in + a)
             over  == {j \in d.in .. most : Decoded(r, j) > d.out + s}
             i     == IF over = {} THEN most ELSE CHOOSE j \in over : \A k \in over : j <= k
             o     == SmallerOf(Decoded(r, i), d.out + s)
             e     == [in |-> i, out |-> o]
             whole == e = [in |-> r.in, out |-> r.out]
             rets  == CASE r.flaw # "data"       -> {IF whole THEN "STREAM_END" ELSE "OK"}
                        [] r.flaw = "data" /\ whole -> {"DATA_ERROR"}
                        [] OTHER                 -> IF i = 0 THEN {"OK"} ELSE {"OK", "DATA_ERROR"}
  <1>1. Coded(r, d, a, s) = {[d |-> e, ret |-> x] : x \in rets}
    BY DEF Coded
  <1> HIDE DEF most, over, i, o, e, whole, rets
  <1>2. most = SmallerOf(r.in, d.in + a) /\ over = {j \in d.in .. most : Decoded(r, j) > d.out + s}
    BY DEF most, over
  <1>3. most \in Int /\ d.in <= most /\ most <= r.in /\ most <= d.in + a
    BY <1>2 DEF SmallerOf
  <1>4. i = IF over = {} THEN most ELSE CHOOSE j \in over : \A k \in over : j <= k
    BY DEF i
  <1>5. i \in d.in .. most
    <2>1. CASE over = {}
      BY <1>3, <1>4, <2>1
    <2>2. CASE over # {}
      <3>1. over \subseteq Nat
        BY <1>2, <1>3
      <3>2. \E j \in over : \A k \in over : j <= k
        BY <2>2, <3>1, LeastNumber
      <3>3. i \in over
        BY <1>4, <2>2, <3>2
      <3> QED BY <1>2, <3>3
    <2> QED BY <2>1, <2>2
  <1>6. o = SmallerOf(Decoded(r, i), d.out + s)
    BY DEF o
  <1>7. e = [in |-> i, out |-> o]
    BY DEF e
  <1>8. rets = CASE r.flaw # "data" -> {IF e = [in |-> r.in, out |-> r.out] THEN "STREAM_END" ELSE "OK"}
                 [] r.flaw = "data" /\ e = [in |-> r.in, out |-> r.out] -> {"DATA_ERROR"}
                 [] OTHER -> IF i = 0 THEN {"OK"} ELSE {"OK", "DATA_ERROR"}
    BY DEF rets, whole
  <1>9. PICK x \in rets : c = [d |-> e, ret |-> x]
    BY <1>1
  <1>10. x \in {"OK", "STREAM_END", "DATA_ERROR"} /\ (x = "STREAM_END" => e = [in |-> r.in, out |-> r.out])
    <2>1. CASE r.flaw # "data"
      BY <1>8, <1>9, <2>1
    <2>2. CASE r.flaw = "data" /\ e = [in |-> r.in, out |-> r.out]
      <3>1. rets = {"DATA_ERROR"}
        BY <1>8, <2>2
      <3> QED BY <1>9, <3>1
    <2>3. CASE r.flaw = "data" /\ e # [in |-> r.in, out |-> r.out]
      <3>1. rets \subseteq {"OK", "DATA_ERROR"}
        BY <1>8, <2>3
      <3> QED BY <1>9, <3>1
    <2> QED BY <2>1, <2>2, <2>3
  <1>11. x = "STREAM_END" => i = r.in
    BY <1>7, <1>10
  <1>12. (r.out \in Nat /\ d.out + s \in Int) => o \in Int
    <2> SUFFICES ASSUME r.out \in Nat, d.out + s \in Int PROVE o \in Int
      OBVIOUS
    <2>1. PICK p \in Int : p = r.out * i
      BY <1>3, <1>5
    <2>2. p \div r.in \in Int
      OBVIOUS
    <2> QED BY <1>6, <2>1, <2>2 DEF Decoded, SmallerOf
  <1> QED BY <1>3, <1>5, <1>7, <1>9, <1>10, <1>11, <1>12

-----------------------------------------------------------------------------
(* Steps that leave the queue's buffers and the threads as they are, but   *)
(* may tell the threads to stop.                                           *)

SameTask(v, w) ==
  /\ v.in_filled = w.in_filled /\ v.job = w.job /\ v.alive = w.alive
  /\ v.state = w.state \/ v.state # "RUN"
SameWork(v, w) == SameTask(v, w) /\ v.mem_filters = w.mem_filters
SameButState(v, w) == SameWork(v, w) /\ v.partial = w.partial

OnlyTold == ws' \in [Worker -> WorkerRecord] /\ \A w \in Worker : SameButState(ws'[w], ws[w])

SameBuffers ==
  /\ IsQueue(outq', Buffer, Nat) /\ Counted(outq')
  /\ outq'.active = outq.active /\ outq'.mem_in_use = outq.mem_in_use
  /\ outq'.mem_allocated <= outq.mem_allocated

(* How the application's thread goes on.                                   *)
Onward ==
  /\ block' \in {block, block + 1}
  /\ Fed' => Fed /\ thr' = thr /\ block' = block /\ (pc' = "start" => pc = "start")
  /\ Fresh' => (Fresh /\ block' = block) \/ block' = block + 1
  /\ Committed' => Committed /\ block' = block
  /\ pc' # "get" /\ (pc = "get" => ret' = "MEM_ERROR")
  /\ ret = "MEM_ERROR" => ret' = "MEM_ERROR"
  /\ seen_free' = seen_free \/ seen_free' = [total |-> mem_in_use + mem_cached, free |-> threads_free]
  /\ pc' = "free" => seen_free' = [total |-> mem_in_use + mem_cached, free |-> threads_free]

Quiet ==
  /\ UNCHANGED <<setup, threads_free, threads_initialized, mem_in_use, mem_cached, wl, overtaken>>
  /\ SameBuffers
  /\ OnlyTold /\ (ws' = ws \/ pc' # "start")
  /\ Onward

LEMMA BuffersSized == Sized(Buffer)
  BY DEF Sized, Buffer

LEMMA SameQueue ==
  ASSUME Types, Counted(outq), outq' = outq
  PROVE  SameBuffers
  <1>1. outq.mem_allocated \in Nat
    BY BuffersSized, CountsAreNat DEF Types
  <1> QED BY <1>1 DEF SameBuffers, Types

LEMMA SameThreads == ASSUME Types, ws' = ws PROVE OnlyTold
  BY DEF OnlyTold, SameButState, SameWork, SameTask, Types

LEMMA ToldOnly ==
  ASSUME Types, NEW state \in {"IDLE", "EXIT"}, ws' = Told(state)
  PROVE  OnlyTold
  <1>1. ASSUME NEW w \in Worker PROVE ws'[w] \in WorkerRecord /\ SameButState(ws'[w], ws[w])
    <2>1. PICK x \in WorkerRecord : x = ws[w]
      BY DEF Types
    <2>2. PICK t : t = [x EXCEPT !.state = state]
      OBVIOUS
    <2>3. t \in WorkerRecord
      BY <2>2 DEF WorkerRecord
    <2>4. SameButState(t, x)
      BY <2>2 DEF SameButState, SameWork, SameTask, WorkerRecord
    <2>5. ws'[w] = t \/ ws'[w] = x
      BY <2>1, <2>2 DEF Told
    <2>6. SameButState(x, x)
      BY DEF SameButState, SameWork, SameTask
    <2> QED BY <2>1, <2>3, <2>4, <2>5, <2>6
  <1>2. ws' \in [Worker -> WorkerRecord]
    BY <1>1 DEF Told
  <1> QED BY <1>1, <1>2 DEF OnlyTold

LEMMA ThreadsKept ==
  ASSUME IInv, UNCHANGED <<setup, threads_free, threads_initialized, wl>>,
         block' \in {block, block + 1}, \A w \in Worker : SameTask(ws'[w], ws[w]),
         Fed' => Fed /\ thr' = thr /\ block' = block /\ (pc' = "start" => pc = "start" /\ ws' = ws)
  PROVE  ThreadInv'
  <1>1. /\ File' = File /\ block' \in Int /\ block \in Int /\ block <= block'
        /\ \A w : Free(w)' = Free(w) /\ Given(w)' = Given(w)
    BY DEF Free, Given, File, IInv, InputFits
  <1>2. ASSUME NEW w \in Worker PROVE ThreadSound(w)'
    <2>1. ThreadSound(w) /\ SameTask(ws'[w], ws[w]) /\ ws[w] \in WorkerRecord
      BY DEF IInv, ThreadInv, ThreadsSound, Types
    <2>2. Rests(w) => Rests(w)'
      BY <1>1, <2>1 DEF Rests, SameWork, SameTask
    <2>3. Works(w) => Works(w)'
      BY <1>1, <2>1 DEF Works, SameWork, SameTask
    <2>4. (ws[w].job)' <= block' /\ 0 <= (wl[w].d.in)' /\ ((wl[w].pc = "report")' => (ws[w].state # "RUN")')
      BY <1>1, <2>1 DEF ThreadSound, SameWork, SameTask, WorkerRecord
    <2> QED BY <1>1, <2>1, <2>2, <2>3, <2>4 DEF ThreadSound
  <1>3. FedSound'
    <2> SUFFICES ASSUME Fed' PROVE FedSound'
      BY DEF FedSound
    <2>1. /\ thr \in Worker /\ thr <= threads_initialized /\ ws[thr].job = block
          /\ ws[thr].in_filled <= File[block].in
          /\ ws[thr].in_filled < File[block].in => ws[thr].alive /\ ~Free(thr)
          /\ pc = "start" => ~Free(thr) /\ ws[thr].state = "IDLE" /\ wl[thr].pc \in {"idle", "exited"}
      BY DEF IInv, ThreadInv, FedSound
    <2>2. SameTask(ws'[thr], ws[thr])
      BY <2>1
    <2> QED BY <1>1, <2>1, <2>2 DEF FedSound, SameWork, SameTask
  <1> QED BY <1>2, <1>3 DEF ThreadInv, ThreadsSound

LEMMA QuietThreads ==
  ASSUME IInv, Quiet
  PROVE  ThreadInv'
  <1>1. \A w \in Worker : SameTask(ws'[w], ws[w])
    BY DEF Quiet, OnlyTold, SameButState, SameWork
  <1> QED BY <1>1, ThreadsKept DEF Quiet, Onward

(* Who fills what is as it was.                                            *)
LEMMA OwnedKept ==
  ASSUME IInv, outq'.active = outq.active, \A w : Given(w)' = Given(w),
         \A w \in Worker : ws'[w].job = ws[w].job
  PROVE  BufferOwned'
  <1>1. ASSUME NEW i \in DOMAIN outq.active PROVE Owned(outq.active[i])'
    <2>1. PICK b \in Buffer : b = outq.active[i]
      BY DEF IInv, Types, IsQueue
    <2>2. Owned(b) /\ (outq.active[i])' = b
      BY <2>1 DEF IInv, QueueInv, BufferOwned
    <2>3. b.worker \in Worker \cup {NoWorker}
      BY DEF Buffer
    <2>4. CASE b.finished \/ b.worker = NoWorker
      BY <2>2, <2>4 DEF Owned
    <2>5. CASE b.worker \in Worker /\ Given(b.worker) /\ ws[b.worker].job = b.job
      BY <2>2, <2>5 DEF Owned
    <2> QED BY <2>2, <2>3, <2>4, <2>5 DEF Owned
  <1> QED BY <1>1 DEF BufferOwned

LEMMA QuietQueue ==
  ASSUME IInv, Quiet
  PROVE  QueueInv'
  <1>1. /\ outq'.active = outq.active /\ threads_free' = threads_free
        /\ threads_initialized' = threads_initialized /\ wl' = wl
        /\ block \in Int /\ block' \in {block, block + 1}
    BY DEF Quiet, Onward, SameBuffers, IInv, InputFits
  <1>2. \A w \in Worker : SameButState(ws'[w], ws[w])
    BY DEF Quiet, OnlyTold
  <1>3. QueueOrdered'
    <2>1. \A i \in DOMAIN outq.active : outq.active[i] \in Buffer
      BY DEF IInv, Types, IsQueue
    <2>2. ASSUME NEW i \in DOMAIN outq.active
          PROVE  outq.active[i].job <= block' /\ (Fresh' => outq.active[i].job < block')
      <3>1. outq.active[i].job \in Int
        BY <2>1 DEF Buffer
      <3>2. outq.active[i].job <= block /\ (Fresh => outq.active[i].job < block)
        BY DEF IInv, QueueInv, QueueOrdered
      <3>3. Fresh' => (Fresh /\ block' = block) \/ block' = block + 1
        BY DEF Quiet, Onward
      <3> QED BY <1>1, <3>1, <3>2, <3>3
    <2>3. (Fed' /\ outq.active # <<>>) => outq.active[Len(outq.active)].job = block'
      BY DEF IInv, QueueInv, QueueOrdered, Quiet, Onward
    <2> QED BY <1>1, <2>2, <2>3 DEF IInv, QueueInv, QueueOrdered
  <1>4. BufferOwned'
    <2>1. \A w : Given(w)' = Given(w)
      BY <1>1 DEF Given, Free
    <2>2. \A w \in Worker : ws'[w].job = ws[w].job
      BY <1>2 DEF SameButState, SameWork, SameTask
    <2> QED BY <1>1, <2>1, <2>2, OwnedKept
  <1>5. PartialAtHead'
    <2>1. ASSUME NEW w \in Worker PROVE (Partly(w)' /\ outq.active # <<>>) => ws'[w].job <= Head(outq.active).job
      <3>1. SameButState(ws'[w], ws[w])
        BY <1>2
      <3>2. Partly(w)' => Partly(w)
        BY <1>1, <3>1 DEF Partly, SameButState
      <3> QED BY <3>1, <3>2 DEF SameButState, SameWork, SameTask, IInv, QueueInv, PartialAtHead
    <2> QED BY <1>1, <2>1 DEF PartialAtHead
  <1> QED BY <1>3, <1>4, <1>5 DEF QueueInv

LEMMA SameFilters ==
  ASSUME \A w \in Worker : SameWork(ws'[w], ws[w])
  PROVE  Filters' = Filters
  BY DEF Filters, SameWork, SameTask

LEMMA QuietMemory ==
  ASSUME IInv, Quiet
  PROVE  MemoryInv'
  <1>1. /\ setup' = setup /\ threads_free' = threads_free /\ threads_initialized' = threads_initialized
        /\ mem_in_use' = mem_in_use /\ mem_cached' = mem_cached /\ overtaken' = overtaken
        /\ Counted(outq') /\ outq'.mem_in_use = outq.mem_in_use /\ outq'.mem_allocated <= outq.mem_allocated
    BY DEF Quiet, SameBuffers
  <1>2. mem_in_use \in Int /\ mem_cached \in Int /\ outq.mem_in_use \in Nat /\ outq.mem_allocated \in Nat
        /\ outq'.mem_allocated \in Nat
    <2>1. IsQueue(outq', Buffer, Nat) /\ Counted(outq')
      BY DEF Quiet, SameBuffers
    <2>2. IsQueue(outq, Buffer, Nat) /\ Counted(outq)
      BY DEF IInv, Types, MemoryInv
    <2>3. outq'.mem_allocated \in Nat
      BY <2>1, BuffersSized, CountsAreNat
    <2>4. outq.mem_in_use \in Nat /\ outq.mem_allocated \in Nat
      BY <2>2, BuffersSized, CountsAreNat
    <2> QED BY <2>3, <2>4 DEF IInv, Types
  <1>3. Committed' => Committed /\ block' = block
    BY DEF Quiet, Onward
  <1>4. pc' # "get"
    BY DEF Quiet, Onward
  <1>5. ReadyToStart'
    BY <1>1, <1>3, <1>4 DEF IInv, MemoryInv, ReadyToStart
  <1>6. RunningFits'
    <2>1. RunningMemory' = RunningMemory
      BY <1>1 DEF RunningMemory
    <2>2. Committed' => NextBlock' = NextBlock
      BY <1>1, <1>3 DEF NextBlock, NextIn, File
    <2> QED BY <1>3, <1>4, <2>1, <2>2 DEF IInv, MemoryInv, RunningFits
  <1>7. CachedExact'
    <2>1. Filters' = Filters
      BY SameFilters DEF Quiet, OnlyTold, SameButState
    <2> QED BY <1>1, <2>1 DEF IInv, MemoryInv, CachedExact
  <1>8. pc' = "free" => seen_free' = [total |-> mem_in_use + mem_cached, free |-> threads_free]
    BY DEF Quiet, Onward
  <1>9. Behind' /\ Seen'
    <2> SUFFICES ASSUME pc' = "free"
                 PROVE  Suffixed(seen_free'.free, threads_free') /\ mem_in_use' + mem_cached' <= seen_free'.total
      BY <1>4 DEF Behind, Seen
    <2>1. seen_free'.free = threads_free /\ seen_free'.total = mem_in_use + mem_cached
      BY <1>8
    <2>2. threads_free \in Seq(Worker)
      BY DEF IInv, Types
    <2> QED BY <1>1, <1>2, <2>1, <2>2 DEF Suffixed
  <1>10. AllocatedFits'
    <2> SUFFICES ASSUME ~overtaken, ret' # "MEM_ERROR"
                 PROVE  mem_in_use' + mem_cached' + outq'.mem_allocated <= MemlimitThreading
      BY <1>1, <1>4 DEF AllocatedFits, AllocatedMemory
    <2>1. pc # "get" /\ ret # "MEM_ERROR"
      BY DEF Quiet, Onward
    <2>2. mem_in_use + mem_cached + outq.mem_allocated <= MemlimitThreading
      BY <2>1 DEF IInv, MemoryInv, AllocatedFits, AllocatedMemory
    <2> QED BY <1>1, <1>2, <2>2, StreamDecoderAssumption
  <1> QED BY <1>1, <1>5, <1>6, <1>7, <1>9, <1>10 DEF MemoryInv

LEMMA QuietTypes ==
  ASSUME IInv, Quiet
  PROVE  Types'
  <1>1. seen_free'.total \in Int /\ seen_free'.free \in Seq(Worker)
    <2>1. CASE seen_free' = seen_free
      BY <2>1 DEF IInv, Types
    <2>2. CASE seen_free' = [total |-> mem_in_use + mem_cached, free |-> threads_free]
      BY <2>2 DEF IInv, Types
    <2> QED BY <2>1, <2>2 DEF Quiet, Onward
  <1> QED BY <1>1 DEF IInv, Types, Quiet, SameBuffers, OnlyTold

LEMMA QuietStep ==
  ASSUME IInv, Quiet, InputFits', Where'
  PROVE  IInv'
  BY QuietTypes, QuietThreads, QuietQueue, QuietMemory DEF IInv

-----------------------------------------------------------------------------
(* What the application's thread does outside of the mutex.                *)

LEMMA Returns ==
  ASSUME NEW r, Return(r)
  PROVE  pc' = "app" /\ (ret' = "MEM_ERROR" => pending' = "Error")
  <1>1. ret' = "MEM_ERROR" => r = "MEM_ERROR"
    BY DEF Return, Returned
  <1>2. r = "MEM_ERROR" => pending' = "Error"
    BY DEF Return
  <1> QED BY <1>1, <1>2 DEF Return

(* The input moves from the application to the decoder.                    *)
Flows == avail' \in Nat /\ eaten' \in Nat /\ avail' + eaten' = avail + eaten

LEMMA Consumes ==
  ASSUME InputFits, NEW n \in 0 .. avail, Consume(n)
  PROVE  Flows
  BY DEF InputFits, Consume, Flows

LEMMA Stays == ASSUME InputFits, UNCHANGED flow PROVE Flows
  BY DEF InputFits, flow, Flows

LEMMA StillFits ==
  ASSUME InputFits, setup' = setup, Flows, block' \in 0 .. Len(File), AtBlock' => block' # 0,
         sequence' # "BLOCK_DIRECT_RUN" \/ UNCHANGED <<sequence, block, direct>>
  PROVE  InputFits'
  <1>1. File' = File /\ FileSize' = FileSize
    BY DEF File, FileSize, Before
  <1>2. FileSize \in Int
    BY FileSizeType DEF InputFits
  <1>3. avail' \in Nat /\ eaten' \in Nat /\ avail' + eaten' <= FileSize
    BY <1>2 DEF InputFits, Flows
  <1> QED BY <1>1, <1>3 DEF InputFits

(* Nothing that threads share is touched.                                  *)
Apart ==
  /\ UNCHANGED <<setup, outq, threads_free, threads_initialized, mem_in_use, mem_cached, wl, overtaken>>
  /\ ws' = ws \/ (pc' # "start" /\ \E state \in {"IDLE", "EXIT"} : ws' = Told(state))

LEMMA ApartStep ==
  ASSUME IInv, Apart, Onward, InputFits', Where'
  PROVE  IInv'
  <1>1. Types /\ Counted(outq)
    BY DEF IInv, MemoryInv
  <1>2. SameBuffers
    BY <1>1, SameQueue DEF Apart
  <1>3. OnlyTold
    BY <1>1, SameThreads, ToldOnly DEF Apart
  <1> QED BY <1>2, <1>3, QuietStep DEF Quiet, Apart

(* Leaving stream_decode_mt or going on in it, with the same Block at hand *)
(* or none.                                                                *)
Outside == {"STREAM_HEADER", "BLOCK_HEADER", "INDEX_WAIT_OUTPUT", "INDEX_DECODE", "STREAM_FOOTER",
            "STREAM_PADDING", "ERROR"}
Leaves == pc' = "app" /\ (ret' = "MEM_ERROR" => pending' = "Error")
GoesOn == pc' \in {"code", "read"} /\ ret' = ret

LEMMA Between ==
  ASSUME IInv, Apart, UNCHANGED <<seen_free, block>>, Flows, pc \in {"code", "after", "sleep"},
         sequence' \in Outside \/ UNCHANGED <<sequence, thr, direct>>, Leaves \/ GoesOn
  PROVE  IInv'
  <1>1. File' = File /\ InputFits /\ ret # "MEM_ERROR"
    BY DEF Apart, File, IInv, Where
  <1>2. InputFits'
    BY <1>1, StillFits DEF InputFits, Apart, AtBlock, Outside
  <1>3. Onward
    BY <1>1 DEF Onward, Fed, Fresh, Committed, Outside, Leaves, GoesOn
  <1>4. Where'
    BY <1>1 DEF Where, Leaves, GoesOn
  <1> QED BY <1>2, <1>3, <1>4, ApartStep

(* Handlers that consume one unit of input or nothing.                     *)
LEMMA TakesOneOrNone ==
  ASSUME InputFits, UNCHANGED flow \/ (avail > 0 /\ Consume(1))
  PROVE  Flows
  <1>1. PICK one : one = 1
    OBVIOUS
  <1> QED BY <1>1, Consumes, Stays DEF InputFits

LEMMA StreamHeaderStep == ASSUME IInv, StreamHeader PROVE IInv'
  <1>1. /\ Apart /\ UNCHANGED <<seen_free, block>> /\ pc = "code" /\ sequence' \in Outside
    BY DEF StreamHeader, Apart, kept, locals, shared, hist, Outside
  <1>2. avail \in Nat /\ InputFits
    BY DEF IInv, InputFits
  <1>3. UNCHANGED flow \/ (avail > 0 /\ Consume(1))
    BY <1>2 DEF StreamHeader
  <1>4. Return("OK") \/ Return("GET_CHECK") \/ Return("DATA_ERROR") \/ GoTo("code")
    BY DEF StreamHeader
  <1>5. Leaves \/ GoesOn
    BY <1>4, Returns DEF GoTo, call, Leaves, GoesOn
  <1> QED BY <1>1, <1>2, <1>3, <1>5, TakesOneOrNone, Between

LEMMA IndexDecodeStep == ASSUME IInv, IndexDecode PROVE IInv'
  <1>1. /\ Apart /\ UNCHANGED <<seen_free, block>> /\ pc = "code" /\ sequence' \in Outside
    BY DEF IndexDecode, Apart, kept, locals, shared, hist, Outside
  <1>2. avail \in Nat /\ InputFits
    BY DEF IInv, InputFits
  <1>3. UNCHANGED flow \/ (avail > 0 /\ Consume(1))
    BY <1>2 DEF IndexDecode
  <1>4. Return("OK") \/ Return("DATA_ERROR") \/ GoTo("code")
    BY DEF IndexDecode
  <1>5. Leaves \/ GoesOn
    BY <1>4, Returns DEF GoTo, call, Leaves, GoesOn
  <1> QED BY <1>1, <1>2, <1>3, <1>5, TakesOneOrNone, Between

LEMMA StreamFooterStep == ASSUME IInv, StreamFooter PROVE IInv'
  <1>1. /\ Apart /\ UNCHANGED <<seen_free, block>> /\ pc = "code" /\ sequence' \in Outside
    BY DEF StreamFooter, Apart, kept, locals, shared, hist, Outside
  <1>2. avail \in Nat /\ InputFits
    BY DEF IInv, InputFits
  <1>3. UNCHANGED flow \/ (avail > 0 /\ Consume(1))
    BY <1>2 DEF StreamFooter
  <1>4. Return("OK") \/ Return("DATA_ERROR") \/ Return("STREAM_END") \/ GoTo("code")
    BY DEF StreamFooter
  <1>5. Leaves \/ GoesOn
    BY <1>4, Returns DEF GoTo, call, Leaves, GoesOn
  <1> QED BY <1>1, <1>2, <1>3, <1>5, TakesOneOrNone, Between

LEMMA StreamPaddingStep == ASSUME IInv, StreamPadding PROVE IInv'
  <1>1. /\ Apart /\ UNCHANGED <<seen_free, block>> /\ pc = "code" /\ sequence' \in Outside
    BY DEF StreamPadding, Apart, kept, locals, shared, hist, Outside
  <1>2. avail \in Nat /\ InputFits
    BY DEF IInv, InputFits
  <1>3. UNCHANGED flow \/ (avail > 0 /\ Consume(1))
    BY <1>2 DEF StreamPadding
  <1>4. Return("OK") \/ Return("DATA_ERROR") \/ Return("STREAM_END") \/ GoTo("code")
    BY DEF StreamPadding
  <1>5. Leaves \/ GoesOn
    BY <1>4, Returns DEF GoTo, call, Leaves, GoesOn
  <1> QED BY <1>1, <1>2, <1>3, <1>5, TakesOneOrNone, Between

LEMMA WaitFirstStep == ASSUME IInv, WaitFirst PROVE IInv'
  <1>1. /\ Apart /\ UNCHANGED <<seen_free, block, sequence, thr, direct>> /\ pc = "code"
        /\ GoesOn /\ UNCHANGED flow
    BY DEF WaitFirst, EnterWait, GoTo, call, Apart, coder, kept, shared, hist, GoesOn
  <1> QED BY <1>1, Stays, Between DEF IInv

LEMMA ErrorNowStep == ASSUME IInv, ErrorNow PROVE IInv'
  <1>1. /\ Apart /\ UNCHANGED <<seen_free, block, sequence, thr, direct>> /\ pc = "code"
        /\ Leaves /\ UNCHANGED flow
    BY Returns DEF ErrorNow, Apart, coder, kept, locals, shared, hist, Leaves
  <1> QED BY <1>1, Stays, Between DEF IInv

LEMMA TimeOutStep == ASSUME IInv, TimeOut PROVE IInv'
  <1>1. /\ Apart /\ UNCHANGED <<seen_free, block, sequence, thr, direct>> /\ pc = "sleep"
        /\ Leaves /\ UNCHANGED flow
    BY Returns DEF TimeOut, Apart, coder, kept, locals, shared, hist, Leaves
  <1> QED BY <1>1, Stays, Between DEF IInv

(* The next Block's header. That the file ends with an Index keeps it from *)
(* being looked for behind the last Block.                                 *)
LEMMA MoreBlocks ==
  ASSUME InputFits, avail > 0, ~AtIndex
  PROVE  block + 1 \in 0 .. Len(File)
  <1> SUFFICES ASSUME block = Len(File) PROVE FALSE
    BY FileType DEF InputFits
  <1>1. block > 0 /\ File[block].last
    BY FileType DEF InputFits
  <1>2. PICK size \in Int : size = Before(block + 1)
    BY FileSizeType DEF InputFits
  <1>3. FileSize = size - 1
    BY <1>2 DEF FileSize
  <1>4. eaten < size
    BY <1>2, <1>3 DEF InputFits
  <1> QED BY <1>1, <1>2, <1>4 DEF AtIndex

LEMMA BlockHeaderStep == ASSUME IInv, BlockHeader PROVE IInv'
  <1>1. /\ UNCHANGED <<setup, outq, threads_free, threads_initialized, mem_in_use, mem_cached, wl, overtaken>>
        /\ UNCHANGED <<seen_free, thr, direct>> /\ pc = "code" /\ sequence = "BLOCK_HEADER"
    BY DEF BlockHeader, EnterWait, locals, shared, hist
  <1>2. avail \in Nat /\ InputFits /\ ret # "MEM_ERROR"
    BY <1>1 DEF IInv, InputFits, Where
  <1>3. CASE avail = 0
    <2>1. UNCHANGED <<block, sequence>> /\ UNCHANGED flow
      BY <1>2, <1>3 DEF BlockHeader
    <2>2. Apart /\ (Leaves \/ GoesOn)
      <3>1. CASE CutOff
        BY <1>1, <1>3, <3>1, Returns DEF BlockHeader, StopAndFail, Apart, Leaves
      <3>2. CASE ~CutOff
        BY <1>1, <1>3, <3>2 DEF BlockHeader, EnterWait, GoTo, call, Apart, GoesOn
      <3> QED BY <3>1, <3>2
    <2> QED BY <1>1, <1>2, <2>1, <2>2, Stays, Between
  <1>4. CASE avail > 0 /\ AtIndex
    <2>1. UNCHANGED <<block, ws>> /\ UNCHANGED flow /\ GoTo("code") /\ sequence' \in Outside
      BY <1>2, <1>4 DEF BlockHeader, Outside
    <2> QED BY <1>1, <1>2, <2>1, Stays, Between DEF Apart, GoesOn, GoTo, call
  <1>5. CASE avail > 0 /\ ~AtIndex
    <2>1. /\ Consume(1) /\ block' = block + 1 /\ GoTo("code") /\ UNCHANGED ws
          /\ sequence' \in {"ERROR", "BLOCK_INIT"}
      BY <1>2, <1>5 DEF BlockHeader
    <2>2. Apart /\ Flows
      BY <1>1, <1>2, <1>5, <2>1, TakesOneOrNone DEF Apart
    <2>3. block \in Nat /\ block' \in 0 .. Len(File)
      BY <1>2, <1>5, <2>1, MoreBlocks DEF InputFits
    <2>4. InputFits'
      <3>1. block' # 0
        BY <2>1, <2>3
      <3> QED BY <1>1, <1>2, <2>1, <2>2, <2>3, <3>1, StillFits
    <2>5. Onward
      BY <1>1, <1>2, <2>1, <2>3 DEF Onward, Fed, Fresh, Committed, GoTo
    <2>6. Where'
      BY <1>2, <2>1 DEF Where, GoTo, call
    <2> QED BY <2>2, <2>4, <2>5, <2>6, ApartStep
  <1> QED BY <1>2, <1>3, <1>4, <1>5

LEMMA BlockInitStep == ASSUME IInv, BlockInit PROVE IInv'
  <1>1. Apart /\ UNCHANGED <<seen_free, thr, block, flow>> /\ pc = "code" /\ sequence = "BLOCK_INIT"
    BY DEF BlockInit, EnterWait, Apart, locals, shared, hist
  <1>2. InputFits /\ ret # "MEM_ERROR" /\ Flows
    BY <1>1, Stays DEF IInv, Where
  <1>3. CASE TooBig
    <2>1. UNCHANGED <<sequence, thr, direct>> /\ GoesOn
      BY <1>1, <1>3 DEF BlockInit, EnterWait, GoTo, call, GoesOn
    <2> QED BY <1>1, <1>2, <2>1, Between
  <1>4. CASE ~TooBig
    <2>1. sequence' \in {"BLOCK_THR_INIT", "BLOCK_DIRECT_INIT", "ERROR"} /\ GoTo("code")
      BY <1>4 DEF BlockInit
    <2>2. InputFits'
      <3>1. block \in 0 .. Len(File) /\ block # 0
        BY <1>1, <1>2 DEF InputFits, AtBlock
      <3> QED BY <1>1, <1>2, <2>1, <3>1, StillFits DEF Apart
    <2>3. Onward
      BY <1>1, <1>2, <2>1 DEF Onward, Fed, Fresh, Committed, GoTo
    <2>4. Where'
      BY <1>2, <2>1 DEF Where, GoTo, call
    <2> QED BY <1>1, <2>2, <2>3, <2>4, ApartStep
  <1> QED BY <1>3, <1>4

LEMMA BlockDirectRunStep == ASSUME IInv, BlockDirectRun PROVE IInv'
  <1>1. /\ Apart /\ UNCHANGED <<seen_free, thr, block>> /\ pc = "code"
        /\ sequence = "BLOCK_DIRECT_RUN"
    BY DEF BlockDirectRun, Apart, locals, shared, hist
  <1>2. InputFits /\ ret # "MEM_ERROR" /\ avail \in Nat /\ eaten \in Nat /\ avail + eaten <= FileSize
    BY <1>1 DEF IInv, Where, InputFits
  <1>3. /\ block \in DOMAIN File /\ direct.in \in 0 .. File[block].in
        /\ direct = [in |-> direct.in, out |-> direct.out, mem |-> direct.mem]
    BY <1>1, <1>2, FileType DEF InputFits, AtBlock
  <1>4. PICK b : b = File[block]
    OBVIOUS
  <1>5. b.in \in Nat \ {0}
    BY <1>2, <1>3, <1>4, FileType DEF InputFits
  <1>6. PICK c \in Coded(b, direct, avail, space) :
          /\ direct' = [direct EXCEPT !.in = c.d.in, !.out = c.d.out]
          /\ avail' = avail - (c.d.in - direct.in) /\ eaten' = eaten + (c.d.in - direct.in)
          /\ \/ sequence' = "BLOCK_HEADER" /\ GoTo("code")
             \/ (Return(c.ret) \/ Return("DATA_ERROR")) /\ UNCHANGED sequence
    BY <1>4 DEF BlockDirectRun
  <1>7. c.d.in \in direct.in .. b.in /\ c.d.in <= direct.in + avail
    BY <1>2, <1>3, <1>4, <1>5, CodedTakes
  <1>8. Flows
    BY <1>2, <1>3, <1>5, <1>6, <1>7 DEF Flows
  <1>9. direct' = [in |-> direct'.in, out |-> direct'.out, mem |-> direct'.mem] /\ direct'.in = c.d.in
    <2>1. PICK i, o, m : direct = [in |-> i, out |-> o, mem |-> m]
      BY <1>3
    <2> QED BY <1>6, <2>1
  <1>10. CASE sequence' = "BLOCK_HEADER" /\ GoTo("code")
    BY <1>1, <1>8, <1>10, Between DEF Outside, GoesOn, GoTo, call
  <1>11. CASE (Return(c.ret) \/ Return("DATA_ERROR")) /\ UNCHANGED sequence
    <2>1. sequence' = sequence /\ Leaves
      BY <1>11, Returns DEF Leaves
    <2>2. InputFits'
      <3>1. File' = File /\ FileSize' = FileSize /\ setup' \in Setups
        BY <1>1, <1>2 DEF File, FileSize, Before, Apart, InputFits
      <3>2. avail' + eaten' <= FileSize /\ avail' \in Nat /\ eaten' \in Nat
        BY <1>2, <1>8 DEF Flows
      <3>3. direct'.in \in 0 .. File[block].in
        BY <1>3, <1>4, <1>5, <1>7, <1>9
      <3> QED BY <1>1, <1>2, <1>9, <2>1, <3>1, <3>2, <3>3 DEF InputFits, AtBlock
    <2>3. Onward
      BY <1>1, <1>2, <2>1 DEF Onward, Fed, Fresh, Committed, Leaves
    <2>4. Where'
      BY <2>1 DEF Where, Leaves
    <2> QED BY <1>1, <2>2, <2>3, <2>4, ApartStep
  <1> QED BY <1>6, <1>10, <1>11

LEMMA AfterWaitStep == ASSUME IInv, AfterWait PROVE IInv'
  <1>1. /\ Apart /\ UNCHANGED <<seen_free, block, direct, can_start, flow>> /\ pc = "after"
    BY DEF AfterWait, Apart, locals, shared, hist
  <1>2. InputFits /\ ret # "MEM_ERROR" /\ Flows
    BY <1>1, Stays DEF IInv, Where
  <1>3. CASE sequence' \in Outside
    <2>1. GoTo("code") \/ Return("OK") \/ Return(pending_error)
      BY <1>3 DEF AfterWait, Outside
    <2> QED BY <1>1, <1>2, <1>3, <2>1, Returns, Between DEF Leaves, GoesOn, GoTo, call
  <1>4. CASE sequence' \notin Outside
    <2>1. /\ UNCHANGED <<sequence, thr>>
          /\ \/ Return("OK") \/ Return("MEMLIMIT_ERROR")
             \/ GoTo("plan") /\ can_start /\ sequence = "BLOCK_THR_INIT"
             \/ GoTo("direct") /\ sequence = "BLOCK_DIRECT_INIT" /\ IsEmpty(outq)
      BY <1>4 DEF AfterWait, Outside
    <2>2. CASE Return("OK") \/ Return("MEMLIMIT_ERROR")
      BY <1>1, <1>2, <2>1, <2>2, Returns, Between DEF Leaves
    <2>3. CASE GoTo("plan") /\ can_start /\ sequence = "BLOCK_THR_INIT"
      <3>1. Onward
        BY <1>1, <1>2, <2>1, <2>3 DEF Onward, Fed, Fresh, Committed, GoTo, call
      <3>2. Where'
        BY <1>2, <2>1, <2>3 DEF Where, GoTo, call
      <3>3. InputFits'
        BY <1>1, <1>2, <2>1, StillFits DEF InputFits, Apart, AtBlock
      <3> QED BY <1>1, <3>1, <3>2, <3>3, ApartStep
    <2>4. CASE GoTo("direct") /\ sequence = "BLOCK_DIRECT_INIT" /\ IsEmpty(outq)
      <3>1. Onward
        BY <1>1, <1>2, <2>1, <2>4 DEF Onward, Fed, Fresh, Committed, GoTo, call
      <3>2. Where'
        BY <1>1, <1>2, <2>1, <2>4 DEF Where, GoTo, call, IsEmpty, Apart
      <3>3. InputFits'
        BY <1>1, <1>2, <2>1, StillFits DEF InputFits, Apart, AtBlock
      <3> QED BY <1>1, <3>1, <3>2, <3>3, ApartStep
    <2> QED BY <2>1, <2>2, <2>3, <2>4
  <1> QED BY <1>3, <1>4

LEMMA PlanRoomStep == ASSUME IInv, PlanRoom PROVE IInv'
  <1>1. /\ Apart /\ pc = "plan" /\ GoTo("free") /\ UNCHANGED <<sequence, block, direct, thr>>
        /\ UNCHANGED flow
        /\ seen_free' = [total |-> mem_in_use + mem_cached, free |-> threads_free]
    BY DEF PlanRoom, Apart, shared, hist, coder, kept
  <1>2. InputFits /\ ret # "MEM_ERROR" /\ Flows /\ sequence = "BLOCK_THR_INIT"
    BY <1>1, Stays DEF IInv, Where
  <1>3. Onward
    BY <1>1, <1>2 DEF Onward, Fed, Fresh, Committed, GoTo, call
  <1>4. Where'
    BY <1>1, <1>2 DEF Where, GoTo, call
  <1>5. InputFits'
    BY <1>1, <1>2, StillFits DEF InputFits, Apart, AtBlock
  <1> QED BY <1>1, <1>3, <1>4, <1>5, ApartStep

LEMMA CallStep == ASSUME IInv, Call PROVE IInv'
  <1>1. /\ Apart /\ pc = "app" /\ pc' = "code" /\ UNCHANGED <<sequence, block, direct, thr>>
        /\ UNCHANGED <<ret, eaten, seen_free>> /\ pending # "Error"
    BY DEF Call, Apart, shared, kept
  <1>2. InputFits /\ ret # "MEM_ERROR"
    BY <1>1 DEF IInv, Where
  <1>3. avail \in Nat /\ eaten \in Nat /\ avail + eaten <= FileSize /\ FileSize \in Int
        /\ setup.offers \subseteq Nat
    BY <1>2, FileType, FileSizeType DEF InputFits
  <1>4. avail' \in Nat /\ avail' <= Rest
    <2>1. CASE \E more \in setup.offers : avail' = avail + more /\ avail' <= Rest
      BY <1>3, <2>1
    <2>2. CASE avail' \in {Rest, avail}
      BY <1>3, <2>2 DEF Rest
    <2> QED BY <2>1, <2>2 DEF Call
  <1>5. File' = File /\ FileSize' = FileSize
    BY <1>1 DEF Apart, File, FileSize, Before
  <1>6. InputFits'
    <2>1. PICK size \in Int, had \in Nat : size = FileSize /\ had = eaten
      BY <1>3
    <2>2. PICK has \in Nat : has = avail'
      BY <1>4
    <2>3. has <= size - had
      BY <1>4, <2>1, <2>2 DEF Rest
    <2>4. has + had <= size
      BY <2>3
    <2>5. avail' + eaten' <= FileSize /\ eaten' \in Nat
      BY <1>1, <2>1, <2>2, <2>4
    <2> QED BY <1>1, <1>2, <1>4, <1>5, <2>5 DEF InputFits, Apart, AtBlock
  <1>7. Onward
    BY <1>1, <1>2 DEF Onward, Fed, Fresh, Committed
  <1>8. Where'
    BY <1>1, <1>2 DEF Where
  <1> QED BY <1>1, <1>6, <1>7, <1>8, ApartStep

LEMMA SetMemlimitStep == ASSUME IInv, SetMemlimit PROVE IInv'
  <1>1. /\ Apart /\ pc = "app" /\ pc' = "app" /\ UNCHANGED <<sequence, block, direct, thr>>
        /\ UNCHANGED <<ret, pending, seen_free>> /\ UNCHANGED flow /\ pending # "Error"
    BY DEF SetMemlimit, Apart, shared, hist, locals, call
  <1>2. InputFits /\ ret # "MEM_ERROR" /\ Flows
    BY <1>1, Stays DEF IInv, Where
  <1>3. Onward
    BY <1>1, <1>2 DEF Onward, Fed, Fresh, Committed
  <1>4. Where'
    BY <1>1, <1>2 DEF Where
  <1>5. InputFits'
    BY <1>1, <1>2, StillFits DEF InputFits, Apart, AtBlock
  <1> QED BY <1>1, <1>3, <1>4, <1>5, ApartStep

LEMMA EndStep == ASSUME IInv, End PROVE IInv'
  <1>1. /\ Apart /\ pc = "app" /\ pc' = "join" /\ UNCHANGED <<sequence, block, direct, thr>>
        /\ UNCHANGED <<ret, pending, seen_free>> /\ UNCHANGED flow
    BY DEF End, GoTo, Apart, shared, hist, locals, call, coder, kept
  <1>2. InputFits /\ Flows
    BY <1>1, Stays DEF IInv
  <1>3. Onward
    BY <1>1, <1>2 DEF Onward, Fed, Fresh, Committed
  <1>4. Where'
    BY <1>1 DEF Where, IInv
  <1>5. InputFits'
    BY <1>1, <1>2, StillFits DEF InputFits, Apart, AtBlock
  <1> QED BY <1>1, <1>3, <1>4, <1>5, ApartStep

(* The queue's cache and the threads go before direct mode.                *)
LEMMA GoDirectStep == ASSUME IInv, GoDirect PROVE IInv'
  <1>1. /\ UNCHANGED <<setup, threads_free, threads_initialized, mem_in_use, mem_cached, wl, overtaken>>
        /\ pc = "direct" /\ pc' = "joindirect" /\ UNCHANGED <<sequence, block, direct, thr>>
        /\ UNCHANGED <<ret, pending, seen_free>> /\ UNCHANGED flow
        /\ outq' = ClearCache(outq) /\ ws' = Told("EXIT")
    BY DEF GoDirect, GoTo, hist, locals, call, coder, kept
  <1>2. /\ InputFits /\ Flows /\ ret # "MEM_ERROR" /\ sequence = "BLOCK_DIRECT_INIT"
        /\ outq.active = <<>>
    BY <1>1, Stays DEF IInv, Where
  <1>3. IsQueue(outq, Buffer, Nat) /\ Counted(outq)
    BY DEF IInv, Types, MemoryInv
  <1>4. SameBuffers /\ outq'.cache = <<>>
    <2>1. Counted(outq') /\ outq'.mem_allocated = outq.mem_in_use
      BY <1>1, <1>3, BuffersSized, ClearCounted
    <2>2. IsQueue(outq', Buffer, Nat) /\ outq'.active = outq.active
          /\ outq'.mem_in_use = outq.mem_in_use /\ outq'.cache = <<>>
      BY <1>1, <1>3, ClearedCache
    <2>3. outq.mem_in_use \in Nat /\ UsageOf(outq.cache) \in Nat
      BY <1>3, BuffersSized, CountsAreNat
    <2>4. outq.mem_allocated = outq.mem_in_use + UsageOf(outq.cache)
      BY <1>3 DEF Counted
    <2>5. outq'.mem_allocated <= outq.mem_allocated
      BY <2>1, <2>3, <2>4
    <2> QED BY <2>1, <2>2, <2>5 DEF SameBuffers
  <1>5. OnlyTold
    BY <1>1, ToldOnly DEF IInv
  <1>6. Onward
    BY <1>1, <1>2 DEF Onward, Fed, Fresh, Committed
  <1>7. Where'
    BY <1>1, <1>2, <1>4 DEF Where, SameBuffers
  <1>8. InputFits'
    BY <1>1, <1>2, StillFits DEF InputFits, AtBlock
  <1> QED BY <1>1, <1>4, <1>5, <1>6, <1>7, <1>8, QuietStep DEF Quiet

LEMMA NoMemoryStep ==
  ASSUME IInv, GetThread,
         UNCHANGED <<outq, threads_free, mem_cached, thr, threads_initialized, flow, overtaken>>,
         StopAndFail("MEM_ERROR")
  PROVE  IInv'
  <1>1. /\ Apart /\ pc = "get" /\ pc' = "app" /\ UNCHANGED <<sequence, block, direct, thr>>
        /\ UNCHANGED seen_free /\ UNCHANGED flow /\ ret' = "MEM_ERROR" /\ pending' = "Error"
    BY DEF GetThread, StopAndFail, Return, Returned, Apart, locals
  <1>2. InputFits /\ Flows /\ ret # "MEM_ERROR"
    BY <1>1, Stays DEF IInv, Where
  <1>3. Onward
    BY <1>1, <1>2 DEF Onward, Fed, Fresh, Committed
  <1>4. Where'
    BY <1>1 DEF Where
  <1>5. InputFits'
    BY <1>1, <1>2, StillFits DEF InputFits, Apart, AtBlock
  <1> QED BY <1>1, <1>3, <1>4, <1>5, ApartStep

-----------------------------------------------------------------------------
(* Input for a thread; and what the threads do.                            *)

(* Nothing of what the application's thread has or does changes.           *)
LEMMA InputKept ==
  ASSUME InputFits, UNCHANGED <<setup, block, sequence, avail, eaten, direct>>
  PROVE  InputFits'
  <1>1. File' = File /\ FileSize' = FileSize
    BY DEF File, FileSize, Before
  <1> QED BY <1>1 DEF InputFits, AtBlock

LEMMA FedTyped ==
  ASSUME IInv, Fed
  PROVE  /\ block \in DOMAIN File /\ File[block].in \in Nat \ {0}
         /\ thr \in Worker /\ ws[thr] \in WorkerRecord /\ wl[thr] \in ThreadRecord
  <1>1. block \in 0 .. Len(File) /\ block # 0
    BY DEF IInv, InputFits, Where, Fed, AtBlock
  <1>2. block \in DOMAIN File /\ File[block].in \in Nat \ {0}
    BY <1>1, FileType DEF IInv, InputFits
  <1>3. thr \in Worker
    BY DEF IInv, ThreadInv, FedSound
  <1> QED BY <1>2, <1>3 DEF IInv, Types

LEMMA BlockThrRunStep == ASSUME IInv, BlockThrRun PROVE IInv'
  <1>1. /\ UNCHANGED <<setup, outq, threads_free, threads_initialized, mem_in_use, mem_cached, wl, overtaken>>
        /\ UNCHANGED <<sequence, block, thr, direct>> /\ pc = "code" /\ sequence = "BLOCK_THR_RUN"
    BY DEF BlockThrRun, coder, kept, shared, hist
  <1>2. InputFits /\ ret # "MEM_ERROR" /\ Fed
    BY <1>1 DEF IInv, Where, Fed
  <1>3. CASE CutOff /\ avail < Wanted
    <2>1. UNCHANGED flow /\ seen_free' = seen_free /\ StopAndFail("DATA_ERROR")
      BY <1>3 DEF BlockThrRun, locals
    <2>2. Apart /\ Leaves
      BY <1>1, <2>1, Returns DEF Apart, StopAndFail, Leaves
    <2> QED BY <1>1, <1>2, <2>1, <2>2, Stays, Between
  <1>4. CASE ~(CutOff /\ avail < Wanted)
    <2>1. PICK n : n = SmallerOf(Wanted, avail)
      OBVIOUS
    <2>2. /\ ws' = [ws EXCEPT ![thr].in_filled = @ + n] /\ Consume(n)
          /\ pc' = "read" /\ UNCHANGED <<call, seen_free, waiting_allowed>>
      BY <1>4, <2>1 DEF BlockThrRun, EnterWait, GoTo
    <2>3. /\ block \in DOMAIN File /\ File[block].in \in Nat \ {0}
          /\ thr \in Worker /\ ws[thr] \in WorkerRecord
      BY <1>2, FedTyped
    <2>4. PICK x \in WorkerRecord : x = ws[thr]
      BY <2>3
    <2>5. x.in_filled \in Nat /\ x.in_filled <= File[block].in /\ x.job = block /\ thr <= threads_initialized
      BY <1>2, <2>4 DEF IInv, ThreadInv, FedSound, WorkerRecord
    <2>6. n \in 0 .. avail /\ n <= File[block].in - x.in_filled /\ avail \in Nat
      BY <1>2, <2>1, <2>3, <2>4, <2>5 DEF Wanted, SmallerOf, InputFits
    <2>7. PICK y : y = [x EXCEPT !.in_filled = @ + n]
      OBVIOUS
    <2>8. /\ y \in WorkerRecord /\ y.in_filled = x.in_filled + n /\ y.state = x.state /\ y.job = x.job
          /\ y.alive = x.alive /\ y.partial = x.partial /\ y.mem_filters = x.mem_filters
      BY <2>5, <2>6, <2>7 DEF WorkerRecord
    <2>9. ws' = [ws EXCEPT ![thr] = y]
      BY <2>2, <2>3, <2>4, <2>7 DEF IInv, Types
    <2>10. /\ ws' \in [Worker -> WorkerRecord] /\ ws'[thr] = y
           /\ \A w \in Worker : w # thr => ws'[w] = ws[w]
      BY <2>3, <2>8, <2>9 DEF IInv, Types
    <2>11. Flows
      BY <1>2, <2>2, <2>6, Consumes
    <2>12. InputFits'
      BY <1>1, <1>2, <2>11, StillFits DEF InputFits, AtBlock
    <2>13. File' = File /\ \A w : Free(w)' = Free(w) /\ Given(w)' = Given(w)
      BY <1>1 DEF File, Free, Given
    <2>14. ThreadsSound'
      <3>1. ASSUME NEW w \in Worker PROVE ThreadSound(w)'
        <4>1. ThreadSound(w)
          BY DEF IInv, ThreadInv, ThreadsSound
        <4>2. CASE w # thr
          <5>1. Rests(w)' = Rests(w) /\ Works(w)' = Works(w)
            BY <1>1, <2>10, <2>13, <4>2 DEF Rests, Works
          <5> QED BY <1>1, <2>10, <2>13, <4>1, <4>2, <5>1 DEF ThreadSound
        <4>3. CASE w = thr
          <5>1. ws[w] = x /\ (ws[w])' = y /\ (wl[w])' = wl[w] /\ wl[w] \in ThreadRecord
            BY <1>1, <2>4, <2>10, <4>3 DEF IInv, Types
          <5>2. Rests(w) => Rests(w)'
            BY <2>8, <5>1 DEF Rests
          <5>3. Works(w) => Works(w)'
            <6>1. wl[w].d.in \in Int /\ wl[w].seen \in Int
              BY <5>1 DEF ThreadRecord
            <6>2. y.job = x.job /\ y.in_filled <= File[x.job].in /\ x.in_filled <= y.in_filled
                  /\ x.in_filled \in Int /\ y.in_filled \in Int
              BY <2>3, <2>5, <2>6, <2>8
            <6> QED BY <2>13, <5>1, <6>1, <6>2 DEF Works
          <5> QED BY <1>1, <2>8, <2>13, <4>1, <5>1, <5>2, <5>3 DEF ThreadSound
        <4> QED BY <4>2, <4>3
      <3> QED BY <3>1 DEF ThreadsSound
    <2>15. FedSound'
      <3>1. ws[thr].in_filled < File[block].in => ws[thr].alive /\ ~Free(thr)
        BY <1>2 DEF IInv, ThreadInv, FedSound
      <3>2. y.in_filled <= File[block].in /\ (y.in_filled < File[block].in => x.in_filled < File[block].in)
        BY <2>3, <2>5, <2>6, <2>8
      <3> QED BY <1>1, <2>2, <2>3, <2>4, <2>5, <2>8, <2>10, <2>13, <3>1, <3>2 DEF FedSound
    <2>16. QueueInv'
      <3>1. Fed' = Fed /\ Fresh' = Fresh
        BY <1>1, <2>2 DEF Fed, Fresh
      <3>2. QueueOrdered'
        BY <1>1, <3>1 DEF IInv, QueueInv, QueueOrdered
      <3>3. \A w \in Worker : ws'[w].job = ws[w].job /\ Partly(w)' = Partly(w)
        BY <1>1, <2>4, <2>8, <2>10 DEF Partly
      <3>4. BufferOwned'
        BY <1>1, <2>13, <3>3, OwnedKept
      <3>5. PartialAtHead'
        BY <1>1, <3>3 DEF IInv, QueueInv, PartialAtHead
      <3> QED BY <3>2, <3>4, <3>5 DEF QueueInv
    <2>17. MemoryInv'
      <3>1. Filters' = Filters
        BY <2>4, <2>8, <2>10 DEF Filters
      <3>2. ~Committed' /\ pc # "get" /\ ret' = ret
        BY <1>1, <2>2 DEF Committed, call
      <3> QED BY <1>1, <1>2, <2>2, <3>1, <3>2
            DEF IInv, MemoryInv, ReadyToStart, RunningFits, CachedExact, Behind, Seen, AllocatedFits,
                RunningMemory, AllocatedMemory
    <2>18. Types' /\ Where'
      BY <1>1, <1>2, <2>2, <2>10 DEF IInv, Types, Where, call
    <2> QED BY <2>12, <2>14, <2>15, <2>16, <2>17, <2>18 DEF IInv, ThreadInv
  <1> QED BY <1>3, <1>4

-----------------------------------------------------------------------------
(* read_output_and_wait.                                                   *)

(* Buffers leave at the head; what stays keeps its Block, and may finish   *)
(* or be forgotten by whoever fills it.                                    *)
Keeps(c, d) == c.job = d.job /\ (c.finished \/ (~d.finished /\ c.worker \in {d.worker, NoWorker}))
Drops(a, b) ==
  /\ a \in Seq(Buffer) /\ Len(a) <= Len(b)
  /\ \A i \in 1 .. Len(a) : Keeps(a[i], b[Len(b) - Len(a) + i])

LEMMA DropsNone == ASSUME NEW a \in Seq(Buffer) PROVE Drops(a, a)
  <1>1. \A i \in 1 .. Len(a) : a[i] \in Buffer
    OBVIOUS
  <1> QED BY <1>1 DEF Drops, Keeps, Buffer

LEMMA DropsOne == ASSUME NEW a \in Seq(Buffer), a # <<>> PROVE Drops(Tail(a), a)
  <1>1. Len(a) \in Nat /\ Len(a) # 0
    OBVIOUS
  <1>2. PICK n \in Nat : n = Len(a)
    BY <1>1
  <1>3. Tail(a) \in Seq(Buffer) /\ Len(Tail(a)) = Len(a) - 1
    OBVIOUS
  <1>4. PICK t \in Seq(Buffer) : t = Tail(a)
    BY <1>3
  <1>5. Len(t) = n - 1 /\ n > 0
    BY <1>1, <1>2, <1>3, <1>4
  <1>6. ASSUME NEW i \in 1 .. n - 1 PROVE Keeps(t[i], a[n - (n - 1) + i])
    <2>1. n - (n - 1) + i = i + 1 /\ i + 1 \in 1 .. n
      OBVIOUS
    <2>2. a[i + 1] \in Buffer
      BY <1>2, <2>1
    <2>3. t[i] = a[i + 1]
      BY <1>2, <1>4
    <2> QED BY <2>1, <2>2, <2>3 DEF Keeps, Buffer
  <1> QED BY <1>2, <1>4, <1>5, <1>6 DEF Drops

LEMMA OrderKept ==
  ASSUME IInv, block' = block, Drops(outq'.active, outq.active), Fed' => Fed, Fresh' => Fresh
  PROVE  QueueOrdered'
  <1>1. PICK a \in Seq(Buffer) : a = outq'.active
    BY DEF Drops
  <1>2. PICK b \in Seq(Buffer) : b = outq.active
    BY DEF IInv, Types, IsQueue
  <1>3. Drops(a, b)
    BY <1>1, <1>2
  <1>4. Len(a) \in Nat /\ Len(b) \in Nat /\ Len(a) <= Len(b)
    BY <1>3 DEF Drops
  <1>5. PICK k \in Nat : k = Len(b) - Len(a)
    BY <1>4
  <1>6. \A i \in 1 .. Len(a) : a[i].job = b[k + i].job
    BY <1>3, <1>5 DEF Drops, Keeps
  <1>7. \A i \in 1 .. Len(a) : k + i \in 1 .. Len(b) /\ a[i].job = b[k + i].job
    BY <1>4, <1>5, <1>6
  <1>8. /\ \A i \in 1 .. Len(b) : b[i].job <= block /\ (Fresh => b[i].job < block)
        /\ \A i, j \in 1 .. Len(b) : i < j => b[i].job < b[j].job
        /\ (Fed /\ b # <<>>) => b[Len(b)].job = block
    BY <1>2 DEF IInv, QueueInv, QueueOrdered
  <1>9. \A i \in 1 .. Len(a) : a[i].job <= block /\ (Fresh' => a[i].job < block)
    BY <1>7, <1>8
  <1>10. \A i, j \in 1 .. Len(a) : i < j => a[i].job < a[j].job
    BY <1>7, <1>8
  <1>11. (Fed' /\ a # <<>>) => a[Len(a)].job = block
    <2> SUFFICES ASSUME Fed', a # <<>> PROVE a[Len(a)].job = block
      OBVIOUS
    <2>1. Len(a) \in 1 .. Len(a) /\ k + Len(a) = Len(b) /\ b # <<>>
      BY <1>5
    <2> QED BY <1>7, <1>8, <2>1
  <1> QED BY <1>1, <1>9, <1>10, <1>11 DEF QueueOrdered

LEMMA OwnersKept ==
  ASSUME IInv, Drops(outq'.active, outq.active), \A w \in Worker : Given(w) => Given(w)',
         \A w \in Worker : ws'[w].job = ws[w].job
  PROVE  BufferOwned'
  <1>1. PICK a \in Seq(Buffer) : a = outq'.active
    BY DEF Drops
  <1>2. PICK b \in Seq(Buffer) : b = outq.active
    BY DEF IInv, Types, IsQueue
  <1>3. ASSUME NEW i \in 1 .. Len(a) PROVE Owned(outq.active[i])'
    <2>1. Drops(a, b)
      BY <1>1, <1>2
    <2>2. Len(a) \in Nat /\ Len(b) \in Nat /\ Len(a) <= Len(b)
      BY <2>1 DEF Drops
    <2>3. Len(b) - Len(a) + i \in 1 .. Len(b) /\ Keeps(a[i], b[Len(b) - Len(a) + i])
      BY <2>1, <2>2 DEF Drops
    <2>4. PICK d \in Buffer : d = b[Len(b) - Len(a) + i] /\ Owned(d)
      BY <1>2, <2>3 DEF IInv, QueueInv, BufferOwned
    <2>5. PICK c \in Buffer : c = a[i]
      OBVIOUS
    <2>6. (outq.active[i])' = c
      BY <1>1, <2>5
    <2>7. d.worker \in Worker \cup {NoWorker}
      BY DEF Buffer
    <2>8. CASE c.finished \/ c.worker = NoWorker
      BY <2>6, <2>8 DEF Owned
    <2>9. CASE ~c.finished /\ c.worker # NoWorker
      <3>1. ~d.finished /\ c.worker = d.worker /\ c.job = d.job
        BY <2>3, <2>4, <2>5, <2>9 DEF Keeps
      <3>2. d.worker \in Worker /\ Given(d.worker) /\ ws[d.worker].job = d.job
        BY <2>4, <2>7, <2>9, <3>1 DEF Owned
      <3> QED BY <2>6, <3>1, <3>2 DEF Owned
    <2> QED BY <2>8, <2>9
  <1> QED BY <1>1, <1>3 DEF BufferOwned

LEMMA HeadKept ==
  ASSUME IInv, Drops(outq'.active, outq.active), \A w \in Worker : ws'[w].job = ws[w].job,
         \A w \in Worker : Partly(w)' => Partly(w) \/ outq'.active = <<>> \/ ws[w].job <= Head(outq'.active).job
  PROVE  PartialAtHead'
  <1>1. PICK a \in Seq(Buffer) : a = outq'.active
    BY DEF Drops
  <1>2. PICK b \in Seq(Buffer) : b = outq.active
    BY DEF IInv, Types, IsQueue
  <1>3. ASSUME NEW w \in Worker, Partly(w)', a # <<>> PROVE ws[w].job <= Head(a).job
    <2>1. CASE Partly(w)
      <3>1. Drops(a, b)
        BY <1>1, <1>2
      <3>2. Len(a) \in Nat \ {0} /\ Len(b) \in Nat /\ Len(a) <= Len(b)
        BY <1>3, <3>1 DEF Drops
      <3>3. Len(b) - Len(a) + 1 \in 1 .. Len(b)
        BY <3>2
      <3>4. PICK j \in 1 .. Len(b) : j = Len(b) - Len(a) + 1
        BY <3>3
      <3>5. Head(a) = a[1] /\ a[1].job = b[j].job
        BY <1>3, <3>1, <3>2, <3>4 DEF Drops, Keeps
      <3>6. Head(a).job = b[j].job /\ b # <<>> /\ Head(b) = b[1]
        BY <3>2, <3>5
      <3>7. ws[w].job <= b[1].job
        BY <1>2, <2>1, <3>6 DEF IInv, QueueInv, PartialAtHead
      <3>8. b[1] \in Buffer /\ b[j] \in Buffer /\ ws[w] \in WorkerRecord
        BY <3>2, <3>4 DEF IInv, Types
      <3>9. b[1].job \in Nat /\ b[j].job \in Nat /\ ws[w].job \in Nat
        BY <3>8 DEF Buffer, WorkerRecord
      <3>10. b[1].job <= b[j].job
        <4>1. 1 \in DOMAIN b /\ (1 < j => b[1].job < b[j].job)
          BY <1>2, <3>4 DEF IInv, QueueInv, QueueOrdered
        <4> QED BY <3>4, <3>9, <4>1
      <3> QED BY <3>6, <3>7, <3>9, <3>10
    <2> QED BY <1>1, <1>3, <2>1
  <1> QED BY <1>1, <1>3 DEF PartialAtHead

LEMMA ReadDrops ==
  ASSUME NEW r, IsQueue(r, Buffer, Nat), NEW room
  PROVE  IsQueue(Read(r, room), Buffer, Nat) /\ Drops(Read(r, room).active, r.active)
  <1>1. CASE ~Drains(r, room)
    BY <1>1, ReadOn, DropsNone DEF IsQueue
  <1>2. CASE Drains(r, room)
    <2>1. r.active \in Seq(Buffer) /\ r.active # <<>>
      BY <1>2 DEF Drains, IsQueue
    <2>2. Head(r.active) \in Buffer
      BY <2>1
    <2>3. Head(r.active).size \in Nat
      BY <2>2 DEF Buffer
    <2> QED BY <1>2, <2>1, <2>3, ReadOut, DropsOne
  <1> QED BY <1>1, <1>2

LEMMA DropsMore ==
  ASSUME NEW a, NEW b \in Seq(Buffer), NEW c \in Seq(Buffer), Drops(a, b), Drops(b, c)
  PROVE  Drops(a, c)
  <1>1. a \in Seq(Buffer) /\ Len(a) <= Len(b) /\ Len(b) <= Len(c)
        /\ Len(a) \in Nat /\ Len(b) \in Nat /\ Len(c) \in Nat
    BY DEF Drops
  <1>2. ASSUME NEW i \in 1 .. Len(a) PROVE Keeps(a[i], c[Len(c) - Len(a) + i])
    <2>1. Len(b) - Len(a) + i \in 1 .. Len(b)
      BY <1>1
    <2>2. PICK j \in 1 .. Len(b) : j = Len(b) - Len(a) + i
      BY <2>1
    <2>3. Len(c) - Len(b) + j = Len(c) - Len(a) + i
      BY <1>1, <2>2
    <2>4. Keeps(a[i], b[j]) /\ Keeps(b[j], c[Len(c) - Len(b) + j])
      BY <2>2 DEF Drops
    <2> QED BY <2>3, <2>4 DEF Keeps
  <1> QED BY <1>1, <1>2 DEF Drops

(* Who is asked for partial output: a thread that works on the head.       *)
LEMMA HeadTaken ==
  ASSUME NEW r, IsQueue(r, Buffer, Nat), Counted(r)
  PROVE  LET k == TakeHeadWorker(r)
         IN /\ IsQueue(k, Buffer, Nat) /\ Counted(k) /\ Drops(k.active, r.active)
            /\ k.cache = r.cache /\ k.mem_in_use = r.mem_in_use /\ k.mem_allocated = r.mem_allocated
            /\ (r.active # <<>> => k.active # <<>> /\ Head(k.active).job = Head(r.active).job)
  <1>1. CASE HeadWorker(r) = NoWorker
    BY <1>1, DropsNone DEF TakeHeadWorker, IsQueue
  <1>2. CASE HeadWorker(r) # NoWorker
    <2>1. r.active \in Seq(Buffer) /\ r.active # <<>>
      BY <1>2 DEF HeadWorker, IsQueue
    <2>2. PICK b \in Seq(Buffer) : b = r.active
      BY <2>1
    <2>3. Len(b) \in Nat \ {0} /\ b[1] \in Buffer /\ Head(b) = b[1]
      BY <2>1, <2>2
    <2>4. PICK d \in Buffer : d = b[1]
      BY <2>3
    <2>5. ~d.finished
      BY <1>2, <2>1, <2>2, <2>3, <2>4 DEF HeadWorker
    <2>6. PICK none \in Worker \cup {NoWorker} : none = NoWorker
      OBVIOUS
    <2>7. PICK e : e = [d EXCEPT !.worker = none]
      OBVIOUS
    <2>8. e \in Buffer /\ e.job = d.job /\ e.size = d.size /\ e.worker = none /\ e.finished = d.finished
      BY <2>7 DEF Buffer
    <2>9. PICK a : a = [b EXCEPT ![1] = e]
      OBVIOUS
    <2>10. /\ a \in Seq(Buffer) /\ Len(a) = Len(b) /\ a[1] = e
           /\ \A i \in 1 .. Len(b) : i # 1 => a[i] = b[i]
      BY <2>3, <2>8, <2>9
    <2>11. PICK k : k = [r EXCEPT !.active = a]
      OBVIOUS
    <2>12. k = TakeHeadWorker(r)
      BY <1>2, <2>2, <2>4, <2>6, <2>7, <2>9, <2>11 DEF TakeHeadWorker
    <2>13. /\ IsQueue(k, Buffer, Nat) /\ k.active = a /\ k.cache = r.cache
           /\ k.mem_in_use = r.mem_in_use /\ k.mem_allocated = r.mem_allocated
      BY <2>10, <2>11, SetActive
    <2>14. Counted(k)
      <3>1. \A i \in 1 .. Len(b) : a[i].size = b[i].size
        BY <2>4, <2>8, <2>10
      <3> QED BY <2>2, <2>10, <2>13, <3>1, SameSizesCounted
    <2>15. Drops(a, b)
      <3>1. ASSUME NEW i \in 1 .. Len(a) PROVE Keeps(a[i], b[i])
        <4>1. CASE i = 1
          BY <2>4, <2>5, <2>6, <2>8, <2>10, <4>1 DEF Keeps
        <4>2. CASE i # 1
          BY <2>10, <4>2 DEF Keeps, Buffer
        <4> QED BY <4>1, <4>2
      <3>2. \A i \in 1 .. Len(a) : Len(b) - Len(a) + i = i
        BY <2>3, <2>10
      <3> QED BY <2>3, <2>10, <3>1, <3>2 DEF Drops
    <2>16. a # <<>> /\ Head(a).job = Head(b).job
      BY <2>3, <2>4, <2>8, <2>10
    <2> QED BY <2>2, <2>12, <2>13, <2>14, <2>15, <2>16
  <1> QED BY <1>1, <1>2

LEMMA Asked ==
  ASSUME IInv, NEW r, IsQueue(r, Buffer, Nat), Drops(r.active, outq.active), ws' = AskedForPartial(r), wl' = wl
  PROVE  /\ ws' \in [Worker -> WorkerRecord]
         /\ \A w \in Worker : SameWork(ws'[w], ws[w]) /\ ws'[w].job = ws[w].job
         /\ \A w \in Worker : Partly(w)' => Partly(w) \/ r.active = <<>> \/ ws[w].job <= Head(r.active).job
  <1>1. CASE HeadWorker(r) = NoWorker
    BY <1>1 DEF AskedForPartial, IInv, Types, SameWork, SameTask, Partly
  <1>2. CASE HeadWorker(r) # NoWorker
    <2>1. PICK a \in Seq(Buffer), b \in Seq(Buffer) : a = r.active /\ b = outq.active
      BY DEF IInv, Types, IsQueue
    <2>2. a # <<>> /\ Drops(a, b)
      BY <1>2, <2>1 DEF HeadWorker
    <2>3. Len(a) \in Nat \ {0} /\ Len(b) \in Nat /\ Len(a) <= Len(b) /\ Head(a) = a[1] /\ a[1] \in Buffer
      BY <2>2 DEF Drops
    <2>4. Len(b) - Len(a) + 1 \in 1 .. Len(b)
      BY <2>3
    <2>5. PICK j \in 1 .. Len(b) : j = Len(b) - Len(a) + 1
      BY <2>4
    <2>6. Keeps(a[1], b[j]) /\ b[j] \in Buffer
      BY <2>2, <2>3, <2>5 DEF Drops
    <2>7. PICK h : h = HeadWorker(r)
      OBVIOUS
    <2>8. ~a[1].finished /\ a[1].worker = h /\ h # NoWorker
      BY <1>2, <2>1, <2>2, <2>3, <2>7 DEF HeadWorker
    <2>9. ~b[j].finished /\ b[j].worker = h /\ b[j].job = a[1].job
      BY <2>6, <2>8 DEF Keeps
    <2>10. h \in Worker
      BY <2>6, <2>8, <2>9 DEF Buffer
    <2>11. Owned(b[j])
      BY <2>1 DEF IInv, QueueInv, BufferOwned
    <2>12. ws[h].job = a[1].job
      BY <2>8, <2>9, <2>11 DEF Owned
    <2>13. PICK x \in WorkerRecord : x = ws[h]
      BY <2>10 DEF IInv, Types
    <2>14. PICK y : y = [x EXCEPT !.partial = "START"]
      OBVIOUS
    <2>15. y \in WorkerRecord /\ SameWork(y, x)
      BY <2>14 DEF WorkerRecord, Partials, SameWork, SameTask
    <2>16. ws' = [ws EXCEPT ![h] = y]
      BY <1>2, <2>7, <2>10, <2>13, <2>14 DEF AskedForPartial, IInv, Types
    <2>17. /\ ws' \in [Worker -> WorkerRecord] /\ ws'[h] = y
           /\ \A w \in Worker : w # h => ws'[w] = ws[w]
      BY <2>10, <2>15, <2>16 DEF IInv, Types
    <2>18. ASSUME NEW w \in Worker
           PROVE  /\ SameWork(ws'[w], ws[w]) /\ ws'[w].job = ws[w].job
                  /\ Partly(w)' => Partly(w) \/ ws[w].job <= a[1].job
      <3>1. CASE w = h
        <4>1. ws[w].job \in Int
          BY DEF IInv, Types, WorkerRecord
        <4> QED BY <2>12, <2>13, <2>15, <2>17, <3>1, <4>1 DEF SameWork, SameTask
      <3>2. CASE w # h
        BY <2>17, <3>2 DEF SameWork, SameTask, Partly
      <3> QED BY <3>1, <3>2
    <2> QED BY <2>1, <2>2, <2>3, <2>17, <2>18
  <1> QED BY <1>1, <1>2

LEMMA ReadQueueStep == ASSUME IInv, ReadQueue PROVE IInv'
  <1>1. /\ UNCHANGED <<setup, threads_free, threads_initialized, mem_in_use, mem_cached, wl, overtaken>>
        /\ UNCHANGED <<sequence, block, thr, direct, seen_free, avail, eaten>>
        /\ pc \in {"read", "reread"}
    BY DEF ReadQueue, kept, hist
  <1>2. InputFits' /\ ret # "MEM_ERROR"
    BY <1>1, InputKept DEF IInv, Where
  <1>3. PICK r, q :
          /\ q = Read(outq, space)
          /\ \/ /\ outq' = TakeHeadWorker(q) /\ ws' = AskedForPartial(q)
                /\ GoTo("reread")
             \/ outq' = q /\ StopAndFail(r)
             \/ outq' = q /\ StopAndFail(thread_error)
             \/ /\ outq' = q /\ ws' = ws /\ can_start' = InputPossible(q)
                /\ GoTo(IF KeepsWaiting(q) THEN "sleep" ELSE "after")
    BY DEF ReadQueue
  <1>4. IsQueue(outq, Buffer, Nat) /\ Counted(outq)
    BY DEF IInv, Types, MemoryInv
  <1>5. /\ IsQueue(q, Buffer, Nat) /\ Counted(q) /\ Drops(q.active, outq.active)
        /\ q.mem_allocated <= outq.mem_allocated /\ q.mem_in_use <= outq.mem_in_use
    BY <1>3, <1>4, ReadDrops, ReadCounted, BuffersSized
  <1>6. /\ IsQueue(outq', Buffer, Nat) /\ Counted(outq') /\ Drops(outq'.active, outq.active)
        /\ outq'.mem_allocated = q.mem_allocated /\ outq'.mem_in_use = q.mem_in_use
        /\ ws' \in [Worker -> WorkerRecord]
        /\ \A w \in Worker : SameWork(ws'[w], ws[w]) /\ ws'[w].job = ws[w].job
        /\ \A w \in Worker : Partly(w)' => Partly(w) \/ outq'.active = <<>> \/ ws[w].job <= Head(outq'.active).job
    <2>1. CASE outq' = TakeHeadWorker(q) /\ ws' = AskedForPartial(q)
      <3>1. /\ IsQueue(outq', Buffer, Nat) /\ Counted(outq') /\ Drops(outq'.active, q.active)
            /\ outq'.mem_allocated = q.mem_allocated /\ outq'.mem_in_use = q.mem_in_use
            /\ (q.active # <<>> => outq'.active # <<>> /\ Head(outq'.active).job = Head(q.active).job)
        BY <1>5, <2>1, HeadTaken
      <3>2. q.active \in Seq(Buffer) /\ outq.active \in Seq(Buffer)
        BY <1>4, <1>5 DEF IsQueue
      <3>3. Drops(outq'.active, outq.active)
        BY <1>5, <3>1, <3>2, DropsMore
      <3>4. /\ ws' \in [Worker -> WorkerRecord]
            /\ \A w \in Worker : SameWork(ws'[w], ws[w]) /\ ws'[w].job = ws[w].job
            /\ \A w \in Worker : Partly(w)' => Partly(w) \/ q.active = <<>> \/ ws[w].job <= Head(q.active).job
        BY <1>1, <1>5, <2>1, Asked
      <3>5. q.active = <<>> => outq'.active = <<>>
        BY <3>1, <3>2 DEF Drops
      <3> QED BY <3>1, <3>3, <3>4, <3>5
    <2>2. CASE outq' = q /\ OnlyTold
      BY <1>1, <1>5, <2>2 DEF OnlyTold, SameButState, SameWork, SameTask, Partly
    <2>3. ASSUME NEW x, StopAndFail(x) PROVE OnlyTold
      BY <2>3, ToldOnly DEF StopAndFail, IInv
    <2>4. ws' = ws => OnlyTold
      BY SameThreads DEF IInv
    <2> QED BY <1>3, <2>1, <2>2, <2>3, <2>4
  <1>7. /\ pc' \in {"reread", "app", "sleep", "after"}
        /\ ret' = "MEM_ERROR" => pending' = "Error" /\ pc' = "app"
        /\ pc' = "after" => can_start' = InputPossible(q)
    BY <1>2, <1>3, Returns DEF GoTo, call, StopAndFail
  <1>8. ThreadInv'
    BY <1>1, <1>6, <1>7, ThreadsKept DEF Fed, SameWork
  <1>9. QueueInv'
    <2>1. QueueOrdered'
      BY <1>1, <1>6, <1>7, OrderKept DEF Fed, Fresh
    <2>2. BufferOwned'
      BY <1>1, <1>6, OwnersKept DEF Given, Free
    <2>3. PartialAtHead'
      BY <1>6, HeadKept
    <2> QED BY <2>1, <2>2, <2>3 DEF QueueInv
  <1>10. MemoryInv'
    <2>1. /\ mem_in_use \in Int /\ mem_cached \in Int /\ MemlimitThreading \in Int
          /\ outq.mem_in_use \in Nat /\ outq.mem_allocated \in Nat
          /\ outq'.mem_in_use \in Nat /\ outq'.mem_allocated \in Nat
      BY <1>4, <1>6, BuffersSized, CountsAreNat, StreamDecoderAssumption DEF IInv, Types
    <2>2. outq'.mem_in_use <= outq.mem_in_use /\ outq'.mem_allocated <= outq.mem_allocated
      BY <1>5, <1>6
    <2>3. Filters' = Filters
      BY <1>6, SameFilters
    <2>4. CachedExact' /\ Behind' /\ Seen'
      BY <1>1, <1>7, <2>3 DEF CachedExact, Behind, Seen, IInv, MemoryInv
    <2>5. Committed' => InputPossible(q)
      BY <1>7 DEF Committed
    <2>6. ReadyToStart'
      BY <1>1, <1>7, <2>5 DEF ReadyToStart, InputPossible
    <2>7. RunningFits'
      <3>1. mem_in_use + outq.mem_in_use <= MemlimitThreading
        BY DEF IInv, MemoryInv, RunningFits, RunningMemory
      <3>2. mem_in_use + outq'.mem_in_use <= MemlimitThreading
        BY <2>1, <2>2, <3>1
      <3>3. Committed' => mem_in_use + outq'.mem_in_use + NextBlock <= MemlimitThreading
        <4> SUFFICES ASSUME Committed' PROVE mem_in_use + outq'.mem_in_use + NextBlock <= MemlimitThreading
          OBVIOUS
        <4>1. MemlimitThreading - mem_in_use - outq'.mem_in_use >= NextBlock
          BY <1>6, <2>5 DEF InputPossible, Room
        <4>2. PICK next \in Int : next = NextBlock
          BY <1>1, <2>5, NextType DEF InputPossible, IInv, InputFits, AtBlock
        <4> QED BY <2>1, <4>1, <4>2
      <3>4. NextBlock' = NextBlock
        BY <1>1 DEF NextBlock, NextIn, File
      <3> QED BY <1>1, <1>7, <3>2, <3>3, <3>4 DEF RunningFits, RunningMemory
    <2>8. AllocatedFits'
      <3> SUFFICES ASSUME ~overtaken
                   PROVE  mem_in_use + mem_cached + outq'.mem_allocated <= MemlimitThreading
        BY <1>1, <1>7 DEF AllocatedFits, AllocatedMemory
      <3>1. mem_in_use + mem_cached + outq.mem_allocated <= MemlimitThreading
        BY <1>1, <1>2 DEF IInv, MemoryInv, AllocatedFits, AllocatedMemory
      <3> QED BY <2>1, <2>2, <3>1
    <2> QED BY <1>6, <2>4, <2>6, <2>7, <2>8 DEF MemoryInv
  <1>11. Types' /\ Where'
    BY <1>1, <1>6, <1>7 DEF IInv, Types, Where
  <1> QED BY <1>2, <1>8, <1>9, <1>10, <1>11 DEF IInv

-----------------------------------------------------------------------------
(* Room for the next Block. What the free threads' filters take, as a sum. *)
FiltersFold(f, D) ==
  f = [t \in SUBSET D |-> IF t = {} THEN 0
                          ELSE LET w == CHOOSE w \in t : TRUE IN f[t \ {w}] + ws[w].mem_filters]

LEMMA FiltersSum ==
  ASSUME ws \in [Worker -> WorkerRecord], NEW D \in SUBSET Worker
  PROVE  /\ FiltersOf(D) = SumOver(Filters, D, Threads) /\ SumOver(Filters, D, Threads) \in Int
         /\ \A w \in Worker : Filters[w] = ws[w].mem_filters /\ Filters[w] \in Nat
         /\ IntsOn(Filters, D) /\ IntsOn(Filters, D \cap (1 .. Threads))
  <1>1. \A w \in Worker : Filters[w] = ws[w].mem_filters /\ Filters[w] \in Nat
    BY DEF Filters, WorkerRecord
  <1>2. IntsOn(Filters, D) /\ IntsOn(Filters, D \cap (1 .. Threads)) /\ D \in SUBSET (1 .. Threads)
        /\ Threads \in Nat
    BY <1>1, QueueAssumption DEF IntsOn, Worker
  <1>3. PICK zero \in Int : zero = 0
    OBVIOUS
  <1>4. PICK f \in [SUBSET D -> Int] : AddsUp(f, Filters, D, zero)
    BY <1>2, <1>3, FoldExists
  <1>5. FiltersFold(f, D)
    <2>1. ASSUME NEW t \in SUBSET D
          PROVE  f[t] = IF t = {} THEN 0 ELSE LET w == CHOOSE w \in t : TRUE
                                              IN f[t \ {w}] + ws[w].mem_filters
      <3>1. CASE t = {}
        BY <1>3, <1>4, <3>1 DEF AddsUp
      <3>2. CASE t # {}
        <4>1. PICK x \in D : x = Some(t)
          BY <3>2, SomeIn
        <4>2. f[t \ {x}] \in Int
          BY <1>4
        <4>3. f[t] = Filters[x] + f[t \ {x}]
          BY <1>4, <3>2, <4>1, <4>2 DEF AddsUp
        <4>4. f[t] = f[t \ {x}] + ws[x].mem_filters
          BY <1>1, <4>2, <4>3
        <4> QED BY <3>2, <4>1, <4>4 DEF Some
      <3> QED BY <3>1, <3>2
    <2> QED BY <1>4, <2>1 DEF FiltersFold
  <1>6. PICK g : g = CHOOSE h : FiltersFold(h, D)
    OBVIOUS
  <1>7. FiltersFold(g, D)
    BY <1>5, <1>6
  <1>8. FiltersOf(D) = g[D]
    BY <1>6 DEF FiltersOf, FoldSet, MapThenFoldSet, FiltersFold
  <1>9. AddsUp(g, Filters, D, zero)
    <2>1. ASSUME NEW t \in SUBSET D, t # {}, g[t \ {Some(t)}] \in Int
          PROVE  g[t] = Filters[Some(t)] + g[t \ {Some(t)}]
      <3>1. PICK x \in D : x = Some(t)
        BY <2>1, SomeIn
      <3>2. g[t] = g[t \ {x}] + ws[x].mem_filters
        BY <1>7, <2>1, <3>1 DEF FiltersFold, Some
      <3> QED BY <1>1, <2>1, <3>1, <3>2
    <2>2. g[{}] = 0
      BY <1>7 DEF FiltersFold
    <2> QED BY <1>3, <2>1, <2>2 DEF AddsUp
  <1>10. g[D] = zero + SumOver(Filters, D, Threads)
    BY <1>2, <1>3, <1>9, FoldIsSum
  <1>11. SumOver(Filters, D, Threads) \in Int
    BY <1>2, SumOverType
  <1>12. FiltersOf(D) = SumOver(Filters, D, Threads)
    BY <1>3, <1>8, <1>10, <1>11
  <1> QED BY <1>1, <1>2, <1>11, <1>12

(* The free threads seen before are the last ones of those free now.       *)
LEMMA SuffixedSet ==
  ASSUME NEW s \in Seq(Worker), NEW t \in Seq(Worker), Suffixed(s, t)
  PROVE  ToSet(s) \subseteq ToSet(t) /\ ToSet(t) \subseteq Worker
  <1>1. Len(s) \in Nat /\ Len(t) \in Nat /\ Len(s) <= Len(t)
        /\ \A i \in 1 .. Len(s) : s[i] = t[Len(t) - Len(s) + i]
    BY DEF Suffixed
  <1>2. ASSUME NEW i \in 1 .. Len(s) PROVE s[i] \in ToSet(t)
    <2>1. Len(t) - Len(s) + i \in 1 .. Len(t)
      BY <1>1
    <2>2. PICK j \in 1 .. Len(t) : j = Len(t) - Len(s) + i
      BY <2>1
    <2>3. s[i] = t[j]
      BY <1>1, <2>2
    <2> QED BY <2>2, <2>3 DEF ToSet
  <1> QED BY <1>2 DEF ToSet

(* The first of the free threads and the others.                           *)
LEMMA HeadAndTail ==
  ASSUME NEW s \in Seq(Worker), s # <<>>, Distinct(s)
  PROVE  /\ Head(s) \in Worker /\ Head(s) \in ToSet(s) /\ Tail(s) \in Seq(Worker) /\ Distinct(Tail(s))
         /\ ToSet(s) \subseteq Worker
         /\ Head(s) \notin ToSet(Tail(s)) /\ ToSet(Tail(s)) = ToSet(s) \ {Head(s)}
  <1>1. Len(s) \in Nat \ {0} /\ Head(s) = s[1] /\ Tail(s) \in Seq(Worker) /\ Len(Tail(s)) = Len(s) - 1
        /\ \A i \in 1 .. Len(s) - 1 : Tail(s)[i] = s[i + 1]
    OBVIOUS
  <1>2. \A i, j \in 1 .. Len(s) : s[i] = s[j] => i = j
    BY DEF Distinct
  <1>3. Head(s) \in Worker /\ Head(s) \in ToSet(s) /\ ToSet(s) \subseteq Worker
    BY <1>1 DEF ToSet
  <1>4. Len(s) - 1 \in Nat
    BY <1>1
  <1>5. PICK n \in Nat : n = Len(s) - 1
    BY <1>4
  <1>6. PICK u \in Seq(Worker) : u = Tail(s)
    BY <1>1
  <1>7. DOMAIN u = 1 .. n /\ Len(s) = n + 1 /\ \A i \in 1 .. n : u[i] = s[i + 1] /\ i + 1 \in 1 .. Len(s)
    BY <1>1, <1>5, <1>6
  <1>8. Distinct(u)
    <2>1. ASSUME NEW i \in 1 .. n, NEW j \in 1 .. n, u[i] = u[j] PROVE i = j
      <3>1. i + 1 = j + 1
        BY <1>2, <1>7, <2>1
      <3> QED BY <3>1
    <2> QED BY <1>7, <2>1 DEF Distinct
  <1>9. Head(s) \notin ToSet(u)
    <2>1. ASSUME NEW i \in 1 .. n PROVE u[i] # s[1]
      <3>1. i + 1 # 1 /\ 1 \in 1 .. Len(s)
        BY <1>1, <1>5
      <3> QED BY <1>2, <1>7, <3>1
    <2> QED BY <1>1, <1>7, <2>1 DEF ToSet
  <1>10. ToSet(u) = ToSet(s) \ {Head(s)}
    <2>1. ASSUME NEW i \in 1 .. n PROVE u[i] \in ToSet(s)
      <3>1. u[i] = s[i + 1] /\ i + 1 \in DOMAIN s
        BY <1>1, <1>7
      <3> QED BY <3>1 DEF ToSet
    <2>2. ASSUME NEW i \in 1 .. Len(s), s[i] # s[1] PROVE s[i] \in ToSet(u)
      <3>1. i - 1 \in 1 .. n /\ i - 1 + 1 = i
        BY <1>7, <2>2
      <3>2. PICK k \in 1 .. n : k = i - 1
        BY <3>1
      <3>3. u[k] = s[i]
        BY <1>7, <3>2
      <3> QED BY <1>7, <3>2, <3>3 DEF ToSet
    <2>3. ToSet(u) \subseteq ToSet(s) \ {Head(s)}
      BY <1>7, <1>9, <2>1 DEF ToSet
    <2>4. ToSet(s) \ {Head(s)} \subseteq ToSet(u)
      BY <1>1, <2>2 DEF ToSet
    <2> QED BY <2>3, <2>4
  <1> QED BY <1>3, <1>6, <1>8, <1>9, <1>10

LEMMA MakeRoomStep == ASSUME IInv, MakeRoom PROVE IInv'
  <1>1. /\ UNCHANGED <<setup, threads_free, threads_initialized, wl, overtaken>>
        /\ UNCHANGED <<sequence, block, thr, direct, seen_free, avail, eaten, ret, pending>>
        /\ pc = "free" /\ pc' = "get" /\ mem_in_use' = mem_in_use + NextIn
    BY DEF MakeRoom, GoTo, call, coder, kept, locals, flow, hist
  <1>2. /\ InputFits' /\ ret # "MEM_ERROR" /\ sequence = "BLOCK_THR_INIT" /\ block # 0
        /\ Committed
    BY <1>1, InputKept DEF IInv, Where, InputFits, AtBlock, Committed
  <1>3. /\ IsQueue(outq, Buffer, Nat) /\ Counted(outq) /\ ws \in [Worker -> WorkerRecord]
        /\ threads_free \in Seq(Worker) /\ Distinct(threads_free) /\ seen_free.free \in Seq(Worker)
        /\ Suffixed(seen_free.free, threads_free)
    BY <1>1 DEF IInv, Types, MemoryInv, Behind
  <1>4. PICK out \in Nat, in \in Nat, L \in Nat : out = File[block].out /\ in = NextIn /\ L = MemlimitThreading
    BY <1>2, NextType, StreamDecoderAssumption DEF IInv
  <1>5. PICK O \in Nat : O = Usage(out)
    BY <1>4, QueueAssumption DEF Usage
  <1>6. PICK U \in Int, C \in Int, T \in Int : U = mem_in_use /\ C = mem_cached /\ T = seen_free.total
    BY DEF IInv, Types
  <1>7. PICK I \in Nat, A \in Nat : I = outq.mem_in_use /\ A = outq.mem_allocated /\ I <= A
    BY <1>3, BuffersSized, CountsAreNat DEF Counted
  <1>8. PICK freed : /\ freed = IF seen_free.free # <<>> /\ T + I > MemMax THEN Freed(seen_free.free) ELSE {}
                     /\ ws' = [w \in Worker |-> IF w \in freed THEN [ws[w] EXCEPT !.mem_filters = 0] ELSE ws[w]]
                     /\ mem_cached' = mem_cached - FiltersOf(freed)
    BY <1>6, <1>7 DEF MakeRoom
  <1>9. MemMax = L - (in + O) /\ U + C <= T /\ U + I + in + O <= L /\ U + I <= L
    <2>1. NextBlock = in + O
      BY <1>2, <1>4, <1>5, NextType DEF IInv
    <2>2. U + I + NextBlock <= L /\ U + I <= L
      BY <1>2, <1>4, <1>6, <1>7 DEF IInv, MemoryInv, RunningFits, RunningMemory
    <2>3. U + C <= T
      BY <1>1, <1>6 DEF IInv, MemoryInv, Seen
    <2> QED BY <1>4, <2>1, <2>2, <2>3 DEF MemMax
  <1>10. freed \subseteq ToSet(threads_free) /\ ToSet(threads_free) \subseteq Worker
    <2>1. ToSet(seen_free.free) \subseteq ToSet(threads_free) /\ ToSet(threads_free) \subseteq Worker
      BY <1>3, SuffixedSet
    <2>2. ASSUME seen_free.free # <<>> PROVE ToSet(Tail(seen_free.free)) \subseteq ToSet(seen_free.free)
      BY <1>3, <2>2 DEF ToSet
    <2> QED BY <1>8, <2>1, <2>2 DEF Freed
  <1>11. /\ ws' \in [Worker -> WorkerRecord]
         /\ \A w \in Worker : /\ SameTask(ws'[w], ws[w]) /\ ws'[w].partial = ws[w].partial
                              /\ ws'[w].job = ws[w].job
                              /\ ws'[w].mem_filters = IF w \in freed THEN 0 ELSE ws[w].mem_filters
    <2>1. ASSUME NEW w \in Worker
          PROVE  /\ ws'[w] \in WorkerRecord
                 /\ SameTask(ws'[w], ws[w]) /\ ws'[w].partial = ws[w].partial
                 /\ ws'[w].job = ws[w].job
                 /\ ws'[w].mem_filters = IF w \in freed THEN 0 ELSE ws[w].mem_filters
      <3>1. PICK x \in WorkerRecord : x = ws[w]
        BY <1>3
      <3>2. PICK zero \in Nat : zero = 0
        OBVIOUS
      <3>3. PICK y : y = [x EXCEPT !.mem_filters = zero]
        OBVIOUS
      <3>4. y \in WorkerRecord
        BY <3>3 DEF WorkerRecord
      <3>5. SameTask(y, x) /\ y.partial = x.partial /\ y.job = x.job /\ y.mem_filters = zero
        BY <3>3 DEF WorkerRecord, SameTask
      <3>6. ws'[w] = IF w \in freed THEN y ELSE x
        BY <1>8, <3>1, <3>2, <3>3
      <3>7. SameTask(x, x)
        BY DEF SameTask
      <3> QED BY <3>1, <3>2, <3>4, <3>5, <3>6, <3>7
    <2> QED BY <1>8, <2>1
  <1>12. /\ IsQueue(outq', Buffer, Nat) /\ Counted(outq') /\ outq'.active = outq.active
         /\ outq'.mem_in_use = I
         /\ \/ T + A <= MemMax /\ outq'.mem_allocated = A
            \/ T + A > MemMax /\ outq'.mem_allocated = I
            \/ T + A > MemMax /\ outq'.mem_allocated = I + O
    <2>1. outq' = IF T + A > MemMax THEN ClearCacheKeep(outq, out) ELSE outq
      BY <1>4, <1>6, <1>7 DEF MakeRoom
    <2>2. CASE T + A > MemMax
      <3>1. outq' = ClearCacheKeep(outq, out)
        BY <2>1, <2>2
      <3>2. Counted(outq') /\ (outq'.mem_allocated = I \/ outq'.mem_allocated = I + O)
        BY <1>3, <1>5, <1>7, <3>1, BuffersSized, TrimCounted
      <3>3. IsQueue(outq', Buffer, Nat) /\ outq'.active = outq.active /\ outq'.mem_in_use = I
        BY <1>3, <1>7, <3>1, TrimmedCache
      <3> QED BY <2>2, <3>2, <3>3
    <2>3. CASE ~(T + A > MemMax)
      <3>1. T + A <= MemMax
        BY <1>4, <1>5, <1>6, <1>7, <1>9, <2>3
      <3> QED BY <1>3, <1>7, <2>1, <2>3, <3>1
    <2> QED BY <2>2, <2>3
  <1>13. PICK A2 \in Nat : A2 = outq'.mem_allocated
    BY <1>12, BuffersSized, CountsAreNat
  <1>14. PICK C2 \in Int :
           /\ C2 = mem_cached' /\ C2 = SumOver(Filters', ToSet(threads_free), Threads)
           /\ C2 = C - SumOver(Filters, freed, Threads)
    <2>1. C = SumOver(Filters, ToSet(threads_free), Threads)
      BY <1>6 DEF IInv, MemoryInv, CachedExact
    <2>2. /\ FiltersOf(freed) = SumOver(Filters, freed, Threads) /\ SumOver(Filters, freed, Threads) \in Int
          /\ IntsOn(Filters, ToSet(threads_free))
      <3>1. freed \in SUBSET Worker /\ ToSet(threads_free) \in SUBSET Worker
        BY <1>10
      <3> QED BY <1>3, <3>1, FiltersSum
    <2>3. \A i \in ToSet(threads_free) : Filters'[i] = IF i \in freed THEN 0 ELSE Filters[i]
      BY <1>10, <1>11 DEF Filters
    <2>4. SumOver(Filters', ToSet(threads_free), Threads) = C - SumOver(Filters, freed, Threads)
      <3>1. PICK v, w, s : v = Filters /\ w = Filters' /\ s = ToSet(threads_free)
        OBVIOUS
      <3>2. Threads \in Nat /\ freed \in SUBSET s
        BY <1>10, <3>1, QueueAssumption
      <3>3. SumOver(w, s, Threads) = SumOver(v, s, Threads) - SumOver(v, freed, Threads)
        BY <2>2, <2>3, <3>1, <3>2, SumOverZeroed
      <3> QED BY <2>1, <3>1, <3>3
    <2>5. C - SumOver(Filters, freed, Threads) \in Int
      BY <2>2
    <2> QED BY <1>6, <1>8, <2>2, <2>4, <2>5
  <1>15. ThreadInv'
    BY <1>1, <1>11, ThreadsKept DEF Fed
  <1>16. QueueInv'
    <2>1. Drops(outq'.active, outq.active)
      BY <1>3, <1>12, DropsNone DEF IsQueue
    <2>2. QueueOrdered'
      BY <1>1, <2>1, OrderKept DEF Fed, Fresh
    <2>3. BufferOwned'
      BY <1>1, <1>11, <2>1, OwnersKept DEF Given, Free
    <2>4. \A w \in Worker : Partly(w)' => Partly(w)
      BY <1>1, <1>11 DEF Partly
    <2>5. PartialAtHead'
      BY <1>11, <2>1, <2>4, HeadKept
    <2> QED BY <2>2, <2>3, <2>5 DEF QueueInv
  <1>17. RunningFits'
    <2>1. RunningMemory' = U + in + I
      BY <1>1, <1>4, <1>6, <1>12 DEF RunningMemory
    <2>2. Usage(File[block].out)' = O
      BY <1>1, <1>4, <1>5 DEF File, Usage
    <2>3. U + in + I <= L /\ U + in + I + O <= L
      BY <1>9
    <2> QED BY <1>1, <1>4, <2>1, <2>2, <2>3 DEF RunningFits, Committed
  <1>18. AllocatedFits'
    <2> SUFFICES ASSUME ~overtaken, threads_free = seen_free.free
                 PROVE  /\ Others' + I + O <= L
                        /\ Others' + A2 <= L
      <3>1. Usage(File[block].out)' = O
        BY <1>1, <1>4, <1>5 DEF File, Usage
      <3> QED BY <1>1, <1>4, <1>12, <1>13, <3>1 DEF AllocatedFits
    <2>1. PICK H \in Nat : H = HeadFilters'
      <3>1. threads_free # <<>> => Head(threads_free) \in Worker
        BY <1>3
      <3>2. threads_free # <<>> => ws'[Head(threads_free)].mem_filters \in Nat
        BY <1>11, <3>1 DEF WorkerRecord
      <3> QED BY <1>1, <3>2 DEF HeadFilters
    <2>2. Others' = U + in + C2 - H
      BY <1>1, <1>4, <1>6, <1>14, <2>1 DEF Others
    <2>3. CASE T + I <= MemMax
      <3>1. freed = {}
        <4>1. ~(T + I > MemMax)
          BY <1>4, <1>5, <1>6, <1>7, <1>9, <2>3
        <4> QED BY <1>8, <4>1
      <3>2. C2 = C
        <4>1. SumOver(Filters, {}, Threads) = 0
          BY QueueAssumption, SumOverNone
        <4> QED BY <1>14, <3>1, <4>1
      <3>3. U + in + C2 - H + I + O <= L
        BY <1>9, <2>3, <3>2
      <3>4. U + in + C2 - H + A2 <= L
        BY <1>7, <1>9, <1>12, <1>13, <2>3, <3>2
      <3> QED BY <2>2, <3>3, <3>4
    <2>4. CASE ~(T + I <= MemMax)
      <3>1. T + I > MemMax /\ T + A > MemMax
        BY <1>4, <1>5, <1>6, <1>7, <1>9, <2>4
      <3>2. C2 = H
        <4>1. CASE threads_free = <<>>
          <5>1. ToSet(threads_free) = {}
            BY <4>1 DEF ToSet
          <5>2. C2 = 0
            BY <1>14, <5>1, QueueAssumption, SumOverNone
          <5> QED BY <1>1, <2>1, <4>1, <5>2 DEF HeadFilters
        <4>2. CASE threads_free # <<>>
          <5>1. PICK h, s, t : h = Head(threads_free) /\ s = ToSet(threads_free) /\ t = ToSet(Tail(threads_free))
            OBVIOUS
          <5>2. h \in Worker /\ h \in s /\ s \subseteq Worker /\ t = s \ {h} /\ t \subseteq s
            BY <1>3, <4>2, <5>1, HeadAndTail
          <5>3. t \subseteq freed
            BY <1>8, <3>1, <4>2, <5>1, <5>2 DEF Freed
          <5>4. PICK v, w : v = Filters /\ w = Filters'
            OBVIOUS
          <5>5. /\ \A i \in Worker : w[i] \in Nat /\ v[i] \in Nat /\ w[i] = ws'[i].mem_filters
                /\ \A i \in t : w[i] = 0
            <6>1. \A i \in Worker : w[i] = ws'[i].mem_filters /\ v[i] = ws[i].mem_filters
              BY <5>4 DEF Filters
            <6>2. \A i \in Worker : ws'[i].mem_filters \in Nat /\ ws[i].mem_filters \in Nat
              BY <1>3, <1>11 DEF WorkerRecord
            <6>3. \A i \in t : w[i] = 0
              BY <1>11, <5>2, <5>3, <6>1
            <6> QED BY <6>1, <6>2, <6>3
          <5>6. IntsOn(w, t) /\ IntsOn(w, s \cap (1 .. Threads)) /\ h \in 1 .. Threads /\ Threads \in Nat
            BY <5>2, <5>5, QueueAssumption DEF IntsOn, Worker
          <5>7. SumOver(w, t, Threads) = 0
            <6>1. SumOver(w, t, Threads) \in Int
              <7>1. IntsOn(w, t \cap (1 .. Threads))
                BY <5>6 DEF IntsOn
              <7> QED BY <5>6, <7>1, SumOverType
            <6>2. PICK D, z : D = t /\ z = w
              OBVIOUS
            <6>3. \A i \in t : z[i] = IF i \in D THEN 0 ELSE w[i]
              BY <5>5, <6>2
            <6>4. SumOver(w, t, Threads) = SumOver(w, t, Threads) - SumOver(w, t, Threads)
              <7>1. D \in SUBSET t
                BY <6>2
              <7>2. SumOver(z, t, Threads) = SumOver(w, t, Threads) - SumOver(w, D, Threads)
                BY <5>6, <6>3, <7>1, SumOverZeroed
              <7> QED BY <6>2, <7>2
            <6> QED BY <6>1, <6>4
          <5>8. SumOver(w, s, Threads) = w[h] + SumOver(w, s \ {h}, Threads)
            BY <5>2, <5>6, SumOverRemove
          <5>9. C2 = w[h]
            <6>1. C2 = SumOver(w, s, Threads)
              BY <1>14, <5>1, <5>4
            <6>2. SumOver(w, s \ {h}, Threads) = 0 /\ w[h] \in Nat
              BY <5>2, <5>5, <5>7
            <6> QED BY <5>8, <6>1, <6>2
          <5> QED BY <1>1, <2>1, <4>2, <5>1, <5>2, <5>5, <5>9 DEF HeadFilters
        <4> QED BY <4>1, <4>2
      <3>3. Others' = U + in
        BY <2>2, <3>2
      <3>4. A2 <= I + O
        BY <1>4, <1>5, <1>6, <1>7, <1>9, <1>12, <1>13, <3>1
      <3> QED BY <1>9, <3>3, <3>4
    <2> QED BY <2>3, <2>4
  <1>19. MemoryInv'
    <2>1. CachedExact'
      BY <1>1, <1>14 DEF CachedExact
    <2>2. ReadyToStart' /\ Behind' /\ Seen'
      BY <1>1, <1>2 DEF ReadyToStart, Committed, Behind, Seen, IInv, MemoryInv
    <2> QED BY <1>12, <1>17, <1>18, <2>1, <2>2 DEF MemoryInv
  <1>20. Types' /\ Where'
    <2>1. mem_in_use' \in Int /\ mem_cached' \in Int
      BY <1>1, <1>4, <1>6, <1>14
    <2> QED BY <1>1, <1>2, <1>11, <1>12, <2>1 DEF IInv, Types, Where
  <1> QED BY <1>2, <1>15, <1>16, <1>19, <1>20 DEF IInv

(* The thread that gets the Block: the first free one or a new one.        *)
Next1 == IF threads_free # <<>> THEN Head(threads_free) ELSE threads_initialized + 1
Taking(w) ==
  /\ threads_free' = (IF threads_free # <<>> THEN Tail(threads_free) ELSE threads_free)
  /\ threads_initialized' = (IF threads_free # <<>> THEN threads_initialized ELSE w)

LEMMA ThreadTaken ==
  ASSUME IInv, pc = "get", NEW w, w = Next1, Taking(w)
  PROVE  /\ w \in Worker /\ ~Given(w) /\ Given(w)'
         /\ \A v \in Worker : v # w => Given(v)' = Given(v)
         /\ threads_initialized' \in 0 .. Threads
         /\ threads_free' \in Seq(Worker) /\ Distinct(threads_free')
         /\ \A i \in DOMAIN threads_free' : threads_free'[i] <= threads_initialized'
  <1>1. /\ threads_free \in Seq(Worker) /\ Distinct(threads_free) /\ threads_initialized \in 0 .. Threads
        /\ \A i \in DOMAIN threads_free : threads_free[i] <= threads_initialized
        /\ Threads \in Nat
    BY QueueAssumption DEF IInv, Types
  <1>2. CASE threads_free # <<>>
    <2>1. /\ w = Head(threads_free) /\ threads_free' = Tail(threads_free)
          /\ threads_initialized' = threads_initialized
      BY <1>2 DEF Next1, Taking
    <2>2. /\ w \in Worker /\ w \in ToSet(threads_free) /\ threads_free' \in Seq(Worker)
          /\ Distinct(threads_free') /\ w \notin ToSet(threads_free')
          /\ ToSet(threads_free') = ToSet(threads_free) \ {w}
      BY <1>1, <1>2, <2>1, HeadAndTail
    <2>3. /\ w <= threads_initialized
          /\ \A i \in DOMAIN threads_free' : threads_free'[i] <= threads_initialized
      BY <1>1, <1>2, <2>1
    <2>4. ~Given(w) /\ Given(w)' /\ \A v \in Worker : v # w => Given(v)' = Given(v)
      BY <2>1, <2>2, <2>3 DEF Given, Free
    <2> QED BY <1>1, <2>1, <2>2, <2>3, <2>4
  <1>3. CASE threads_free = <<>>
    <2>1. w = threads_initialized + 1 /\ threads_free' = <<>> /\ threads_initialized' = w
      BY <1>3 DEF Next1, Taking
    <2>2. threads_initialized < Threads
      BY <1>3 DEF IInv, MemoryInv, ReadyToStart
    <2>3. w \in Worker /\ w \in 0 .. Threads /\ ~(w <= threads_initialized)
      BY <1>1, <2>1, <2>2 DEF Worker
    <2>4. \A v : ~Free(v) /\ ~Free(v)'
      BY <1>3, <2>1 DEF Free, ToSet
    <2>5. \A v \in Worker : v # w => ((v <= w) <=> (v <= threads_initialized))
      BY <1>1, <2>1 DEF Worker
    <2>6. ~Given(w) /\ Given(w)' /\ \A v \in Worker : v # w => Given(v)' = Given(v)
      BY <2>1, <2>3, <2>4, <2>5 DEF Given
    <2> QED BY <1>1, <1>3, <2>1, <2>3, <2>6
  <1> QED BY <1>2, <1>3

LEMMA GetThreadStep == ASSUME IInv, GetThread PROVE IInv'
  <1> SUFFICES ASSUME ~(/\ UNCHANGED <<outq, threads_free, mem_cached, thr, threads_initialized, flow, overtaken>>
                        /\ StopAndFail("MEM_ERROR"))
               PROVE  IInv'
    BY NoMemoryStep
  <1>1. /\ UNCHANGED <<setup, wl, mem_in_use>>
        /\ UNCHANGED <<sequence, block, direct, seen_free, avail, eaten>>
        /\ pc = "get"
    BY DEF GetThread, locals, flow
  <1>2. PICK w :
          /\ w = Next1 /\ thr' = w /\ Taking(w)
          /\ mem_cached' = mem_cached - (IF threads_free # <<>> THEN ws[w].mem_filters ELSE 0)
          /\ ws' = [ws EXCEPT ![w] = [IdleWorker EXCEPT !.job = block, !.alive = TRUE,
                                        !.mem_filters = File[block].filters]]
          /\ outq' = GetBuf(PreallocBuf(outq, File[block].out), block, w)
          /\ overtaken' = (overtaken \/ threads_free # seen_free.free)
          /\ pc' = "start" /\ UNCHANGED <<ret, pending>>
    BY DEF GetThread, Next1, Taking, GoTo, call
  <1>3. /\ InputFits' /\ ret # "MEM_ERROR" /\ sequence = "BLOCK_THR_INIT" /\ block # 0
        /\ Fresh /\ ~Fresh' /\ Fed' /\ block \in Nat
    BY <1>1, <1>2, InputKept DEF IInv, Where, InputFits, AtBlock, Fresh, Fed
  <1>4. /\ w \in Worker /\ ~Given(w) /\ Given(w)'
        /\ \A v \in Worker : v # w => Given(v)' = Given(v)
        /\ threads_initialized' \in 0 .. Threads
        /\ threads_free' \in Seq(Worker) /\ Distinct(threads_free')
        /\ \A i \in DOMAIN threads_free' : threads_free'[i] <= threads_initialized'
    BY <1>1, <1>2, ThreadTaken
  <1>5. Rests(w)
    BY <1>4 DEF IInv, ThreadInv, ThreadsSound, ThreadSound
  <1>6. PICK out \in Nat, filters \in Nat, L \in Nat :
           out = File[block].out /\ filters = File[block].filters /\ L = MemlimitThreading
    BY <1>3, NextType, StreamDecoderAssumption DEF IInv
  <1>7. block \in DOMAIN File /\ File[block].in \in Nat \ {0} /\ File' = File
    BY <1>1, <1>3, NextType DEF IInv, File
  <1>8. PICK y \in WorkerRecord :
           /\ ws' = [ws EXCEPT ![w] = y]
           /\ y.state = "IDLE" /\ y.in_filled = 0 /\ y.job = block /\ y.alive = TRUE
           /\ y.partial = "DISABLED" /\ y.mem_filters = filters
    <2>1. PICK n \in Nat : n = block
      BY <1>3
    <2>2. PICK x \in WorkerRecord : x = IdleWorker
      BY DEF IdleWorker, WorkerRecord, Partials, None
    <2>3. PICK y : y = [x EXCEPT !.job = n, !.alive = TRUE, !.mem_filters = filters]
      OBVIOUS
    <2>4. y \in WorkerRecord
      BY <2>3 DEF WorkerRecord
    <2>5. x.state = "IDLE" /\ x.in_filled = 0 /\ x.partial = "DISABLED"
      BY <2>2 DEF IdleWorker
    <2>6. /\ y.state = x.state /\ y.in_filled = x.in_filled /\ y.partial = x.partial
          /\ y.job = n /\ y.alive = TRUE /\ y.mem_filters = filters
      BY <2>3 DEF WorkerRecord
    <2>7. ws' = [ws EXCEPT ![w] = y]
      BY <1>2, <1>6, <2>1, <2>2, <2>3
    <2> QED BY <2>1, <2>4, <2>5, <2>6, <2>7
  <1>9. /\ ws' \in [Worker -> WorkerRecord] /\ ws'[w] = y
        /\ \A v \in Worker : v # w => ws'[v] = ws[v]
    BY <1>4, <1>8 DEF IInv, Types
  <1>10. PICK O \in Nat : O = Usage(out)
    BY <1>6, QueueAssumption DEF Usage
  <1>11. IsQueue(outq, Buffer, Nat) /\ Counted(outq)
    BY DEF IInv, Types, MemoryInv
  <1>12. PICK I \in Nat, A \in Nat : I = outq.mem_in_use /\ A = outq.mem_allocated
    BY <1>11, BuffersSized, CountsAreNat
  <1>13. PICK p : p = PreallocBuf(outq, out)
    OBVIOUS
  <1>14. /\ IsQueue(p, Buffer, Nat) /\ Counted(p) /\ p.active = outq.active /\ p.mem_in_use = I
         /\ Len(p.cache) > 0 /\ Last(p.cache) = out
         /\ \/ Reusable(outq, out) /\ p.mem_allocated = A
            \/ p.mem_allocated = I + O
    <2>1. /\ IsQueue(p, Buffer, Nat) /\ p.active = outq.active /\ p.mem_in_use = I
          /\ p.cache = <<out>> \/ (p.cache = outq.cache /\ Len(outq.cache) > 0 /\ Last(outq.cache) = out)
      BY <1>6, <1>11, <1>12, <1>13, Preallocated
    <2>2. Counted(p) /\ ((Reusable(outq, out) /\ p.mem_allocated = A) \/ p.mem_allocated = I + O)
      BY <1>6, <1>10, <1>11, <1>12, <1>13, BuffersSized, PreallocCounted
    <2>3. Len(<<out>>) > 0 /\ Last(<<out>>) = out
      BY DEF Last
    <2> QED BY <2>1, <2>2, <2>3
  <1>15. PICK b \in Buffer : b = FreshBuf(block, out, w) /\ b.job = block /\ b.worker = w /\ b.finished = FALSE
    <2>1. PICK n \in Nat, zero \in Int : n = block /\ zero = 0
      BY <1>3
    <2>2. PICK b : b = [job |-> n, size |-> out, worker |-> w, pos |-> zero, in_pos |-> zero,
                        finished |-> FALSE, ret |-> "STREAM_END"]
      OBVIOUS
    <2>3. PICK who \in Worker \cup {NoWorker} : who = w
      BY <1>4
    <2>4. PICK ret0 \in Rets : ret0 = "STREAM_END"
      BY DEF Rets
    <2>5. b = [job |-> n, size |-> out, worker |-> who, pos |-> zero, in_pos |-> zero,
               finished |-> FALSE, ret |-> ret0]
      BY <2>2, <2>3, <2>4
    <2>6. b \in Buffer
      BY <2>5 DEF Buffer
    <2>7. b = FreshBuf(block, out, w)
      BY <2>1, <2>2 DEF FreshBuf
    <2>8. b.job = n /\ b.worker = w /\ b.finished = FALSE
      BY <2>2
    <2> QED BY <2>1, <2>6, <2>7, <2>8
  <1>16. /\ IsQueue(outq', Buffer, Nat) /\ Counted(outq') /\ outq'.active = Append(outq.active, b)
         /\ outq'.mem_in_use = I + O /\ outq'.mem_allocated = p.mem_allocated
    <2>1. outq' = GetBuf(p, block, w)
      BY <1>2, <1>6, <1>13
    <2>2. FreshBuf(block, Last(p.cache), w) = b
      BY <1>14, <1>15
    <2>3. Counted(outq')
      BY <1>14, <1>15, <2>1, <2>2, BuffersSized, GetCounted
    <2>4. PICK g : g = GetBuf(p, block, w)
      OBVIOUS
    <2>5. /\ IsQueue(g, Buffer, Nat)
          /\ g.active = Append(p.active, b)
          /\ g.mem_in_use = p.mem_in_use + Usage(Last(p.cache))
          /\ g.mem_allocated = p.mem_allocated
      <3>1. IsQueue(p, Buffer, Nat) /\ Len(p.cache) > 0 /\ FreshBuf(block, Last(p.cache), w) \in Buffer
        BY <1>14, <1>15, <2>2
      <3> QED BY <2>2, <2>4, <3>1, Taken
    <2> QED BY <1>10, <1>14, <2>1, <2>3, <2>4, <2>5
  <1>17. ThreadInv'
    <2>1. ASSUME NEW v \in Worker, v # w PROVE ThreadSound(v)'
      BY <1>1, <1>4, <1>7, <1>9, <2>1 DEF IInv, ThreadInv, ThreadsSound, ThreadSound, Rests, Works
    <2>2. ThreadSound(w)'
      <3>1. ws'[w].job = block /\ ws'[w].in_filled = 0 /\ ws'[w].state = "IDLE"
        BY <1>8, <1>9
      <3>2. wl'[w].d.in = 0 /\ wl'[w].pc \in {"idle", "exited"}
        BY <1>1, <1>5 DEF Rests
      <3>3. Works(w)'
        BY <1>7, <3>1, <3>2 DEF Works
      <3> QED BY <1>1, <1>3, <1>4, <3>1, <3>2, <3>3 DEF ThreadSound
    <2>3. FedSound'
      <3>1. ~Free(w)' /\ w <= threads_initialized'
        BY <1>4 DEF Given
      <3>2. ws'[w].job = block /\ ws'[w].in_filled = 0 /\ ws'[w].state = "IDLE" /\ ws'[w].alive
        BY <1>8, <1>9
      <3>3. wl'[w].pc \in {"idle", "exited"}
        BY <1>1, <1>5 DEF Rests
      <3> QED BY <1>1, <1>2, <1>4, <1>7, <3>1, <3>2, <3>3 DEF FedSound
    <2> QED BY <2>1, <2>2, <2>3 DEF ThreadInv, ThreadsSound
  <1>18. PICK a \in Seq(Buffer), n \in Nat :
           /\ a = outq.active /\ n = Len(a) /\ outq'.active = Append(a, b) /\ DOMAIN a = 1 .. n
           /\ Len(Append(a, b)) = n + 1 /\ Append(a, b)[n + 1] = b
           /\ \A i \in 1 .. n : Append(a, b)[i] = a[i] /\ a[i] \in Buffer
    <2>1. PICK a \in Seq(Buffer) : a = outq.active
      BY <1>11 DEF IsQueue
    <2>2. Len(a) \in Nat
      OBVIOUS
    <2>3. PICK n \in Nat : n = Len(a)
      BY <2>2
    <2>4. /\ DOMAIN a = 1 .. n /\ Len(Append(a, b)) = n + 1 /\ Append(a, b)[n + 1] = b
          /\ \A i \in 1 .. n : Append(a, b)[i] = a[i] /\ a[i] \in Buffer
      BY <2>3
    <2> QED BY <1>16, <2>1, <2>3, <2>4
  <1>19. \A i \in 1 .. n + 1 : i \in 1 .. n \/ i = n + 1
    OBVIOUS
  <1>20. QueueOrdered'
    <2>1. \A i \in 1 .. n : a[i].job < block /\ a[i].job \in Nat
      BY <1>3, <1>18 DEF IInv, QueueInv, QueueOrdered, Buffer
    <2>2. \A i, j \in 1 .. n : i < j => a[i].job < a[j].job
      BY <1>18 DEF IInv, QueueInv, QueueOrdered
    <2>3. PICK c \in Seq(Buffer) : c = outq'.active
      BY <1>16 DEF IsQueue
    <2>4. DOMAIN c = 1 .. n + 1 /\ Len(c) = n + 1 /\ c[n + 1] = b /\ \A i \in 1 .. n : c[i] = a[i]
      BY <1>18, <2>3
    <2>5. \A i \in 1 .. n + 1 : c[i].job <= block
      BY <1>3, <1>15, <1>19, <2>1, <2>4
    <2>6. \A i, j \in 1 .. n + 1 : i < j => c[i].job < c[j].job
      <3>1. ASSUME NEW i \in 1 .. n + 1, NEW j \in 1 .. n + 1, i < j PROVE c[i].job < c[j].job
        <4>1. i \in 1 .. n
          BY <3>1
        <4>2. CASE j \in 1 .. n
          BY <2>2, <2>4, <3>1, <4>1, <4>2
        <4>3. CASE j = n + 1
          BY <1>15, <2>1, <2>4, <4>1, <4>3
        <4> QED BY <1>19, <4>2, <4>3
      <3> QED BY <3>1
    <2> QED BY <1>1, <1>3, <1>15, <2>3, <2>4, <2>5, <2>6 DEF QueueOrdered
  <1>21. BufferOwned'
    <2>1. ASSUME NEW i \in 1 .. n PROVE Owned(a[i])'
      <3>1. PICK d \in Buffer : d = a[i] /\ Owned(d)
        BY <1>18 DEF IInv, QueueInv, BufferOwned
      <3>2. d.worker \in Worker \cup {NoWorker}
        BY DEF Buffer
      <3>3. CASE d.finished \/ d.worker = NoWorker
        BY <3>1, <3>3 DEF Owned
      <3>4. CASE d.worker \in Worker /\ Given(d.worker) /\ ws[d.worker].job = d.job
        BY <1>4, <1>9, <3>1, <3>4 DEF Owned
      <3> QED BY <3>1, <3>2, <3>3, <3>4 DEF Owned
    <2>2. Owned(b)'
      BY <1>4, <1>8, <1>9, <1>15 DEF Owned
    <2>3. ASSUME NEW i \in 1 .. n + 1 PROVE Owned(outq.active[i])'
      <3>1. CASE i \in 1 .. n
        BY <1>18, <2>1, <3>1
      <3>2. CASE i = n + 1
        BY <1>18, <2>2, <3>2
      <3> QED BY <1>19, <3>1, <3>2
    <2> QED BY <1>18, <2>3 DEF BufferOwned
  <1>22. PartialAtHead'
    <2>1. ~Partly(w)'
      BY <1>1, <1>5, <1>8, <1>9 DEF Partly, Rests
    <2>2. ASSUME NEW v \in Worker, v # w, Partly(v)' PROVE ws'[v].job <= Head(outq'.active).job
      <3>1. Partly(v) /\ ws'[v].job = ws[v].job
        BY <1>1, <1>9, <2>2 DEF Partly
      <3>2. CASE a = <<>>
        <4>1. Head(Append(a, b)) = b
          BY <3>2
        <4>2. ws[v].job <= block
          BY DEF IInv, ThreadInv, ThreadsSound, ThreadSound
        <4> QED BY <1>15, <1>18, <3>1, <4>1, <4>2
      <3>3. CASE a # <<>>
        <4>1. Head(Append(a, b)) = Head(a)
          BY <3>3
        <4>2. ws[v].job <= Head(a).job
          BY <1>18, <3>1, <3>3 DEF IInv, QueueInv, PartialAtHead
        <4> QED BY <1>18, <3>1, <4>1, <4>2
      <3> QED BY <3>2, <3>3
    <2> QED BY <2>1, <2>2 DEF PartialAtHead
  <1>23. RunningFits'
    <2>1. mem_in_use + I <= L /\ mem_in_use + I + O <= L
      BY <1>1, <1>6, <1>10, <1>12 DEF IInv, MemoryInv, RunningFits, RunningMemory
    <2>2. mem_in_use \in Int
      BY DEF IInv, Types
    <2>3. RunningMemory' <= L
      BY <1>1, <1>16, <2>1, <2>2 DEF RunningMemory
    <2> QED BY <1>2, <1>6, <2>3 DEF RunningFits, Committed
  <1>24. PICK C \in Int, U \in Int : C = mem_cached /\ U = mem_in_use
    BY DEF IInv, Types
  <1>25. CachedExact' /\ mem_cached' = C - HeadFilters /\ HeadFilters \in Nat
    <2>1. CASE threads_free = <<>>
      <3>1. ToSet(threads_free) = {} /\ threads_free' = <<>> /\ mem_cached' = C
        BY <1>2, <1>24, <2>1 DEF ToSet, Taking
      <3>2. C = SumOver(Filters, {}, Threads)
        BY <1>24, <3>1 DEF IInv, MemoryInv, CachedExact
      <3>3. SumOver(Filters, {}, Threads) = 0 /\ SumOver(Filters', {}, Threads) = 0
        BY QueueAssumption, SumOverNone
      <3>4. ToSet(threads_free') = {}
        BY <3>1 DEF ToSet
      <3>5. C = 0 /\ HeadFilters = 0 /\ mem_cached' = 0
        BY <2>1, <3>1, <3>2, <3>3 DEF HeadFilters
      <3>6. CachedExact'
        BY <3>3, <3>4, <3>5 DEF CachedExact
      <3> QED BY <3>5, <3>6
    <2>2. CASE threads_free # <<>>
      <3>1. PICK s, t : s = ToSet(threads_free) /\ t = ToSet(threads_free')
        OBVIOUS
      <3>2. threads_free' = Tail(threads_free) /\ w = Head(threads_free)
        BY <1>2, <2>2 DEF Taking, Next1
      <3>3. w \in s /\ s \subseteq Worker /\ t = s \ {w} /\ t \subseteq s
        BY <2>2, <3>1, <3>2, HeadAndTail DEF IInv, Types
      <3>4. PICK u, v : u = Filters /\ v = Filters'
        OBVIOUS
      <3>5. /\ \A i \in Worker : u[i] \in Nat /\ u[i] = ws[i].mem_filters
            /\ \A i \in t : u[i] = v[i]
        <4>1. \A i \in Worker : u[i] = ws[i].mem_filters /\ v[i] = ws'[i].mem_filters
          BY <3>4 DEF Filters
        <4>2. \A i \in Worker : ws[i].mem_filters \in Nat
          BY DEF IInv, Types, WorkerRecord
        <4> QED BY <1>9, <3>3, <4>1, <4>2
      <3>6. IntsOn(u, t) /\ IntsOn(u, s \cap (1 .. Threads)) /\ w \in 1 .. Threads /\ Threads \in Nat
            /\ IntsOn(u, t \cap (1 .. Threads))
        BY <1>4, <3>3, <3>5, QueueAssumption DEF IntsOn, Worker
      <3>7. SumOver(u, s, Threads) = u[w] + SumOver(u, t, Threads)
        BY <3>3, <3>6, SumOverRemove
      <3>8. SumOver(u, t, Threads) = SumOver(v, t, Threads)
        BY <3>5, <3>6, SumOverSame
      <3>9. C = SumOver(u, s, Threads)
        BY <1>24, <3>1, <3>4 DEF IInv, MemoryInv, CachedExact
      <3>10. mem_cached' = C - u[w] /\ HeadFilters = u[w] /\ u[w] \in Nat
        BY <1>2, <1>4, <1>24, <2>2, <3>2, <3>5 DEF HeadFilters
      <3>11. SumOver(u, t, Threads) \in Int
        BY <3>6, SumOverType
      <3>12. mem_cached' = SumOver(v, t, Threads)
        BY <3>7, <3>8, <3>9, <3>10, <3>11
      <3> QED BY <3>1, <3>4, <3>10, <3>12 DEF CachedExact
    <2> QED BY <2>1, <2>2
  <1>26. AllocatedFits'
    <2> SUFFICES ASSUME ~overtaken, threads_free = seen_free.free
                 PROVE  AllocatedMemory' <= L
      BY <1>2, <1>6 DEF AllocatedFits
    <2>1. PICK H \in Nat : H = HeadFilters
      BY <1>25
    <2>2. /\ U + C - H + I + O <= L
          /\ Reusable(outq, out) => U + C - H + A <= L
      BY <1>1, <1>6, <1>10, <1>12, <1>24, <2>1 DEF IInv, MemoryInv, AllocatedFits, Others
    <2>3. AllocatedMemory' = U + (C - H) + p.mem_allocated
      BY <1>1, <1>16, <1>24, <1>25, <2>1 DEF AllocatedMemory
    <2> QED BY <1>14, <2>2, <2>3
  <1>27. MemoryInv'
    <2>1. ReadyToStart' /\ Behind' /\ Seen'
      BY <1>2 DEF ReadyToStart, Committed, Behind, Seen
    <2> QED BY <1>16, <1>23, <1>25, <1>26, <2>1 DEF MemoryInv
  <1>28. Types' /\ Where'
    <2>1. mem_in_use' \in Int /\ mem_cached' \in Int
      BY <1>1, <1>24, <1>25
    <2> QED BY <1>1, <1>2, <1>3, <1>4, <1>9, <1>16, <2>1 DEF IInv, Types, Where
  <1> QED BY <1>3, <1>17, <1>20, <1>21, <1>22, <1>27, <1>28 DEF IInv, QueueInv

LEMMA StartThreadStep == ASSUME IInv, StartThread PROVE IInv'
  <1>1. /\ UNCHANGED <<setup, outq, threads_free, threads_initialized, mem_in_use, mem_cached, wl, overtaken>>
        /\ UNCHANGED <<sequence, block, thr, direct, seen_free, avail, eaten, ret, pending>>
        /\ pc = "start" /\ pc' = "partial" /\ ws' = [ws EXCEPT ![thr].state = "RUN"]
    BY DEF StartThread, GoTo, call, coder, kept, locals, shared, flow, hist
  <1>2. InputFits' /\ ret # "MEM_ERROR" /\ sequence = "BLOCK_THR_INIT" /\ Fed /\ ~Fresh'
    BY <1>1, InputKept DEF IInv, Where, Fed, Fresh
  <1>3. /\ thr \in Worker /\ thr <= threads_initialized /\ ws[thr].job = block
        /\ ws[thr].in_filled <= File[block].in
        /\ ws[thr].in_filled < File[block].in => ws[thr].alive /\ ~Free(thr)
        /\ ~Free(thr) /\ ws[thr].state = "IDLE" /\ wl[thr].pc \in {"idle", "exited"}
    BY <1>1, <1>2 DEF IInv, ThreadInv, FedSound
  <1>4. PICK x \in WorkerRecord : x = ws[thr]
    BY <1>3 DEF IInv, Types
  <1>5. PICK y : y = [x EXCEPT !.state = "RUN"]
    OBVIOUS
  <1>6. y \in WorkerRecord
    BY <1>5 DEF WorkerRecord
  <1>7. /\ y.in_filled = x.in_filled /\ y.job = x.job /\ y.alive = x.alive /\ y.partial = x.partial
        /\ y.mem_filters = x.mem_filters
    BY <1>5 DEF WorkerRecord
  <1>8. /\ ws' \in [Worker -> WorkerRecord] /\ ws'[thr] = y
        /\ \A w \in Worker : w # thr => ws'[w] = ws[w]
    BY <1>1, <1>3, <1>4, <1>5, <1>6 DEF IInv, Types
  <1>9. \A w \in Worker : /\ ws'[w].in_filled = ws[w].in_filled /\ ws'[w].job = ws[w].job
                          /\ ws'[w].alive = ws[w].alive /\ ws'[w].partial = ws[w].partial
                          /\ ws'[w].mem_filters = ws[w].mem_filters
    BY <1>4, <1>7, <1>8
  <1>10. File' = File /\ \A w : Given(w)' = Given(w)
    BY <1>1 DEF Given, Free, File
  <1>11. ThreadInv'
    <2>1. ASSUME NEW w \in Worker PROVE ThreadSound(w)'
      <3>1. ThreadSound(w)
        BY DEF IInv, ThreadInv, ThreadsSound
      <3>2. CASE w = thr
        <4>1. Given(w) /\ wl[w].pc # "report"
          BY <1>3, <3>2 DEF Given
        <4> QED BY <1>1, <1>9, <1>10, <3>1, <4>1 DEF ThreadSound, Works
      <3>3. CASE w # thr
        BY <1>1, <1>8, <1>10, <3>1, <3>3 DEF ThreadSound, Works, Rests
      <3> QED BY <3>2, <3>3
    <2>2. FedSound'
      BY <1>1, <1>3, <1>9, <1>10 DEF FedSound, Free
    <2> QED BY <2>1, <2>2 DEF ThreadInv, ThreadsSound
  <1>12. QueueInv'
    <2>1. QueueOrdered'
      BY <1>1, <1>2 DEF IInv, QueueInv, QueueOrdered, Fed
    <2>2. BufferOwned'
      BY <1>1, <1>9, <1>10, OwnedKept
    <2>3. PartialAtHead'
      BY <1>1, <1>9 DEF IInv, QueueInv, PartialAtHead, Partly
    <2> QED BY <2>1, <2>2, <2>3 DEF QueueInv
  <1>13. MemoryInv'
    <2>1. Filters' = Filters
      BY <1>9 DEF Filters
    <2>2. CachedExact' /\ Behind' /\ Seen' /\ ReadyToStart' /\ Counted(outq')
      BY <1>1, <2>1 DEF IInv, MemoryInv, CachedExact, Behind, Seen, ReadyToStart, Committed
    <2>3. RunningFits'
      BY <1>1 DEF IInv, MemoryInv, RunningFits, RunningMemory, Committed
    <2>4. AllocatedFits'
      BY <1>1 DEF IInv, MemoryInv, AllocatedFits, AllocatedMemory
    <2> QED BY <2>2, <2>3, <2>4 DEF MemoryInv
  <1>14. Types' /\ Where'
    BY <1>1, <1>2, <1>8 DEF IInv, Types, Where
  <1> QED BY <1>2, <1>11, <1>12, <1>13, <1>14 DEF IInv

LEMMA EnablePartialStep == ASSUME IInv, EnablePartial PROVE IInv'
  <1>1. /\ UNCHANGED <<setup, threads_free, threads_initialized, mem_in_use, mem_cached, wl, overtaken>>
        /\ UNCHANGED <<block, thr, direct, avail, eaten, ret, pending>>
        /\ pc = "partial" /\ pc' = "code" /\ sequence' = "BLOCK_THR_RUN" /\ seen_free' = NothingSeen
        /\ outq' = TakeHeadWorker(outq) /\ ws' = AskedForPartial(outq)
    BY DEF EnablePartial, GoTo, call, kept, flow, hist
  <1>2. /\ ret # "MEM_ERROR" /\ sequence = "BLOCK_THR_INIT" /\ Fed /\ ~Fresh' /\ InputFits
    BY <1>1 DEF IInv, Where, Fed, Fresh
  <1>3. IsQueue(outq, Buffer, Nat) /\ Counted(outq)
    BY DEF IInv, Types, MemoryInv
  <1>4. /\ IsQueue(outq', Buffer, Nat) /\ Counted(outq') /\ Drops(outq'.active, outq.active)
        /\ outq'.mem_in_use = outq.mem_in_use /\ outq'.mem_allocated = outq.mem_allocated
        /\ (outq.active # <<>> => outq'.active # <<>> /\ Head(outq'.active).job = Head(outq.active).job)
    BY <1>1, <1>3, HeadTaken
  <1>5. PICK b \in Seq(Buffer) : b = outq.active
    BY <1>3 DEF IsQueue
  <1>6. Drops(b, b)
    BY DropsNone
  <1>7. /\ ws' \in [Worker -> WorkerRecord]
        /\ \A w \in Worker : SameWork(ws'[w], ws[w]) /\ ws'[w].job = ws[w].job
        /\ \A w \in Worker : Partly(w)' => Partly(w) \/ outq.active = <<>> \/ ws[w].job <= Head(outq.active).job
    BY <1>1, <1>3, <1>5, <1>6, Asked
  <1>8. outq.active = <<>> => outq'.active = <<>>
    BY <1>4, <1>5 DEF Drops
  <1>9. ThreadInv'
    BY <1>1, <1>2, <1>7, ThreadsKept DEF SameWork
  <1>10. QueueInv'
    <2>1. QueueOrdered'
      BY <1>1, <1>2, <1>4, OrderKept
    <2>2. BufferOwned'
      BY <1>1, <1>4, <1>7, OwnersKept DEF Given, Free
    <2>3. PartialAtHead'
      BY <1>4, <1>7, <1>8, HeadKept
    <2> QED BY <2>1, <2>2, <2>3 DEF QueueInv
  <1>11. MemoryInv'
    <2>1. Filters' = Filters
      BY <1>7, SameFilters
    <2>2. CachedExact' /\ Behind' /\ Seen' /\ ReadyToStart'
      BY <1>1, <2>1 DEF IInv, MemoryInv, CachedExact, Behind, Seen, ReadyToStart, Committed
    <2>3. RunningFits'
      BY <1>1, <1>4 DEF IInv, MemoryInv, RunningFits, RunningMemory, Committed
    <2>4. AllocatedFits'
      BY <1>1, <1>4 DEF IInv, MemoryInv, AllocatedFits, AllocatedMemory
    <2> QED BY <1>4, <2>2, <2>3, <2>4 DEF MemoryInv
  <1>12. InputFits'
    <2>1. Flows
      BY <1>1, <1>2 DEF InputFits, Flows
    <2> QED BY <1>1, <1>2, <2>1, StillFits DEF InputFits, AtBlock
  <1>13. Types' /\ Where'
    <2>1. seen_free'.total \in Int /\ seen_free'.free \in Seq(Worker)
      <3>1. NothingSeen.total \in Int /\ NothingSeen.free \in Seq(Worker)
        BY DEF NothingSeen
      <3> QED BY <1>1, <3>1
    <2> QED BY <1>1, <1>2, <1>4, <1>7, <2>1 DEF IInv, Types, Where
  <1> QED BY <1>9, <1>10, <1>11, <1>12, <1>13 DEF IInv

(* Threads that were never made, and the queue without a buffer.           *)
LEMMA IdleTypes ==
  /\ [w \in Worker |-> IdleWorker] \in [Worker -> WorkerRecord]
  /\ [w \in Worker |-> IdleThread] \in [Worker -> ThreadRecord]
  /\ IdleWorker.state = "IDLE" /\ IdleWorker.in_filled = 0 /\ IdleWorker.job = 0
  /\ IdleWorker.partial = "DISABLED" /\ IdleWorker.mem_filters = 0
  /\ IdleThread.pc = "idle" /\ IdleThread.d.in = 0 /\ IdleThread.partial = "DISABLED"
  <1>1. IdleWorker \in WorkerRecord
    BY DEF IdleWorker, WorkerRecord, Partials, None
  <1>2. IdleThread \in ThreadRecord
    <2>1. PICK zero \in Int : zero = 0
      OBVIOUS
    <2>2. PICK d : d = [in |-> zero, out |-> zero]
      OBVIOUS
    <2>3. PICK none \in Partials, ok \in Rets : none = "DISABLED" /\ ok = "OK"
      BY DEF Partials, Rets
    <2>4. PICK t : t = [pc |-> "idle", d |-> d, seen |-> zero, partial |-> none, ret |-> ok]
      OBVIOUS
    <2>5. t \in ThreadRecord
      BY <2>2, <2>4 DEF ThreadRecord
    <2>6. t = IdleThread
      BY <2>1, <2>2, <2>3, <2>4 DEF IdleThread, FreshDecoder
    <2> QED BY <2>5, <2>6
  <1>3. IdleThread.pc = "idle" /\ IdleThread.d.in = 0 /\ IdleThread.partial = "DISABLED"
    BY DEF IdleThread, FreshDecoder
  <1>4. /\ IdleWorker.state = "IDLE" /\ IdleWorker.in_filled = 0 /\ IdleWorker.job = 0
        /\ IdleWorker.partial = "DISABLED" /\ IdleWorker.mem_filters = 0
    BY DEF IdleWorker, None
  <1> QED BY <1>1, <1>2, <1>3, <1>4

(* An idle thread is sound as long as it has no Block.                     *)
LEMMA IdleSound ==
  ASSUME block' \in Nat, threads_initialized' = 0,
         ws' = [w \in Worker |-> IdleWorker], wl' = [w \in Worker |-> IdleThread]
  PROVE  ThreadsSound'
  <1>1. ASSUME NEW w \in Worker PROVE ThreadSound(w)'
    <2>1. ws'[w] = IdleWorker /\ wl'[w] = IdleThread
      OBVIOUS
    <2>2. /\ ws'[w].state = "IDLE" /\ ws'[w].job = 0
          /\ wl'[w].pc = "idle" /\ wl'[w].d.in = 0
      BY <2>1, IdleTypes
    <2>3. ~Given(w)'
      BY DEF Given, Worker
    <2>4. Rests(w)'
      BY <2>2 DEF Rests
    <2> QED BY <2>2, <2>3, <2>4 DEF ThreadSound
  <1> QED BY <1>1 DEF ThreadsSound

LEMMA NothingQueued ==
  ASSUME outq'.active = <<>>
  PROVE  QueueInv'
  BY DEF QueueInv, QueueOrdered, BufferOwned, PartialAtHead

LEMMA EmptyQueue ==
  ASSUME NEW r, r.active = <<>>, r.cache = <<>>, Counted(r)
  PROVE  r.mem_in_use = 0 /\ r.mem_allocated = 0
  <1>1. SizesOf(r.active) = <<>>
    BY DEF SizesOf
  <1>2. r.mem_in_use = UsageOf(<<>>) /\ r.mem_allocated = r.mem_in_use + UsageOf(<<>>)
    BY <1>1 DEF Counted
  <1> QED BY <1>2, UsageNone

LEMMA JoinDirectStep == ASSUME IInv, JoinDirect PROVE IInv'
  <1>1. /\ UNCHANGED <<setup, outq, thr, block, seen_free, avail, eaten, overtaken>>
        /\ pc = "joindirect" /\ threads_initialized' = 0 /\ threads_free' = <<>>
        /\ mem_in_use' = 0 /\ mem_cached' = 0
        /\ ws' = [w \in Worker |-> IdleWorker] /\ wl' = [w \in Worker |-> IdleThread]
        /\ direct' = [NoDirect EXCEPT !.mem = File[block].filters]
        /\ \/ sequence' = "BLOCK_DIRECT_RUN" /\ pc' = "code" /\ ret' = ret
           \/ sequence' = sequence /\ Leaves
    <2>1. Return("MEM_ERROR") => Leaves
      BY Returns DEF Leaves
    <2>2. \/ sequence' = "BLOCK_DIRECT_RUN" /\ pc' = "code" /\ ret' = ret
          \/ sequence' = sequence /\ Return("MEM_ERROR")
      BY DEF JoinDirect, GoTo, call
    <2>3. /\ UNCHANGED <<setup, outq, thr, block, seen_free, avail, eaten, overtaken>>
          /\ pc = "joindirect" /\ threads_initialized' = 0 /\ threads_free' = <<>>
          /\ mem_in_use' = 0 /\ mem_cached' = 0
          /\ ws' = [w \in Worker |-> IdleWorker] /\ wl' = [w \in Worker |-> IdleThread]
          /\ direct' = [NoDirect EXCEPT !.mem = File[block].filters]
      BY DEF JoinDirect, flow, hist, locals
    <2> QED BY <2>1, <2>2, <2>3
  <1>2. /\ InputFits /\ ret # "MEM_ERROR" /\ sequence = "BLOCK_DIRECT_INIT" /\ block # 0 /\ block \in Nat
        /\ outq.active = <<>> /\ outq.cache = <<>> /\ Counted(outq) /\ IsQueue(outq, Buffer, Nat)
        /\ seen_free.total \in Int /\ seen_free.free \in Seq(Worker)
    BY <1>1 DEF IInv, Where, InputFits, AtBlock, MemoryInv, Types
  <1>3. ~Fed' /\ ~Committed' /\ pc' \in {"code", "app"} /\ AtBlock /\ pc' \notin {"start", "get", "free"}
    BY <1>1, <1>2 DEF Fed, Committed, Leaves, AtBlock
  <1>4. /\ direct' = [in |-> direct'.in, out |-> direct'.out, mem |-> direct'.mem]
        /\ direct'.in = 0
    <2>1. PICK m, zero : m = File[block].filters /\ zero = 0
      OBVIOUS
    <2>2. PICK d : d = [in |-> zero, out |-> zero, mem |-> zero]
      OBVIOUS
    <2>3. direct' = [d EXCEPT !.mem = m]
      BY <1>1, <2>1, <2>2 DEF NoDirect
    <2>4. direct' = [in |-> zero, out |-> zero, mem |-> m]
      BY <2>2, <2>3
    <2> QED BY <2>1, <2>4
  <1>5. InputFits'
    <2>1. File' = File /\ FileSize' = FileSize
      BY <1>1 DEF File, FileSize, Before
    <2>2. 0 \in 0 .. File[block].in
      <3>1. File[block].in \in Nat
        BY <1>2, NextType
      <3> QED BY <3>1
    <2> QED BY <1>1, <1>2, <1>4, <2>1, <2>2 DEF InputFits
  <1>6. ThreadInv'
    <2>1. ThreadsSound'
      BY <1>1, <1>2, IdleSound
    <2> QED BY <1>3, <2>1 DEF ThreadInv, FedSound
  <1>7. QueueInv'
    <2>1. outq'.active = <<>>
      BY <1>1, <1>2
    <2> QED BY <2>1, NothingQueued
  <1>8. MemoryInv'
    <2>1. outq'.mem_in_use = 0 /\ outq'.mem_allocated = 0 /\ Counted(outq')
      BY <1>1, <1>2, EmptyQueue
    <2>2. RunningFits' /\ AllocatedFits'
      BY <1>1, <1>3, <2>1, StreamDecoderAssumption
      DEF RunningFits, AllocatedFits, RunningMemory, AllocatedMemory
    <2>3. CachedExact'
      <3>1. ToSet(threads_free') = {}
        BY <1>1 DEF ToSet
      <3> QED BY <1>1, <3>1, QueueAssumption, SumOverNone DEF CachedExact
    <2> QED BY <1>3, <2>1, <2>2, <2>3 DEF MemoryInv, ReadyToStart, Behind, Seen
  <1>9. Types'
    <2>1. ws' \in [Worker -> WorkerRecord] /\ wl' \in [Worker -> ThreadRecord]
      BY <1>1, IdleTypes
    <2>2. threads_free' \in Seq(Worker) /\ Distinct(threads_free') /\ threads_initialized' \in 0 .. Threads
          /\ \A i \in DOMAIN threads_free' : threads_free'[i] <= threads_initialized'
      BY <1>1, QueueAssumption DEF Distinct
    <2> QED BY <1>1, <1>2, <2>1, <2>2 DEF Types
  <1>10. Where'
    BY <1>1, <1>2, <1>3 DEF Where, Leaves
  <1> QED BY <1>5, <1>6, <1>7, <1>8, <1>9, <1>10 DEF IInv

LEMMA JoinStep == ASSUME IInv, Join PROVE IInv'
  <1>1. /\ UNCHANGED <<setup, threads_free, threads_initialized, mem_in_use, mem_cached, ws, wl, overtaken>>
        /\ UNCHANGED <<sequence, block, thr, direct, seen_free, avail, eaten, ret, pending>>
        /\ pc = "join" /\ pc' = "ended" /\ outq' = Empty
    BY DEF Join, GoTo, call, coder, kept, locals, flow, hist
  <1>2. /\ outq'.active = <<>> /\ outq'.mem_in_use = 0 /\ outq'.mem_allocated = 0 /\ Counted(outq')
        /\ IsQueue(outq', Buffer, Nat)
    <2>1. IsQueue(Empty, Buffer, Nat) /\ Empty.active = <<>> /\ Empty.mem_in_use = 0 /\ Empty.mem_allocated = 0
      BY DEF Empty, IsQueue
    <2> QED BY <1>1, <2>1, EmptyCounted
  <1>3. /\ mem_in_use \in Int /\ mem_cached \in Int /\ MemlimitThreading \in Int
        /\ outq.mem_in_use \in Nat /\ outq.mem_allocated \in Nat
    <2>1. IsQueue(outq, Buffer, Nat) /\ Counted(outq)
      BY DEF IInv, Types, MemoryInv
    <2> QED BY <2>1, BuffersSized, CountsAreNat, StreamDecoderAssumption DEF IInv, Types
  <1>4. InputFits'
    BY <1>1, InputKept DEF IInv
  <1>5. ThreadInv'
    <2>1. \A w \in Worker : SameTask(ws'[w], ws[w])
      BY <1>1 DEF SameTask
    <2>2. block' \in {block, block + 1}
      BY <1>1
    <2> QED BY <1>1, <2>1, <2>2, ThreadsKept DEF Fed
  <1>6. QueueInv'
    BY <1>2, NothingQueued
  <1>7. MemoryInv'
    <2>1. Filters' = Filters
      BY <1>1 DEF Filters
    <2>2. CachedExact' /\ Behind' /\ Seen' /\ ReadyToStart'
      BY <1>1, <2>1 DEF IInv, MemoryInv, CachedExact, Behind, Seen, ReadyToStart, Committed
    <2>3. RunningFits'
      BY <1>1, <1>2, <1>3 DEF IInv, MemoryInv, RunningFits, RunningMemory, Committed
    <2>4. AllocatedFits'
      BY <1>1, <1>2, <1>3 DEF IInv, MemoryInv, AllocatedFits, AllocatedMemory
    <2> QED BY <1>2, <2>2, <2>3, <2>4 DEF MemoryInv
  <1>8. Types' /\ Where'
    BY <1>1, <1>2 DEF IInv, Types, Where
  <1> QED BY <1>4, <1>5, <1>6, <1>7, <1>8 DEF IInv

-----------------------------------------------------------------------------
(* What a worker's thread does on its own: look for work, and decode.      *)

(* Nothing else of the application's thread changes, but that it may have  *)
(* been woken up.                                                          *)
Woken ==
  /\ pc' = pc \/ (pc = "sleep" /\ pc' = "read")
  /\ UNCHANGED <<setup, sequence, block, thr, direct, seen_free, avail, eaten, ret, pending, can_start,
                 threads_initialized, overtaken>>

LEMMA WokenKeeps ==
  ASSUME IInv, Woken
  PROVE  /\ InputFits' /\ File' = File /\ Fed' = Fed /\ Fresh' = Fresh /\ Committed' = Committed
         /\ (pc' = "start") = (pc = "start") /\ (pc' = "get") = (pc = "get")
         /\ (pc' = "free") = (pc = "free")
         /\ (outq'.active = <<>> \/ outq.active # <<>>) /\ outq'.cache = outq.cache => Where'
  <1>1. InputFits' /\ File' = File
    BY InputKept DEF IInv, Woken, File
  <1>2. Fed' = Fed /\ Fresh' = Fresh /\ Committed' = Committed
    BY DEF Woken, Fed, Fresh, Committed
  <1>3. (outq'.active = <<>> \/ outq.active # <<>>) /\ outq'.cache = outq.cache => Where'
    BY DEF Woken, IInv, Where
  <1>4. /\ (pc' = "start") = (pc = "start") /\ (pc' = "get") = (pc = "get")
        /\ (pc' = "free") = (pc = "free")
    BY DEF Woken
  <1> QED BY <1>1, <1>2, <1>3, <1>4

(* What one thread does leaves the others as they are.                     *)
LEMMA OtherThreads ==
  ASSUME IInv, Woken, NEW w \in Worker, \A v \in Worker : v # w => ws'[v] = ws[v] /\ wl'[v] = wl[v],
         \A v \in Worker : v # w => Given(v)' = Given(v),
         ThreadSound(w)',
         (Fed /\ thr = w) =>
           /\ ws'[w].job = ws[w].job /\ ws'[w].in_filled = ws[w].in_filled
           /\ ws'[w].in_filled < File[block].in => ws'[w].alive /\ Free(w)' = Free(w)
           /\ pc # "start"
  PROVE  ThreadInv'
  <1>1. File' = File /\ Fed' = Fed /\ (pc' = "start") = (pc = "start") /\ block' = block /\ thr' = thr
        /\ threads_initialized' = threads_initialized
    BY WokenKeeps DEF Woken
  <1>2. ASSUME NEW v \in Worker, v # w PROVE ThreadSound(v)'
    <2>1. ThreadSound(v)
      BY DEF IInv, ThreadInv, ThreadsSound
    <2> QED BY <1>1, <1>2, <2>1 DEF ThreadSound, Works, Rests
  <1>3. ASSUME Fed, thr # w PROVE FedSound'
    <2>1. /\ thr \in Worker /\ thr <= threads_initialized /\ ws[thr].job = block
          /\ ws[thr].in_filled <= File[block].in
          /\ ws[thr].in_filled < File[block].in => ws[thr].alive /\ ~Free(thr)
          /\ pc = "start" => ~Free(thr) /\ ws[thr].state = "IDLE" /\ wl[thr].pc \in {"idle", "exited"}
      BY <1>3 DEF IInv, ThreadInv, FedSound
    <2>2. Free(thr)' = Free(thr)
      <3>1. PICK v \in Worker : v = thr
        BY <2>1
      <3>2. (v <= threads_initialized /\ ~Free(v)') = (v <= threads_initialized /\ ~Free(v))
        BY <1>1, <1>3, <3>1 DEF Given
      <3>3. Free(v)' = Free(v)
        BY <2>1, <3>1, <3>2 DEF Free
      <3> QED BY <1>1, <3>1, <3>3 DEF Free
    <2> QED BY <1>1, <1>3, <2>1, <2>2 DEF FedSound, Free
  <1>4. ASSUME Fed, thr = w PROVE FedSound'
    <2>1. /\ thr <= threads_initialized /\ ws[thr].job = block /\ ws[thr].in_filled <= File[block].in
          /\ ws[thr].in_filled < File[block].in => ~Free(thr)
      BY <1>4 DEF IInv, ThreadInv, FedSound
    <2> QED BY <1>1, <1>4, <2>1 DEF FedSound, Free
  <1>5. FedSound'
    BY <1>1, <1>3, <1>4 DEF FedSound
  <1> QED BY <1>2, <1>5 DEF ThreadInv, ThreadsSound

(* A step that touches nothing but what belongs to one thread.             *)
LEMMA OwnStep ==
  ASSUME IInv, Woken, UNCHANGED <<outq, threads_free, mem_in_use, mem_cached>>,
         ws' \in [Worker -> WorkerRecord], wl' \in [Worker -> ThreadRecord],
         NEW w \in Worker, \A v \in Worker : v # w => ws'[v] = ws[v] /\ wl'[v] = wl[v],
         ws'[w].job = ws[w].job, ws'[w].mem_filters = ws[w].mem_filters,
         ws'[w].in_filled = ws[w].in_filled,
         ThreadSound(w)', Partly(w)' => Partly(w),
         (Fed /\ thr = w) => (ws[w].in_filled < File[block].in => ws'[w].alive) /\ pc # "start"
  PROVE  IInv'
  <1>1. /\ InputFits' /\ Where' /\ Fed' = Fed /\ Fresh' = Fresh /\ Committed' = Committed /\ File' = File
        /\ (pc' = "get") = (pc = "get") /\ (pc' = "free") = (pc = "free")
        /\ UNCHANGED <<block, threads_initialized, seen_free, overtaken, ret>>
    BY WokenKeeps DEF Woken
  <1>2. \A v : Given(v)' = Given(v) /\ Free(v)' = Free(v)
    BY <1>1 DEF Given, Free
  <1>3. ThreadInv'
    BY <1>2, OtherThreads
  <1>4. \A v \in Worker : ws'[v].job = ws[v].job /\ ws'[v].mem_filters = ws[v].mem_filters
                          /\ (Partly(v)' => Partly(v))
    BY DEF Partly
  <1>5. QueueInv'
    <2>1. QueueOrdered'
      BY <1>1 DEF IInv, QueueInv, QueueOrdered
    <2>2. BufferOwned'
      BY <1>2, <1>4, OwnedKept
    <2>3. PartialAtHead'
      BY <1>4 DEF IInv, QueueInv, PartialAtHead
    <2> QED BY <2>1, <2>2, <2>3 DEF QueueInv
  <1>6. MemoryInv'
    <2>1. Filters' = Filters
      BY <1>4 DEF Filters
    <2>2. CachedExact' /\ Behind' /\ Seen' /\ ReadyToStart' /\ Counted(outq')
      BY <1>1, <2>1 DEF IInv, MemoryInv, CachedExact, Behind, Seen, ReadyToStart
    <2>3. RunningFits'
      BY <1>1 DEF IInv, MemoryInv, RunningFits, RunningMemory, NextBlock, NextIn
    <2>4. AllocatedFits'
      <3>1. threads_free # <<>> => Head(threads_free) \in Worker
        BY DEF IInv, Types
      <3>2. HeadFilters' = HeadFilters
        BY <1>4, <3>1 DEF HeadFilters
      <3> QED BY <1>1, <3>2 DEF IInv, MemoryInv, AllocatedFits, AllocatedMemory, Others
    <2> QED BY <2>2, <2>3, <2>4 DEF MemoryInv
  <1>7. Types'
    BY <1>1 DEF IInv, Types
  <1> QED BY <1>1, <1>3, <1>5, <1>6, <1>7 DEF IInv

(* What is known of the thread that takes the step.                        *)
LEMMA ThreadTyped ==
  ASSUME IInv, NEW w \in Worker
  PROVE  /\ ws[w] \in WorkerRecord /\ wl[w] \in ThreadRecord
         /\ wl[w].d \in [in : Int, out : Int]
         /\ ws[w].in_filled \in Nat /\ ThreadSound(w)
         /\ (wl[w].pc \notin {"idle", "exited"} => Given(w))
         /\ (Given(w) => /\ ws[w].job \in DOMAIN File /\ File[ws[w].job].in \in Nat \ {0}
                         /\ File[ws[w].job].out \in Nat)
  <1>1. ws[w] \in WorkerRecord /\ wl[w] \in ThreadRecord /\ ThreadSound(w)
    BY DEF IInv, Types, ThreadInv, ThreadsSound
  <1>2. wl[w].d \in [in : Int, out : Int] /\ ws[w].in_filled \in Nat
    BY <1>1 DEF WorkerRecord, ThreadRecord
  <1>3. wl[w].pc \notin {"idle", "exited"} => Given(w)
    BY <1>1 DEF ThreadSound, Rests
  <1>4. Given(w) => ws[w].job \in DOMAIN File
    BY <1>1 DEF ThreadSound, Works
  <1>5. \A b \in DOMAIN File : File[b].in \in Nat \ {0} /\ File[b].out \in Nat
    BY FileType DEF IInv, InputFits
  <1> QED BY <1>1, <1>2, <1>3, <1>4, <1>5

LEMMA LookStep == ASSUME IInv, NEW w \in Worker, Look(w) PROVE IInv'
  <1>1. /\ Woken /\ UNCHANGED <<outq, threads_free, mem_in_use, mem_cached, ws>>
        /\ wl[w].pc = "idle"
        /\ \/ ws[w].state = "EXIT" /\ wl' = [wl EXCEPT ![w] = [IdleThread EXCEPT !.pc = "exited"]]
           \/ /\ ws[w].state = "RUN"
              /\ wl' = [wl EXCEPT ![w].pc = "decode", ![w].seen = ws[w].in_filled,
                            ![w].partial = ws[w].partial]
    BY DEF Look, Woken, call, coder, kept, locals, shared, flow, hist
  <1>2. /\ ws[w] \in WorkerRecord /\ wl[w] \in ThreadRecord /\ ThreadSound(w) /\ ws[w].in_filled \in Nat
        /\ (Given(w) => ws[w].job \in DOMAIN File)
    BY ThreadTyped
  <1>3. File' = File /\ block' = block /\ Given(w)' = Given(w)
    BY <1>1, WokenKeeps DEF Woken, Given, Free
  <1>4. PICK t \in ThreadRecord :
          /\ wl' = [wl EXCEPT ![w] = t]
          /\ \/ ws[w].state = "EXIT" /\ t.pc = "exited" /\ t.d.in = 0
             \/ /\ ws[w].state = "RUN" /\ t.pc = "decode" /\ t.seen = ws[w].in_filled
                /\ t.partial = ws[w].partial /\ t.d = wl[w].d
    <2>1. CASE /\ ws[w].state = "EXIT"
               /\ wl' = [wl EXCEPT ![w] = [IdleThread EXCEPT !.pc = "exited"]]
      <3>1. PICK x \in ThreadRecord : x = IdleThread
        <4>1. wl[w] \in ThreadRecord /\ [v \in Worker |-> IdleThread][w] = IdleThread
          BY <1>2
        <4>2. IdleThread \in ThreadRecord
          BY <4>1, IdleTypes
        <4> QED BY <4>2
      <3>2. PICK t : t = [x EXCEPT !.pc = "exited"]
        OBVIOUS
      <3>3. t \in ThreadRecord
        BY <3>2 DEF ThreadRecord
      <3>4. t.pc = "exited" /\ t.d = x.d
        BY <3>2 DEF ThreadRecord
      <3>5. x.d.in = 0
        BY <3>1, IdleTypes
      <3> QED BY <2>1, <3>1, <3>2, <3>3, <3>4, <3>5
    <2>2. CASE /\ ws[w].state = "RUN"
               /\ wl' = [wl EXCEPT ![w].pc = "decode", ![w].seen = ws[w].in_filled,
                             ![w].partial = ws[w].partial]
      <3>1. PICK x \in ThreadRecord, n \in Int, p \in Partials :
              x = wl[w] /\ n = ws[w].in_filled /\ p = ws[w].partial
        BY <1>2 DEF WorkerRecord
      <3>2. PICK t : t = [x EXCEPT !.pc = "decode", !.seen = n, !.partial = p]
        OBVIOUS
      <3>3. t \in ThreadRecord
        BY <3>2 DEF ThreadRecord
      <3>4. t.pc = "decode" /\ t.seen = n /\ t.partial = p /\ t.d = x.d
        BY <3>2 DEF ThreadRecord
      <3>5. wl' = [wl EXCEPT ![w] = t]
        BY <2>2, <3>1, <3>2 DEF IInv, Types
      <3> QED BY <2>2, <3>1, <3>3, <3>4, <3>5
    <2> QED BY <1>1, <2>1, <2>2
  <1>5. /\ wl' \in [Worker -> ThreadRecord] /\ wl'[w] = t /\ ws' = ws
        /\ \A v \in Worker : v # w => ws'[v] = ws[v] /\ wl'[v] = wl[v]
    BY <1>1, <1>4 DEF IInv, Types
  <1>6. ThreadSound(w)'
    <2>1. CASE ws[w].state = "EXIT" /\ t.pc = "exited" /\ t.d.in = 0
      <3>1. Rests(w)'
        BY <1>5, <2>1 DEF Rests
      <3>2. Given(w) => Works(w)'
        BY <1>2, <1>3, <1>5, <2>1 DEF ThreadSound, Works
      <3> QED BY <1>2, <1>3, <1>5, <2>1, <3>1, <3>2 DEF ThreadSound
    <2>2. CASE /\ ws[w].state = "RUN" /\ t.pc = "decode" /\ t.seen = ws[w].in_filled
               /\ t.partial = ws[w].partial /\ t.d = wl[w].d
      <3>1. Given(w)
        BY <1>2, <2>2 DEF ThreadSound, Rests
      <3>2. Works(w)'
        BY <1>2, <1>3, <1>5, <2>2, <3>1 DEF ThreadSound, Works
      <3> QED BY <1>2, <1>3, <1>5, <2>2, <3>1, <3>2 DEF ThreadSound
    <2> QED BY <1>4, <2>1, <2>2
  <1>7. Partly(w)' => Partly(w)
    BY <1>4, <1>5 DEF Partly
  <1>8. (Fed /\ thr = w) => (ws[w].in_filled < File[block].in => ws[w].alive) /\ pc # "start"
    BY <1>1 DEF IInv, ThreadInv, FedSound
  <1> QED BY <1>1, <1>5, <1>6, <1>7, <1>8, OwnStep DEF IInv, Types

LEMMA DecodeStep == ASSUME IInv, NEW w \in Worker, Decode(w) PROVE IInv'
  <1>1. /\ Woken /\ UNCHANGED <<outq, threads_free, mem_in_use, mem_cached, ws>>
        /\ wl[w].pc = "decode"
    BY DEF Decode, Woken, call, coder, kept, locals, shared, flow, hist
  <1>2. /\ ws[w] \in WorkerRecord /\ wl[w] \in ThreadRecord /\ ThreadSound(w) /\ ws[w].in_filled \in Nat
        /\ Given(w) /\ ws[w].job \in DOMAIN File /\ File[ws[w].job].in \in Nat \ {0}
        /\ File[ws[w].job].out \in Nat /\ wl[w].d \in [in : Int, out : Int]
    BY <1>1, ThreadTyped
  <1>3. File' = File /\ block' = block /\ Given(w)' = Given(w)
    BY <1>1, WokenKeeps DEF Woken, Given, Free
  <1>4. PICK b, d, a, s :
          /\ b = File[ws[w].job] /\ d = wl[w].d /\ s = File[ws[w].job].out
          /\ a = SmallerOf(wl[w].seen - wl[w].d.in, ChunkMax)
    OBVIOUS
  <1>5. PICK c \in Coded(b, d, a, s) :
          wl' = [wl EXCEPT ![w].d = c.d, ![w].ret = c.ret, ![w].seen = 0, ![w].partial = "DISABLED",
                   ![w].pc = IF c.ret # "OK" THEN "settle"
                             ELSE IF wl[w].partial # "DISABLED" THEN "publish" ELSE "idle"]
    <2>1. PICK c \in Coded(File[ws[w].job], wl[w].d, SmallerOf(wl[w].seen - wl[w].d.in, ChunkMax),
                           File[ws[w].job].out) :
            wl' = [wl EXCEPT ![w].d = c.d, ![w].ret = c.ret, ![w].seen = 0, ![w].partial = "DISABLED",
                     ![w].pc = IF c.ret # "OK" THEN "settle"
                               ELSE IF wl[w].partial # "DISABLED" THEN "publish" ELSE "idle"]
      BY Zenon DEF Decode
    <2>2. c \in Coded(b, d, a, s)
      BY <1>4, <2>1
    <2> QED BY <2>1, <2>2
  <1>6. /\ d.in <= wl[w].seen /\ wl[w].seen <= ws[w].in_filled /\ ws[w].in_filled <= b.in /\ 0 <= d.in
        /\ d.in \in Int /\ d.out \in Int /\ wl[w].seen \in Int
    BY <1>1, <1>2, <1>4 DEF ThreadSound, Works, ThreadRecord
  <1>7. a \in Nat /\ d.in + a <= wl[w].seen /\ d.in \in 0 .. b.in
    <2>1. PICK n \in Nat : n = wl[w].seen - d.in
      <3>1. wl[w].seen - d.in \in Nat
        BY <1>6
      <3> QED BY <3>1
    <2>2. a \in Nat /\ a <= n
      BY <1>4, <2>1, StreamDecoderAssumption DEF SmallerOf
    <2>3. d.in + a <= wl[w].seen
      BY <1>6, <2>1, <2>2
    <2>4. d.in \in 0 .. b.in
      BY <1>2, <1>4, <1>6
    <2> QED BY <2>2, <2>3, <2>4
  <1>8. /\ c.d = [in |-> c.d.in, out |-> c.d.out]
        /\ c.d.in \in d.in .. b.in /\ c.d.in <= d.in + a
        /\ c.ret \in Rets /\ (c.ret = "STREAM_END" => c.d.in = b.in) /\ c.d.out \in Int
    <2>1. b.in \in Nat \ {0} /\ b.out \in Nat /\ d.out + s \in Int
      BY <1>2, <1>4, <1>6
    <2>2. /\ c.d = [in |-> c.d.in, out |-> c.d.out]
          /\ c.d.in \in d.in .. b.in /\ c.d.in <= d.in + a
          /\ c.ret \in {"OK", "STREAM_END", "DATA_ERROR"}
          /\ c.ret = "STREAM_END" => c.d.in = b.in
          /\ (b.out \in Nat /\ d.out + s \in Int) => c.d.out \in Int
      <3>1. c \in Coded(b, d, a, s) /\ a \in Nat /\ d.in \in 0 .. b.in /\ b.in \in Nat \ {0}
        BY <1>5, <1>7, <2>1
      <3> QED BY ONLY <3>1, CodedTakes
    <2> QED BY <2>1, <2>2 DEF Rets
  <1>9. PICK e \in [in : Int, out : Int], r \in Rets : e = c.d /\ r = c.ret
    BY <1>6, <1>8
  <1>10. PICK t \in ThreadRecord :
           /\ wl' = [wl EXCEPT ![w] = t]
           /\ t.d = e /\ t.ret = r /\ t.partial = "DISABLED"
           /\ t.pc \in {"settle", "publish", "idle"}
           /\ t.pc = "settle" => r # "OK"
           /\ t.pc = "publish" => wl[w].partial # "DISABLED"
    <2>1. PICK x \in ThreadRecord, zero \in Int : x = wl[w] /\ zero = 0
      BY <1>2
    <2>2. PICK p : p = IF r # "OK" THEN "settle" ELSE IF x.partial # "DISABLED" THEN "publish" ELSE "idle"
      OBVIOUS
    <2>3. /\ p \in {"settle", "publish", "idle"} /\ (p = "settle" => r # "OK")
          /\ (p = "publish" => x.partial # "DISABLED")
      BY <2>2
    <2>4. PICK t : t = [x EXCEPT !.d = e, !.ret = r, !.seen = zero, !.partial = "DISABLED", !.pc = p]
      OBVIOUS
    <2>5. t \in ThreadRecord
      BY <2>3, <2>4 DEF ThreadRecord, Partials
    <2>6. t.d = e /\ t.ret = r /\ t.partial = "DISABLED" /\ t.pc = p
      BY <2>4 DEF ThreadRecord
    <2>7. wl' = [wl EXCEPT ![w] = t]
      BY <1>5, <1>9, <2>1, <2>2, <2>4 DEF IInv, Types
    <2> QED BY <2>1, <2>3, <2>5, <2>6, <2>7
  <1>11. /\ wl' \in [Worker -> ThreadRecord] /\ wl'[w] = t /\ ws' = ws
         /\ \A v \in Worker : v # w => ws'[v] = ws[v] /\ wl'[v] = wl[v]
    BY <1>1, <1>10 DEF IInv, Types
  <1>12. ThreadSound(w)'
    <2>1. e.in \in Int /\ d.in <= e.in /\ e.in <= ws[w].in_filled /\ 0 <= e.in
          /\ (r = "STREAM_END" => e.in = b.in)
      BY <1>2, <1>6, <1>7, <1>8, <1>9
    <2>2. Works(w)'
      BY <1>2, <1>3, <1>4, <1>6, <1>10, <1>11, <2>1 DEF Works
    <2> QED BY <1>2, <1>3, <1>10, <1>11, <2>1, <2>2 DEF ThreadSound
  <1>13. Partly(w)' => Partly(w)
    BY <1>1, <1>10, <1>11 DEF Partly
  <1>14. (Fed /\ thr = w) => (ws[w].in_filled < File[block].in => ws[w].alive) /\ pc # "start"
    BY <1>1 DEF IInv, ThreadInv, FedSound
  <1> QED BY <1>1, <1>11, <1>12, <1>13, <1>14, OwnStep DEF IInv, Types

LEMMA SettleStep == ASSUME IInv, NEW w \in Worker, Settle(w) PROVE IInv'
  <1>1. /\ Woken /\ UNCHANGED <<outq, threads_free, mem_in_use, mem_cached>>
        /\ wl[w].pc = "settle"
        /\ ws' = [ws EXCEPT ![w].state = StateAfterBlock(@), ![w].alive = AliveAfter(w)]
        /\ wl' = [wl EXCEPT ![w].pc = "report"]
    BY DEF Settle, Woken, call, coder, kept, locals, shared, flow, hist
  <1>2. /\ ws[w] \in WorkerRecord /\ wl[w] \in ThreadRecord /\ ThreadSound(w) /\ Given(w)
    BY <1>1, ThreadTyped
  <1>3. File' = File /\ block' = block /\ Given(w)' = Given(w)
    BY <1>1, WokenKeeps DEF Woken, Given, Free
  <1>4. PICK x \in WorkerRecord, t \in ThreadRecord : x = ws[w] /\ t = wl[w]
    BY <1>2
  <1>5. PICK st \in {"IDLE", "EXIT"}, al \in BOOLEAN : st = StateAfterBlock(x.state) /\ al = AliveAfter(w)
    BY DEF StateAfterBlock, AliveAfter
  <1>6. PICK y : y = [x EXCEPT !.state = st, !.alive = al]
    OBVIOUS
  <1>7. y \in WorkerRecord
    BY <1>6 DEF WorkerRecord
  <1>8. /\ y.state = st /\ y.alive = al /\ y.job = x.job /\ y.in_filled = x.in_filled
        /\ y.partial = x.partial /\ y.mem_filters = x.mem_filters
    BY <1>6 DEF WorkerRecord
  <1>9. PICK u : u = [t EXCEPT !.pc = "report"]
    OBVIOUS
  <1>10. u \in ThreadRecord
    BY <1>9 DEF ThreadRecord
  <1>11. u.pc = "report" /\ u.d = t.d /\ u.ret = t.ret /\ u.seen = t.seen
    BY <1>9 DEF ThreadRecord
  <1>12. /\ ws' \in [Worker -> WorkerRecord] /\ ws'[w] = y
         /\ \A v \in Worker : v # w => ws'[v] = ws[v]
    <2>1. ws' = [ws EXCEPT ![w] = y]
      BY <1>1, <1>4, <1>5, <1>6 DEF IInv, Types
    <2> QED BY <1>7, <2>1 DEF IInv, Types
  <1>13. /\ wl' \in [Worker -> ThreadRecord] /\ wl'[w] = u
         /\ \A v \in Worker : v # w => wl'[v] = wl[v]
    BY <1>1, <1>4, <1>9, <1>10 DEF IInv, Types
  <1>14. ThreadSound(w)'
    <2>1. Works(w)'
      BY <1>1, <1>2, <1>3, <1>4, <1>8, <1>11, <1>12, <1>13 DEF ThreadSound, Works
    <2> QED BY <1>2, <1>3, <1>4, <1>5, <1>8, <1>11, <1>12, <1>13, <2>1 DEF ThreadSound
  <1>15. Partly(w)' => Partly(w)
    BY <1>4, <1>8, <1>11, <1>12, <1>13 DEF Partly
  <1>16. (Fed /\ thr = w) => (ws[w].in_filled < File[block].in => ws'[w].alive) /\ pc # "start"
    <2> SUFFICES ASSUME Fed, thr = w, ws[w].in_filled < File[block].in PROVE ws'[w].alive
      BY <1>1 DEF IInv, ThreadInv, FedSound
    <2>1. ws[w].job = block
      BY DEF IInv, ThreadInv, FedSound
    <2>2. wl[w].ret = "STREAM_END" => wl[w].d.in = File[block].in /\ wl[w].d.in <= ws[w].in_filled
      BY <1>1, <1>2, <2>1 DEF ThreadSound, Works
    <2>3. ws[w].in_filled \in Nat /\ File[block].in \in Nat
      BY <1>2, <2>1, ThreadTyped
    <2>4. wl[w].ret # "STREAM_END"
      BY <2>2, <2>3
    <2> QED BY <1>5, <1>8, <1>12, <2>4 DEF AliveAfter
  <1> QED BY <1>1, <1>4, <1>8, <1>12, <1>13, <1>14, <1>15, <1>16, OwnStep

-----------------------------------------------------------------------------
(* A buffer of the queue is filled or finished.                            *)

Replaces(a, b, j, e) ==
  /\ a = [b EXCEPT ![j] = e]
  /\ j \in DOMAIN b => e \in Buffer /\ Keeps(e, b[j]) /\ e.size = b[j].size

LEMMA Replaced ==
  ASSUME NEW b \in Seq(Buffer), NEW j, NEW e, NEW a, Replaces(a, b, j, e)
  PROVE  /\ a \in Seq(Buffer) /\ Len(a) = Len(b) /\ Drops(a, b)
         /\ \A i \in 1 .. Len(b) : a[i].size = b[i].size
         /\ \A i \in 1 .. Len(b) : a[i] = IF i = j THEN e ELSE b[i]
         /\ (b # <<>> => a # <<>>)
  <1> USE DEF Replaces
  <1>1. Len(b) \in Nat /\ DOMAIN b = 1 .. Len(b) /\ \A i \in 1 .. Len(b) : b[i] \in Buffer
    OBVIOUS
  <1>2. /\ DOMAIN a = 1 .. Len(b)
        /\ \A i \in 1 .. Len(b) : a[i] = IF i = j THEN e ELSE b[i]
    BY <1>1
  <1>3. a \in Seq(Buffer) /\ Len(a) = Len(b)
    <2>1. CASE j \in DOMAIN b
      BY <2>1
    <2>2. CASE j \notin DOMAIN b
      <3>1. a = b
        BY <1>1, <2>2
      <3> QED BY <3>1
    <2> QED BY <2>1, <2>2
  <1>4. \A i \in 1 .. Len(b) : a[i].size = b[i].size /\ Keeps(a[i], b[i])
    <2>1. ASSUME NEW i \in 1 .. Len(b) PROVE a[i].size = b[i].size /\ Keeps(a[i], b[i])
      <3>1. CASE i = j
        BY <1>1, <1>2, <3>1
      <3>2. CASE i # j
        <4>1. b[i].worker \in {b[i].worker, NoWorker} /\ (b[i].finished \/ ~b[i].finished)
          OBVIOUS
        <4> QED BY <1>2, <3>2, <4>1 DEF Keeps
      <3> QED BY <3>1, <3>2
    <2> QED BY <2>1
  <1>5. Drops(a, b)
    <2>1. \A i \in 1 .. Len(a) : Len(b) - Len(a) + i = i /\ i \in 1 .. Len(b)
      BY <1>1, <1>3
    <2> QED BY <1>1, <1>3, <1>4, <2>1 DEF Drops
  <1>6. b # <<>> => a # <<>>
    BY <1>1, <1>2, <1>3
  <1> QED BY <1>2, <1>3, <1>4, <1>5, <1>6

LEMMA QueueFilled ==
  ASSUME NEW r, IsQueue(r, Buffer, Nat), Counted(r), NEW a \in Seq(Buffer), Len(a) = Len(r.active),
         \A i \in 1 .. Len(r.active) : a[i].size = r.active[i].size,
         NEW k, k = [r EXCEPT !.active = a]
  PROVE  /\ IsQueue(k, Buffer, Nat) /\ Counted(k) /\ k.active = a /\ k.cache = r.cache
         /\ k.mem_in_use = r.mem_in_use /\ k.mem_allocated = r.mem_allocated
  <1>1. /\ IsQueue(k, Buffer, Nat) /\ k.active = a /\ k.cache = r.cache
        /\ k.mem_in_use = r.mem_in_use /\ k.mem_allocated = r.mem_allocated
    BY SetActive
  <1>2. Counted(k)
    BY <1>1, SameSizesCounted
  <1> QED BY <1>1, <1>2

(* The buffer of a Block is the only one with its number.                  *)
LEMMA PlaceUnique ==
  ASSUME IInv, NEW i \in DOMAIN outq.active
  PROVE  Place(outq.active[i].job) = i
  <1>1. PICK b \in Seq(Buffer) : b = outq.active
    BY DEF IInv, Types, IsQueue
  <1>2. \A k, l \in DOMAIN b : k < l => b[k].job < b[l].job
    BY <1>1 DEF IInv, QueueInv, QueueOrdered
  <1>3. \A k \in DOMAIN b : b[k].job \in Nat /\ k \in Nat
    <2>1. Len(b) \in Nat /\ DOMAIN b = 1 .. Len(b) /\ \A k \in 1 .. Len(b) : b[k] \in Buffer
      OBVIOUS
    <2> QED BY <2>1 DEF Buffer
  <1>4. PICK j \in DOMAIN b : j = Place(outq.active[i].job) /\ b[j].job = b[i].job
    <2>1. \E l \in DOMAIN outq.active : outq.active[l].job = outq.active[i].job
      OBVIOUS
    <2> QED BY <1>1, <2>1 DEF Place
  <1>5. i \in DOMAIN b
    BY <1>1
  <1>6. ~(j < i) /\ ~(i < j)
    BY <1>2, <1>3, <1>4, <1>5
  <1> QED BY <1>3, <1>4, <1>5, <1>6

LEMMA PublishStep == ASSUME IInv, NEW w \in Worker, Publish(w) PROVE IInv'
  <1>1. /\ Woken /\ UNCHANGED <<threads_free, mem_in_use, mem_cached>>
        /\ wl[w].pc = "publish"
        /\ ws' = [ws EXCEPT ![w].partial = "ENABLED"]
        /\ wl' = [wl EXCEPT ![w].pc = "idle", ![w].ret = "OK"]
    BY DEF Publish, Woken, Signalled, call, coder, kept, locals, flow, hist
  <1>2. /\ ws[w] \in WorkerRecord /\ wl[w] \in ThreadRecord /\ ThreadSound(w) /\ Given(w)
        /\ wl[w].d \in [in : Int, out : Int]
    BY <1>1, ThreadTyped
  <1>3. /\ File' = File /\ Given(w)' = Given(w) /\ InputFits' /\ Fed' = Fed /\ Fresh' = Fresh
        /\ Committed' = Committed /\ (pc' = "get") = (pc = "get") /\ (pc' = "free") = (pc = "free")
        /\ UNCHANGED <<block, threads_initialized, seen_free, overtaken, ret>>
        /\ \A v : Given(v)' = Given(v) /\ Free(v)' = Free(v)
    BY <1>1, WokenKeeps DEF Woken, Given, Free
  <1>4. PICK x \in WorkerRecord, t \in ThreadRecord : x = ws[w] /\ t = wl[w]
    BY <1>2
  <1>5. PICK y : y = [x EXCEPT !.partial = "ENABLED"]
    OBVIOUS
  <1>6. y \in WorkerRecord
    BY <1>5 DEF WorkerRecord, Partials
  <1>7. SameWork(y, x) /\ y.in_filled = x.in_filled /\ y.job = x.job /\ y.alive = x.alive
        /\ y.mem_filters = x.mem_filters /\ y.state = x.state
    BY <1>5 DEF WorkerRecord, SameWork, SameTask
  <1>8. PICK ok \in Rets : ok = "OK"
    BY DEF Rets
  <1>9. PICK u : u = [t EXCEPT !.pc = "idle", !.ret = ok]
    OBVIOUS
  <1>10. u \in ThreadRecord
    BY <1>9 DEF ThreadRecord
  <1>11. u.pc = "idle" /\ u.d = t.d
    BY <1>9 DEF ThreadRecord
  <1>12. /\ ws' \in [Worker -> WorkerRecord] /\ ws'[w] = y
         /\ \A v \in Worker : v # w => ws'[v] = ws[v]
    BY <1>1, <1>4, <1>5, <1>6 DEF IInv, Types
  <1>13. /\ wl' \in [Worker -> ThreadRecord] /\ wl'[w] = u
         /\ \A v \in Worker : v # w => wl'[v] = wl[v]
    BY <1>1, <1>4, <1>8, <1>9, <1>10 DEF IInv, Types
  <1>14. IsQueue(outq, Buffer, Nat) /\ Counted(outq)
    BY DEF IInv, Types, MemoryInv
  <1>15. PICK b \in Seq(Buffer) : b = outq.active
    BY <1>14 DEF IsQueue
  <1>16. wl[w].d.out \in Int /\ wl[w].d.in \in Int
    BY <1>2
  <1>17. PICK p \in Int, q \in Int : p = wl[w].d.out /\ q = wl[w].d.in
    BY <1>16
  <1>18. PICK j : j = Place(ws[w].job)
    OBVIOUS
  <1>19. PICK e : e = [b[j] EXCEPT !.pos = p, !.in_pos = q]
    OBVIOUS
  <1>20. PICK a : a = [b EXCEPT ![j] = e]
    OBVIOUS
  <1>21. outq' = [outq EXCEPT !.active = a]
    BY <1>15, <1>17, <1>18, <1>19, <1>20 DEF Publish
  <1>22. j \in DOMAIN b => e \in Buffer /\ Keeps(e, b[j]) /\ e.size = b[j].size
    <2> SUFFICES ASSUME j \in DOMAIN b PROVE e \in Buffer /\ Keeps(e, b[j]) /\ e.size = b[j].size
      OBVIOUS
    <2>1. PICK d \in Buffer : d = b[j]
      OBVIOUS
    <2>2. e = [d EXCEPT !.pos = p, !.in_pos = q]
      BY <1>19, <2>1
    <2>3. e \in Buffer
      BY <2>2 DEF Buffer
    <2>4. e.job = d.job /\ e.finished = d.finished /\ e.worker = d.worker /\ e.size = d.size
      BY <2>2 DEF Buffer
    <2>5. d.finished \in BOOLEAN
      BY DEF Buffer
    <2> QED BY <2>1, <2>3, <2>4, <2>5 DEF Keeps
  <1>23. /\ a \in Seq(Buffer) /\ Len(a) = Len(b) /\ Drops(a, b)
         /\ \A i \in 1 .. Len(b) : a[i].size = b[i].size
         /\ (b # <<>> => a # <<>>)
    <2>1. Replaces(a, b, j, e)
      BY <1>20, <1>22 DEF Replaces
    <2> QED BY <2>1, Replaced
  <1>24. /\ IsQueue(outq', Buffer, Nat) /\ Counted(outq') /\ outq'.active = a /\ outq'.cache = outq.cache
         /\ outq'.mem_in_use = outq.mem_in_use /\ outq'.mem_allocated = outq.mem_allocated
    BY <1>14, <1>15, <1>21, <1>23, QueueFilled
  <1>25. Drops(outq'.active, outq.active)
    BY <1>15, <1>23, <1>24
  <1>26. \A v \in Worker : ws'[v].job = ws[v].job /\ ws'[v].mem_filters = ws[v].mem_filters
    BY <1>4, <1>7, <1>12
  <1>27. ThreadInv'
    <2>1. ThreadSound(w)'
      BY <1>2, <1>3, <1>4, <1>7, <1>11, <1>12, <1>13 DEF ThreadSound, Works
    <2>2. (Fed /\ thr = w) =>
            /\ ws'[w].job = ws[w].job /\ ws'[w].in_filled = ws[w].in_filled
            /\ ws'[w].in_filled < File[block].in => ws'[w].alive /\ Free(w)' = Free(w)
            /\ pc # "start"
      BY <1>1, <1>3, <1>4, <1>7, <1>12 DEF IInv, ThreadInv, FedSound
    <2> QED BY <1>1, <1>3, <1>12, <1>13, <2>1, <2>2, OtherThreads
  <1>28. QueueInv'
    <2>1. QueueOrdered'
      BY <1>3, <1>25, OrderKept
    <2>2. BufferOwned'
      BY <1>3, <1>25, <1>26, OwnersKept
    <2>3. \A v \in Worker : Partly(v)' => Partly(v)
      BY <1>1, <1>12, <1>13 DEF Partly
    <2>4. PartialAtHead'
      BY <1>25, <1>26, <2>3, HeadKept
    <2> QED BY <2>1, <2>2, <2>4 DEF QueueInv
  <1>29. MemoryInv'
    <2>1. Filters' = Filters
      BY <1>26 DEF Filters
    <2>2. CachedExact' /\ Behind' /\ Seen' /\ ReadyToStart'
      BY <1>1, <1>3, <2>1 DEF IInv, MemoryInv, CachedExact, Behind, Seen, ReadyToStart
    <2>3. RunningFits'
      BY <1>1, <1>3, <1>24 DEF IInv, MemoryInv, RunningFits, RunningMemory, NextBlock, NextIn, Usage
    <2>4. AllocatedFits'
      <3>1. threads_free # <<>> => Head(threads_free) \in Worker
        BY DEF IInv, Types
      <3>2. HeadFilters' = HeadFilters
        BY <1>1, <1>26, <3>1 DEF HeadFilters
      <3>3. Reusable(outq', File[block].out) = Reusable(outq, File[block].out)
        BY <1>24 DEF Reusable
      <3> QED BY <1>1, <1>3, <1>24, <3>2, <3>3
            DEF IInv, MemoryInv, AllocatedFits, AllocatedMemory, Others, Usage, Reusable
    <2> QED BY <1>24, <2>2, <2>3, <2>4 DEF MemoryInv
  <1>30. Types' /\ Where'
    <2>1. outq'.active = <<>> \/ outq.active # <<>>
      BY <1>15, <1>23, <1>24
    <2>2. Where'
      BY <1>1, <1>24, <2>1, WokenKeeps
    <2> QED BY <1>1, <1>3, <1>12, <1>13, <1>24, <2>2 DEF IInv, Types
  <1> QED BY <1>3, <1>27, <1>28, <1>29, <1>30 DEF IInv

(* A thread that becomes free is put in front of the others.               *)
LEMMA FreedFirst ==
  ASSUME NEW s \in Seq(Worker), Distinct(s), NEW w \in Worker, w \notin ToSet(s),
         NEW t, t = <<w>> \o s
  PROVE  /\ t \in Seq(Worker) /\ Distinct(t) /\ t # <<>> /\ Head(t) = w
         /\ Len(s) \in Nat /\ Len(t) = Len(s) + 1
         /\ ToSet(t) = ToSet(s) \cup {w}
         /\ \A i \in DOMAIN t : t[i] \in ToSet(s) \cup {w}
         /\ \A x \in Seq(Worker) : Suffixed(x, s) => Suffixed(x, t) /\ x # t
  <1>1. PICK n \in Nat : n = Len(s)
    OBVIOUS
  <1>2. DOMAIN s = 1 .. n /\ \A i \in 1 .. n : s[i] \in Worker
    BY <1>1
  <1>3. <<w>> \in Seq(Worker)
    OBVIOUS
  <1>4. t \in Seq(Worker) /\ Len(t) = n + 1 /\ DOMAIN t = 1 .. n + 1 /\ t[1] = w
    BY <1>1, <1>3
  <1>5. \A i \in 2 .. n + 1 : t[i] = s[i - 1] /\ i - 1 \in 1 .. n
    BY <1>1, <1>3
  <1>6. \A i \in 1 .. n : t[i + 1] = s[i]
    <2>1. \A i \in 1 .. n : i + 1 \in 2 .. n + 1 /\ (i + 1) - 1 = i
      BY <1>1
    <2> QED BY <1>5, <2>1
  <1>7. \A i \in 1 .. n + 1 : i = 1 \/ i \in 2 .. n + 1
    OBVIOUS
  <1>8. \A i \in 1 .. n : s[i] # w
    BY <1>2 DEF ToSet
  <1>9. \A i, j \in 1 .. n : s[i] = s[j] => i = j
    BY <1>2 DEF Distinct
  <1>10. Distinct(t)
    <2>1. ASSUME NEW i \in 1 .. n + 1, NEW j \in 1 .. n + 1, t[i] = t[j] PROVE i = j
      <3>1. CASE i = 1 \/ j = 1
        BY <1>4, <1>5, <1>7, <1>8, <2>1, <3>1
      <3>2. CASE i # 1 /\ j # 1
        <4>1. i \in 2 .. n + 1 /\ j \in 2 .. n + 1
          BY <1>7, <3>2
        <4>2. i - 1 = j - 1
          BY <1>5, <1>9, <2>1, <4>1
        <4> QED BY <4>1, <4>2
      <3> QED BY <3>1, <3>2
    <2> QED BY <1>4, <2>1 DEF Distinct
  <1>11. \A i \in 1 .. n + 1 : t[i] \in ToSet(s) \cup {w}
    <2>1. ASSUME NEW i \in 1 .. n + 1 PROVE t[i] \in ToSet(s) \cup {w}
      <3>1. CASE i = 1
        BY <1>4, <3>1
      <3>2. CASE i \in 2 .. n + 1
        <4>1. t[i] = s[i - 1] /\ i - 1 \in DOMAIN s
          BY <1>2, <1>5, <3>2
        <4> QED BY <4>1 DEF ToSet
      <3> QED BY <1>7, <3>1, <3>2
    <2> QED BY <2>1
  <1>12. ToSet(t) = ToSet(s) \cup {w}
    <2>1. w \in ToSet(t)
      <3>1. 1 \in DOMAIN t
        BY <1>4
      <3> QED BY <1>4, <3>1 DEF ToSet
    <2>2. \A i \in 1 .. n : s[i] \in ToSet(t)
      <3>1. \A i \in 1 .. n : i + 1 \in DOMAIN t
        BY <1>4
      <3> QED BY <1>6, <3>1 DEF ToSet
    <2>3. ToSet(s) \subseteq ToSet(t)
      BY <1>2, <2>2 DEF ToSet
    <2>4. ToSet(t) \subseteq ToSet(s) \cup {w}
      BY <1>4, <1>11 DEF ToSet
    <2> QED BY <2>1, <2>3, <2>4
  <1>13. ASSUME NEW x \in Seq(Worker), Suffixed(x, s) PROVE Suffixed(x, t) /\ x # t
    <2>1. PICK m \in Nat : m = Len(x)
      OBVIOUS
    <2>2. m <= n /\ \A i \in 1 .. m : x[i] = s[n - m + i]
      BY <1>1, <1>13, <2>1 DEF Suffixed
    <2>3. \A i \in 1 .. m : x[i] = t[n + 1 - m + i]
      <3>1. ASSUME NEW i \in 1 .. m PROVE x[i] = t[n + 1 - m + i]
        <4>1. n - m + i \in 1 .. n /\ n + 1 - m + i = (n - m + i) + 1
          BY <2>2
        <4> QED BY <1>6, <2>2, <4>1
      <3> QED BY <3>1
    <2>4. x # t
      <3>1. n \in Nat /\ m # n + 1
        BY <1>1, <2>2
      <3> QED BY <1>4, <2>1, <3>1
    <2>5. Len(t) = n + 1 /\ m <= n + 1
      BY <1>1, <1>4, <2>2
    <2>6. \A i \in 1 .. Len(x) : x[i] = t[Len(t) - Len(x) + i]
      BY ONLY <2>1, <2>3, <2>5
    <2>7. Len(x) <= Len(t)
      BY ONLY <2>1, <2>5
    <2> QED BY <2>4, <2>6, <2>7 DEF Suffixed
  <1>14. t # <<>> /\ Head(t) = w
    BY <1>4
  <1> QED BY <1>1, <1>4, <1>10, <1>11, <1>12, <1>13, <1>14

(* A thread whose Block is done finishes its buffer; whatever else is      *)
(* queued stays.                                                           *)
LEMMA ReportQueue ==
  ASSUME IInv, NEW w \in Worker, Report(w)
  PROVE  /\ IsQueue(outq', Buffer, Nat) /\ Counted(outq') /\ outq'.cache = outq.cache
         /\ outq'.mem_in_use = outq.mem_in_use /\ outq'.mem_allocated = outq.mem_allocated
         /\ Drops(outq'.active, outq.active)
         /\ (outq'.active = <<>> \/ outq.active # <<>>)
         /\ \A i \in DOMAIN outq'.active :
              outq'.active[i].finished
              \/ (i \in DOMAIN outq.active /\ outq'.active[i] = outq.active[i] /\ outq.active[i].job # ws[w].job)
  <1>1. wl[w] \in ThreadRecord /\ wl[w].d \in [in : Int, out : Int]
    BY ThreadTyped
  <1>2. wl[w].d.out \in Int /\ wl[w].d.in \in Int /\ wl[w].ret \in Rets
    BY <1>1 DEF ThreadRecord
  <1>3. PICK p \in Int, q \in Int, r \in Rets : p = wl[w].d.out /\ q = wl[w].d.in /\ r = wl[w].ret
    BY <1>2
  <1>4. IsQueue(outq, Buffer, Nat) /\ Counted(outq)
    BY DEF IInv, Types, MemoryInv
  <1>5. PICK b \in Seq(Buffer) : b = outq.active
    BY <1>4 DEF IsQueue
  <1>6. PICK j : j = Place(ws[w].job)
    OBVIOUS
  <1>7. PICK e : e = [b[j] EXCEPT !.finished = TRUE, !.ret = r, !.pos = p, !.in_pos = q]
    OBVIOUS
  <1>8. PICK a : a = [b EXCEPT ![j] = e]
    OBVIOUS
  <1>9. outq' = [outq EXCEPT !.active = a]
    BY <1>3, <1>5, <1>6, <1>7, <1>8 DEF Report
  <1>10. j \in DOMAIN b => e \in Buffer /\ Keeps(e, b[j]) /\ e.size = b[j].size /\ e.finished
    <2> SUFFICES ASSUME j \in DOMAIN b PROVE e \in Buffer /\ Keeps(e, b[j]) /\ e.size = b[j].size /\ e.finished
      OBVIOUS
    <2>1. PICK d \in Buffer : d = b[j]
      OBVIOUS
    <2>2. e = [d EXCEPT !.finished = TRUE, !.ret = r, !.pos = p, !.in_pos = q]
      BY <1>7, <2>1
    <2>3. e \in Buffer
      BY <2>2 DEF Buffer
    <2>4. e.job = d.job /\ e.finished /\ e.worker = d.worker /\ e.size = d.size
      BY <2>2 DEF Buffer
    <2> QED BY <2>1, <2>3, <2>4 DEF Keeps
  <1>11. Replaces(a, b, j, e)
    BY <1>8, <1>10 DEF Replaces
  <1>12. /\ a \in Seq(Buffer) /\ Len(a) = Len(b) /\ Drops(a, b)
         /\ \A i \in 1 .. Len(b) : a[i].size = b[i].size
         /\ \A i \in 1 .. Len(b) : a[i] = IF i = j THEN e ELSE b[i]
         /\ (b # <<>> => a # <<>>)
    BY <1>11, Replaced
  <1>13. /\ IsQueue(outq', Buffer, Nat) /\ Counted(outq') /\ outq'.active = a /\ outq'.cache = outq.cache
         /\ outq'.mem_in_use = outq.mem_in_use /\ outq'.mem_allocated = outq.mem_allocated
    BY <1>4, <1>5, <1>9, <1>12, QueueFilled
  <1>14. a = <<>> \/ b # <<>>
    BY <1>12
  <1>15. ASSUME NEW i \in DOMAIN a
         PROVE  a[i].finished \/ (i \in DOMAIN b /\ a[i] = b[i] /\ b[i].job # ws[w].job)
    <2>1. i \in 1 .. Len(b) /\ i \in DOMAIN b
      BY <1>12
    <2>2. CASE i = j
      BY <1>10, <1>12, <2>1, <2>2
    <2>3. CASE i # j
      <3>1. a[i] = b[i]
        BY <1>12, <2>1, <2>3
      <3>2. Place(b[i].job) = i
        BY <1>5, <2>1, PlaceUnique
      <3> QED BY <1>6, <2>1, <2>3, <3>1, <3>2
    <2> QED BY <2>2, <2>3
  <1> QED BY <1>5, <1>12, <1>13, <1>14, <1>15

LEMMA ReportStep == ASSUME IInv, NEW w \in Worker, Report(w) PROVE IInv'
  <1>1. /\ Woken /\ wl[w].pc = "report" /\ UNCHANGED ws
        /\ wl' = [wl EXCEPT ![w] = IdleThread]
    BY DEF Report, Woken, Signalled, call, coder, kept, locals, flow, hist
  <1>2. /\ ws[w] \in WorkerRecord /\ wl[w] \in ThreadRecord /\ ThreadSound(w) /\ Given(w)
        /\ ws[w].in_filled \in Nat /\ ws[w].job \in DOMAIN File /\ File[ws[w].job].in \in Nat \ {0}
    BY <1>1, ThreadTyped
  <1>3. /\ File' = File /\ InputFits' /\ Fed' = Fed /\ Fresh' = Fresh
        /\ Committed' = Committed /\ (pc' = "get") = (pc = "get") /\ (pc' = "free") = (pc = "free")
    BY <1>1, WokenKeeps DEF Woken
  <1>4. UNCHANGED <<block, threads_initialized, seen_free, overtaken, ret>>
    BY <1>1 DEF Woken
  <1>5. /\ IsQueue(outq', Buffer, Nat) /\ Counted(outq') /\ outq'.cache = outq.cache
        /\ outq'.mem_in_use = outq.mem_in_use /\ outq'.mem_allocated = outq.mem_allocated
        /\ Drops(outq'.active, outq.active)
        /\ (outq'.active = <<>> \/ outq.active # <<>>)
        /\ \A i \in DOMAIN outq'.active :
             outq'.active[i].finished
             \/ (i \in DOMAIN outq.active /\ outq'.active[i] = outq.active[i] /\ outq.active[i].job # ws[w].job)
    BY ReportQueue
  <1>6. /\ wl' \in [Worker -> ThreadRecord] /\ wl'[w] = IdleThread
        /\ \A v \in Worker : v # w => wl'[v] = wl[v]
    <2>1. IdleThread \in ThreadRecord
      BY IdleTypes
    <2> QED BY <1>1, <2>1 DEF IInv, Types
  <1>7. wl'[w].pc = "idle" /\ wl'[w].d.in = 0 /\ wl'[w].partial = "DISABLED"
    BY <1>6, IdleTypes
  <1>8. ws[w].state # "RUN" /\ ws[w].job <= block /\ ws[w].in_filled <= File[ws[w].job].in
        /\ (wl[w].ret = "STREAM_END" => ws[w].in_filled = File[ws[w].job].in)
    <2>1. wl[w].ret = "STREAM_END" => wl[w].d.in = File[ws[w].job].in /\ wl[w].d.in <= ws[w].in_filled
      BY <1>1, <1>2 DEF ThreadSound, Works
    <2>2. ws[w].in_filled <= File[ws[w].job].in /\ ws[w].state # "RUN" /\ ws[w].job <= block
      BY <1>1, <1>2 DEF ThreadSound, Works
    <2> QED BY <1>2, <2>1, <2>2
  <1>9. (Fed /\ thr = w) => pc # "start" /\ ws[w].job = block
    BY <1>1 DEF IInv, ThreadInv, FedSound
  <1>10. QueueOrdered'
    BY <1>3, <1>4, <1>5, OrderKept
  <1>11. PartialAtHead'
    <2>1. \A v \in Worker : Partly(v)' => Partly(v)
      BY <1>1, <1>6, <1>7 DEF Partly
    <2> QED BY <1>1, <1>5, <2>1, HeadKept
  <1>12. Where'
    BY <1>1, <1>5, WokenKeeps
  <1>13. ASSUME \A v \in Worker : v # w => Given(v)' = Given(v) PROVE BufferOwned'
    <2>1. ASSUME NEW i \in DOMAIN outq'.active, ~outq'.active[i].finished PROVE Owned(outq.active[i])'
      <3>1. i \in DOMAIN outq.active /\ outq'.active[i] = outq.active[i] /\ outq.active[i].job # ws[w].job
        BY <1>5, <2>1
      <3>2. PICK c \in Buffer : c = outq.active[i]
        <4>1. PICK b \in Seq(Buffer) : b = outq.active
          BY DEF IInv, Types, IsQueue
        <4>2. b[i] \in Buffer
          BY <3>1, <4>1
        <4> QED BY <4>1, <4>2
      <3>3. Owned(c) /\ ~c.finished /\ c.job # ws[w].job
        BY <2>1, <3>1, <3>2 DEF IInv, QueueInv, BufferOwned
      <3>4. c.worker \in Worker \cup {NoWorker}
        BY DEF Buffer
      <3>5. c.worker = NoWorker \/ (c.worker \in Worker /\ Given(c.worker) /\ ws[c.worker].job = c.job)
        BY <3>3, <3>4 DEF Owned
      <3>6. (outq.active[i])' = c
        BY <3>1, <3>2
      <3>7. CASE c.worker = NoWorker
        BY <3>6, <3>7 DEF Owned
      <3>8. CASE c.worker # NoWorker
        <4>1. PICK v \in Worker : v = c.worker
          BY <3>5, <3>8
        <4>2. Given(v) /\ ws[v].job = c.job /\ v # w
          BY <3>3, <3>5, <3>8, <4>1
        <4>3. Given(v)' /\ ws'[v].job = c.job
          BY <1>1, <1>13, <4>2
        <4> QED BY <3>6, <4>1, <4>3 DEF Owned
      <3> QED BY <3>7, <3>8
    <2>2. \A i \in DOMAIN outq'.active : outq'.active[i].finished => Owned(outq.active[i])'
      BY DEF Owned
    <2> QED BY <2>1, <2>2 DEF BufferOwned
  <1>14. Filters' = Filters
    BY <1>1 DEF Filters
  <1>15. CASE wl[w].ret = "STREAM_END"
    <2>1. PICK f \in Nat, n \in Nat : f = ws[w].mem_filters /\ n = File[ws[w].job].in
      BY <1>2 DEF WorkerRecord
    <2>2. PICK U \in Int, C \in Int : U = mem_in_use /\ C = mem_cached
      BY DEF IInv, Types
    <2>3. /\ threads_free' = <<w>> \o threads_free
          /\ mem_in_use' = U - n - f /\ mem_cached' = C + f
      BY <1>15, <2>1, <2>2 DEF Report, Reports
    <2>4. PICK s, t : s \in Seq(Worker) /\ s = threads_free /\ t = threads_free'
      BY DEF IInv, Types
    <2>5. Distinct(s) /\ w \notin ToSet(s)
      BY <1>2, <2>4 DEF IInv, Types, Given, Free
    <2>6. /\ t \in Seq(Worker) /\ Distinct(t) /\ t # <<>> /\ Head(t) = w
          /\ ToSet(t) = ToSet(s) \cup {w}
          /\ \A i \in DOMAIN t : t[i] \in ToSet(s) \cup {w}
          /\ \A x \in Seq(Worker) : Suffixed(x, s) => Suffixed(x, t) /\ x # t
      <3>1. t = <<w>> \o s
        BY <2>3, <2>4
      <3> QED BY <2>4, <2>5, <3>1, FreedFirst
    <2>7. \A v \in Worker : v # w => Free(v)' = Free(v) /\ Given(v)' = Given(v)
      BY <1>4, <2>4, <2>6 DEF Free, Given
    <2>8. ~Given(w)'
      BY <2>4, <2>6 DEF Given, Free
    <2>9. ThreadSound(w)'
      BY <1>1, <1>4, <1>7, <1>8, <2>8 DEF ThreadSound, Rests
    <2>10. (Fed /\ thr = w) =>
            /\ ws'[w].job = ws[w].job /\ ws'[w].in_filled = ws[w].in_filled
            /\ ws'[w].in_filled < File[block].in => ws'[w].alive /\ Free(w)' = Free(w)
            /\ pc # "start"
      BY <1>1, <1>2, <1>8, <1>9, <1>15
    <2>11. ThreadInv'
      BY <1>1, <1>6, <2>7, <2>9, <2>10, OtherThreads
    <2>12. QueueInv'
      BY <1>10, <1>11, <1>13, <2>7 DEF QueueInv
    <2>13. ReadyToStart'
      BY <2>4, <2>6 DEF ReadyToStart
    <2>14. RunningFits'
      <3>1. PICK I \in Int : I = outq.mem_in_use
        <4>1. outq.mem_in_use \in Nat
          BY BuffersSized, CountsAreNat DEF IInv, Types, MemoryInv
        <4> QED BY <4>1
      <3>2. PICK M \in Int : M = MemlimitThreading
        BY StreamDecoderAssumption
      <3>3. U + I <= M /\ outq'.mem_in_use = I /\ mem_in_use' = U - n - f
        BY <1>5, <2>2, <2>3, <3>1, <3>2 DEF IInv, MemoryInv, RunningFits, RunningMemory
      <3>4. RunningMemory' <= M
        BY <3>3 DEF RunningMemory
      <3>5. ASSUME Committed PROVE RunningMemory' + NextBlock' <= M
        <4>1. AtBlock
          BY <3>5 DEF Committed, IInv, Where, AtBlock
        <4>2. PICK N \in Nat : N = NextBlock
          BY <4>1, NextType DEF IInv, InputFits
        <4>3. NextBlock' = N
          BY <1>3, <1>4, <4>2 DEF NextBlock, NextIn, Usage
        <4>4. U + I + N <= M
          BY <2>2, <3>1, <3>2, <3>5, <4>2 DEF IInv, MemoryInv, RunningFits, RunningMemory
        <4> QED BY <3>3, <4>3, <4>4 DEF RunningMemory
      <3>6. ASSUME pc = "get" PROVE RunningMemory' + Usage(File[block].out)' <= M
        <4>1. AtBlock
          BY <3>6 DEF IInv, Where, AtBlock
        <4>2. PICK N \in Nat : N = Usage(File[block].out)
          BY <4>1, NextType DEF IInv, InputFits
        <4>3. Usage(File[block].out)' = N
          BY <1>3, <1>4, <4>2 DEF Usage
        <4>4. U + I + N <= M
          BY <2>2, <3>1, <3>2, <3>6, <4>2 DEF IInv, MemoryInv, RunningFits, RunningMemory
        <4> QED BY <3>3, <4>3, <4>4 DEF RunningMemory
      <3> QED BY <1>3, <3>2, <3>4, <3>5, <3>6 DEF RunningFits
    <2>15. CachedExact'
      <3>1. PICK u : u = Filters
        OBVIOUS
      <3>2. \A i \in Worker : u[i] \in Nat /\ u[i] = ws[i].mem_filters
        BY <3>1 DEF Filters, IInv, Types, WorkerRecord
      <3>3. w \in ToSet(t) /\ ToSet(t) \ {w} = ToSet(s)
        BY <2>5, <2>6
      <3>4. w \in 1 .. Threads /\ Threads \in Nat /\ IntsOn(u, ToSet(t) \cap (1 .. Threads))
            /\ IntsOn(u, ToSet(s) \cap (1 .. Threads))
        BY <3>2, QueueAssumption DEF IntsOn, Worker
      <3>5. SumOver(u, ToSet(t), Threads) = u[w] + SumOver(u, ToSet(s), Threads)
        <4>1. PICK T : T = ToSet(t)
          OBVIOUS
        <4>2. SumOver(u, T, Threads) = u[w] + SumOver(u, T \ {w}, Threads)
          BY <3>3, <3>4, <4>1, SumOverRemove
        <4> QED BY <3>3, <4>1, <4>2
      <3>6. C = SumOver(u, ToSet(s), Threads)
        BY <2>2, <2>4, <3>1 DEF IInv, MemoryInv, CachedExact
      <3>7. u[w] = f
        BY <2>1, <3>2
      <3>8. mem_cached' = SumOver(u, ToSet(t), Threads)
        BY <2>3, <3>5, <3>6, <3>7
      <3> QED BY <1>14, <2>4, <3>1, <3>8 DEF CachedExact
    <2>16. PICK x \in Seq(Worker) : x = seen_free.free
      BY DEF IInv, Types
    <2>17. (pc' \in {"free", "get"} => Suffixed(x, t) /\ x # t) /\ seen_free'.free = x
      BY <1>3, <1>4, <2>4, <2>6, <2>16 DEF IInv, MemoryInv, Behind
    <2>18. Behind'
      BY <2>4, <2>17 DEF Behind
    <2>19. Seen'
      <3>1. PICK T \in Int : T = seen_free.total
        BY DEF IInv, Types
      <3>2. pc' = "free" => U + C <= T
        BY <1>3, <2>2, <3>1 DEF IInv, MemoryInv, Seen
      <3>3. pc' = "free" => mem_in_use' + mem_cached' <= T
        BY <2>3, <3>2
      <3> QED BY <1>4, <3>1, <3>3 DEF Seen
    <2>20. AllocatedFits'
      <3>1. PICK A \in Int, M \in Int : A = outq.mem_allocated /\ M = MemlimitThreading
        <4>1. outq.mem_allocated \in Nat
          BY BuffersSized, CountsAreNat DEF IInv, Types, MemoryInv
        <4> QED BY <4>1, StreamDecoderAssumption
      <3>2. (~overtaken /\ pc # "get" /\ ret # "MEM_ERROR") => U + C + A <= M
        BY <2>2, <3>1 DEF IInv, MemoryInv, AllocatedFits, AllocatedMemory
      <3>3. (~overtaken /\ pc # "get" /\ ret # "MEM_ERROR") => AllocatedMemory' <= M
        BY <1>5, <2>3, <3>1, <3>2 DEF AllocatedMemory
      <3>4. ~(pc' = "get" /\ threads_free' = seen_free'.free)
        BY <2>4, <2>17
      <3> QED BY <1>3, <1>4, <3>1, <3>3, <3>4 DEF AllocatedFits
    <2>21. MemoryInv'
      BY <1>5, <2>13, <2>14, <2>15, <2>18, <2>19, <2>20 DEF MemoryInv
    <2>22. Types'
      <3>1. \A i \in DOMAIN t : t[i] <= threads_initialized
        <4>1. \A v \in ToSet(s) : v <= threads_initialized
          BY <2>4 DEF IInv, Types, ToSet
        <4> QED BY <1>2, <2>6, <4>1 DEF Given
      <3>2. mem_in_use' \in Int /\ mem_cached' \in Int
        BY <2>3
      <3> QED BY <1>1, <1>4, <1>5, <1>6, <2>4, <2>6, <3>1, <3>2 DEF IInv, Types
    <2> QED BY <1>3, <1>12, <2>11, <2>12, <2>21, <2>22 DEF IInv
  <1>16. CASE wl[w].ret # "STREAM_END"
    <2>1. UNCHANGED <<threads_free, mem_in_use, mem_cached>>
      BY <1>16 DEF Report, Reports
    <2>2. \A v : Free(v)' = Free(v) /\ Given(v)' = Given(v)
      BY <1>4, <2>1 DEF Free, Given
    <2>3. ThreadSound(w)'
      <3>1. Given(w)' /\ Works(w)'
        BY <1>1, <1>2, <1>3, <1>7, <1>8, <2>2 DEF Works
      <3> QED BY <1>1, <1>4, <1>7, <1>8, <3>1 DEF ThreadSound
    <2>4. (Fed /\ thr = w) =>
            /\ ws'[w].job = ws[w].job /\ ws'[w].in_filled = ws[w].in_filled
            /\ ws'[w].in_filled < File[block].in => ws'[w].alive /\ Free(w)' = Free(w)
            /\ pc # "start"
      BY <1>1, <1>9, <2>2 DEF IInv, ThreadInv, FedSound
    <2>5. ThreadInv'
      BY <1>1, <1>6, <2>2, <2>3, <2>4, OtherThreads
    <2>6. QueueInv'
      BY <1>10, <1>11, <1>13, <2>2 DEF QueueInv
    <2>7. CachedExact' /\ Behind' /\ Seen' /\ ReadyToStart'
      BY <1>3, <1>4, <1>14, <2>1 DEF IInv, MemoryInv, CachedExact, Behind, Seen, ReadyToStart
    <2>8. RunningFits'
      BY <1>3, <1>4, <1>5, <2>1 DEF IInv, MemoryInv, RunningFits, RunningMemory, NextBlock, NextIn, Usage
    <2>9. AllocatedFits'
      <3>1. HeadFilters' = HeadFilters
        BY <1>1, <2>1 DEF HeadFilters
      <3>2. Reusable(outq', File[block].out) = Reusable(outq, File[block].out)
        BY <1>5 DEF Reusable
      <3> QED BY <1>3, <1>4, <1>5, <2>1, <3>1, <3>2
            DEF IInv, MemoryInv, AllocatedFits, AllocatedMemory, Others, Usage, Reusable
    <2>10. MemoryInv'
      BY <1>5, <2>7, <2>8, <2>9 DEF MemoryInv
    <2>11. Types'
      BY <1>1, <1>4, <1>5, <1>6, <2>1 DEF IInv, Types
    <2> QED BY <1>3, <1>12, <2>5, <2>6, <2>10, <2>11 DEF IInv
  <1> QED BY <1>15, <1>16

-----------------------------------------------------------------------------
(* The invariant holds, and what it says of the thread that is fed and of  *)
(* memory.                                                                 *)

LEMMA InitInv == Init => IInv
  <1> SUFFICES ASSUME Init PROVE IInv
    OBVIOUS
  <1>1. /\ setup \in Setups /\ block = 0 /\ avail = 0 /\ eaten = 0 /\ sequence = "STREAM_HEADER"
        /\ pc = "app" /\ ret = "OK" /\ threads_initialized = 0 /\ threads_free = <<>>
        /\ mem_in_use = 0 /\ mem_cached = 0 /\ outq = Empty /\ seen_free = NothingSeen
        /\ ws = [w \in Worker |-> IdleWorker] /\ wl = [w \in Worker |-> IdleThread]
    BY DEF Init
  <1>2. Threads \in Nat /\ Worker = 1 .. Threads
    BY QueueAssumption DEF Worker
  <1>3. /\ IsQueue(outq, Buffer, Nat) /\ Counted(outq) /\ outq.active = <<>>
        /\ outq.mem_in_use = 0 /\ outq.mem_allocated = 0
    <2>1. /\ IsQueue(Empty, Buffer, Nat) /\ Empty.active = <<>>
          /\ Empty.mem_in_use = 0 /\ Empty.mem_allocated = 0
      BY DEF Empty, IsQueue
    <2> QED BY <1>1, <2>1, EmptyCounted
  <1>4. Types
    <2>1. threads_free \in Seq(Worker) /\ DOMAIN threads_free = {}
      BY <1>1
    <2>2. seen_free.total \in Int /\ seen_free.free \in Seq(Worker)
      BY <1>1 DEF NothingSeen
    <2>3. ws \in [Worker -> WorkerRecord] /\ wl \in [Worker -> ThreadRecord]
      BY <1>1, IdleTypes
    <2>4. Distinct(threads_free) /\ \A i \in DOMAIN threads_free : threads_free[i] <= threads_initialized
      BY <2>1 DEF Distinct
    <2>5. threads_initialized \in 0 .. Threads /\ mem_in_use \in Int /\ mem_cached \in Int
      BY <1>1, <1>2
    <2> QED BY <1>3, <2>1, <2>2, <2>3, <2>4, <2>5 DEF Types
  <1>5. InputFits
    <2>1. Len(File) \in Nat /\ FileSize \in Nat
      BY <1>1, FileType, FileSizeType
    <2> QED BY <1>1, <2>1 DEF InputFits, AtBlock
  <1>6. Where
    BY <1>1 DEF Where
  <1>7. ThreadInv
    <2>1. ASSUME NEW w \in Worker PROVE ThreadSound(w)
      <3>1. ws[w] = IdleWorker /\ wl[w] = IdleThread
        BY <1>1
      <3>2. ws[w].state = "IDLE" /\ ws[w].job = 0 /\ wl[w].pc = "idle" /\ wl[w].d.in = 0
        BY <3>1, IdleTypes
      <3>3. ~Given(w)
        BY <1>1, <1>2 DEF Given
      <3> QED BY <1>1, <3>2, <3>3 DEF ThreadSound, Rests
    <2>2. ~Fed
      BY <1>1 DEF Fed
    <2> QED BY <2>1, <2>2 DEF ThreadInv, ThreadsSound, FedSound
  <1>8. QueueInv
    BY <1>3 DEF QueueInv, QueueOrdered, BufferOwned, PartialAtHead
  <1>9. MemoryInv
    <2>1. ~Committed
      BY <1>1 DEF Committed
    <2>2. CachedExact
      <3>1. ToSet(threads_free) = {}
        BY <1>1 DEF ToSet
      <3> QED BY <1>1, <1>2, <3>1, SumOverNone DEF CachedExact
    <2>3. RunningFits /\ AllocatedFits
      BY <1>1, <1>3, <2>1, StreamDecoderAssumption
      DEF RunningFits, RunningMemory, AllocatedFits, AllocatedMemory
    <2> QED BY <1>1, <1>3, <2>1, <2>2, <2>3 DEF MemoryInv, ReadyToStart, Behind, Seen
  <1> QED BY <1>4, <1>5, <1>6, <1>7, <1>8, <1>9 DEF IInv

LEMMA StutterStep == ASSUME IInv, UNCHANGED vars PROVE IInv'
  <1>1. /\ UNCHANGED <<setup, pc, avail, ret, pending, sequence, thr, threads_initialized, block, direct>>
        /\ UNCHANGED <<can_start, seen_free, outq, threads_free, mem_in_use, mem_cached, ws, wl>>
        /\ UNCHANGED <<eaten, overtaken>>
    BY DEF vars, call, coder, kept, locals, shared, flow, hist
  <1>2. File' = File /\ Fed' = Fed /\ Fresh' = Fresh /\ Committed' = Committed
    BY <1>1 DEF File, Fed, Fresh, Committed
  <1>3. InputFits'
    BY <1>1, InputKept DEF IInv
  <1>4. Types' /\ Where'
    BY <1>1 DEF IInv, Types, Where
  <1>5. ThreadInv'
    BY <1>1, <1>2 DEF IInv, ThreadInv, ThreadsSound, ThreadSound, FedSound, Given, Free, Rests, Works
  <1>6. QueueInv'
    BY <1>1, <1>2 DEF IInv, QueueInv, QueueOrdered, BufferOwned, Owned, Given, Free, PartialAtHead, Partly
  <1>7. MemoryInv'
    <2>1. CachedExact' /\ Behind' /\ Seen' /\ ReadyToStart' /\ Counted(outq')
      BY <1>1, <1>2 DEF IInv, MemoryInv, CachedExact, Filters, Behind, Seen, ReadyToStart
    <2>2. RunningFits'
      BY <1>1, <1>2 DEF IInv, MemoryInv, RunningFits, RunningMemory, NextBlock, NextIn
    <2>3. AllocatedFits'
      BY <1>1, <1>2 DEF IInv, MemoryInv, AllocatedFits, AllocatedMemory, Others, HeadFilters
    <2> QED BY <2>1, <2>2, <2>3 DEF MemoryInv
  <1> QED BY <1>3, <1>4, <1>5, <1>6, <1>7 DEF IInv

LEMMA NextInv == IInv /\ [Next]_vars => IInv'
  <1> SUFFICES ASSUME IInv, [Next]_vars PROVE IInv'
    OBVIOUS
  <1>1. CASE Call
    BY <1>1, CallStep
  <1>2. CASE SetMemlimit
    BY <1>2, SetMemlimitStep
  <1>3. CASE End
    BY <1>3, EndStep
  <1>4. CASE Code
    <2>1. CASE StreamHeader
      BY <2>1, StreamHeaderStep
    <2>2. CASE BlockHeader
      BY <2>2, BlockHeaderStep
    <2>3. CASE BlockInit
      BY <2>3, BlockInitStep
    <2>4. CASE WaitFirst
      BY <2>4, WaitFirstStep
    <2>5. CASE ErrorNow
      BY <2>5, ErrorNowStep
    <2>6. CASE BlockThrRun
      BY <2>6, BlockThrRunStep
    <2>7. CASE BlockDirectRun
      BY <2>7, BlockDirectRunStep
    <2>8. CASE IndexDecode
      BY <2>8, IndexDecodeStep
    <2>9. CASE StreamFooter
      BY <2>9, StreamFooterStep
    <2>10. CASE StreamPadding
      BY <2>10, StreamPaddingStep
    <2> QED BY <1>4, <2>1, <2>2, <2>3, <2>4, <2>5, <2>6, <2>7, <2>8, <2>9, <2>10 DEF Code
  <1>5. CASE ReadQueue
    BY <1>5, ReadQueueStep
  <1>6. CASE TimeOut
    BY <1>6, TimeOutStep
  <1>7. CASE AfterWait
    BY <1>7, AfterWaitStep
  <1>8. CASE PlanRoom
    BY <1>8, PlanRoomStep
  <1>9. CASE MakeRoom
    BY <1>9, MakeRoomStep
  <1>10. CASE GetThread
    BY <1>10, GetThreadStep
  <1>11. CASE StartThread
    BY <1>11, StartThreadStep
  <1>12. CASE EnablePartial
    BY <1>12, EnablePartialStep
  <1>13. CASE GoDirect
    BY <1>13, GoDirectStep
  <1>14. CASE JoinDirect
    BY <1>14, JoinDirectStep
  <1>15. CASE Join
    BY <1>15, JoinStep
  <1>16. ASSUME NEW w \in Worker, WorkerThread(w) PROVE IInv'
    <2>1. CASE Look(w)
      BY <2>1, LookStep
    <2>2. CASE Decode(w)
      BY <2>2, DecodeStep
    <2>3. CASE Publish(w)
      BY <2>3, PublishStep
    <2>4. CASE Settle(w)
      BY <2>4, SettleStep
    <2>5. CASE Report(w)
      BY <2>5, ReportStep
    <2> QED BY <1>16, <2>1, <2>2, <2>3, <2>4, <2>5 DEF WorkerThread
  <1>17. CASE UNCHANGED vars
    BY <1>17, StutterStep
  <1>18. Next => \/ Call \/ SetMemlimit \/ End \/ Code \/ ReadQueue \/ TimeOut \/ AfterWait \/ PlanRoom
                 \/ MakeRoom \/ GetThread \/ StartThread \/ EnablePartial \/ GoDirect \/ JoinDirect \/ Join
                 \/ \E w \in Worker : WorkerThread(w)
    BY DEF Next, AppThread
  <1> QED BY <1>1, <1>2, <1>3, <1>4, <1>5, <1>6, <1>7, <1>8, <1>9, <1>10, <1>11, <1>12, <1>13, <1>14,
             <1>15, <1>16, <1>17, <1>18

(* Threads, queue and memory of the C decoder are accounted for: what      *)
(* every thread does and has, the order and the owners of the buffers, and *)
(* the exact worth of every counter (stream_decode_mt, worker_decoder,     *)
(* read_output_and_wait).                                                  *)
THEOREM DecoderAccount == Spec => []IInv
  <1> QED BY InitInv, NextInv, PTL DEF Spec

(* The thread that is fed has a buffer for its Block and is not offered to *)
(* another; asked for partial output, its Block is alone in the queue      *)
(* (SEQ_BLOCK_THR_RUN).                                                    *)
THEOREM DecoderFedThreadIsLive == Spec => []FedThreadIsLive
  <1>1. IInv => FedThreadIsLive
    <2> SUFFICES ASSUME IInv, sequence = "BLOCK_THR_RUN", pending \in {"RUN", "FINISH"},
                        pc \notin {"join", "ended"}
                 PROVE  /\ Wanted > 0 => ws[thr].alive /\ ws[thr].job = block /\ thr \notin ToSet(threads_free)
                        /\ (ws[thr].partial # "DISABLED" /\ outq.active # <<>>) =>
                             Len(outq.active) = 1 /\ Head(outq.active).job = block
      BY DEF FedThreadIsLive
    <2>1. Fed
      BY DEF Fed
    <2>2. /\ thr \in Worker /\ ws[thr].job = block
          /\ ws[thr].in_filled < File[block].in => ws[thr].alive /\ thr \notin ToSet(threads_free)
      BY <2>1 DEF IInv, ThreadInv, FedSound, Free
    <2>3. ws[thr].in_filled \in Nat /\ File[block].in \in Nat
      BY <2>2, NextType DEF IInv, Types, WorkerRecord, InputFits, AtBlock
    <2>4. Wanted > 0 => ws[thr].in_filled < File[block].in
      BY <2>3 DEF Wanted
    <2>5. ASSUME ws[thr].partial # "DISABLED", outq.active # <<>>
          PROVE  Len(outq.active) = 1 /\ Head(outq.active).job = block
      <3>1. PICK b \in Seq(Buffer) : b = outq.active
        BY DEF IInv, Types, IsQueue
      <3>2. PICK n \in Nat : n = Len(b)
        OBVIOUS
      <3>3. n \in 1 .. n /\ 1 \in 1 .. n /\ Head(b) = b[1] /\ DOMAIN b = 1 .. n
        BY <2>5, <3>1, <3>2
      <3>4. block <= b[1].job
        BY <2>2, <2>5, <3>1, <3>3 DEF IInv, QueueInv, PartialAtHead, Partly
      <3>5. b[n].job = block /\ (1 < n => b[1].job < b[n].job)
        BY <2>1, <2>5, <3>1, <3>2, <3>3 DEF IInv, QueueInv, QueueOrdered
      <3>6. b[1].job \in Nat /\ block \in Nat
        <4>1. b[1] \in Buffer
          BY <3>2, <3>3
        <4> QED BY <4>1, FileType DEF Buffer, IInv, InputFits
      <3>7. n = 1
        BY <3>3, <3>4, <3>5, <3>6
      <3> QED BY <3>1, <3>2, <3>3, <3>5, <3>7
    <2> QED BY <2>2, <2>4, <2>5
  <1> QED BY <1>1, DecoderAccount, PTL

(* What the decoder uses in multi-threaded mode stays within               *)
(* memlimit_threading, and so does what it has allocated, but for a thread *)
(* that became free while room was made (SEQ_BLOCK_THR_INIT, get_thread).  *)
THEOREM DecoderMemoryBounded == Spec => []MemoryBounded
  <1>1. IInv => MemoryBounded
    BY DEF IInv, MemoryInv, RunningFits, AllocatedFits, MemoryBounded
  <1> QED BY <1>1, DecoderAccount, PTL

-----------------------------------------------------------------------------
(* What is decoded. A coder that has neither ended nor failed, and is not  *)
(* being freed.                                                            *)
Live == pending \in {"RUN", "FINISH"} /\ pc \notin {"join", "ended"}

(* The application finishes with all of the file, or gives up.             *)
CallFits ==
  /\ pc \notin {"app", "join", "ended"} => pending \in {"RUN", "FINISH"}
  /\ Live => pending = action
  /\ (Live /\ action = "FINISH") => gave_up \/ avail + eaten = FileSize
  /\ space \in Nat

(* Where in the file the input consumed ends.                              *)
DataStart == Before(block) + 1
DataEnd   == DataStart + File[block].in
NextStart == Before(block + 1)

Placed ==
  /\ sequence = "STREAM_HEADER" => eaten = NextStart - 1
  /\ sequence = "BLOCK_HEADER" =>
       eaten = NextStart \/ (block # 0 /\ File[block].last /\ eaten = DataEnd)
  /\ sequence \in {"BLOCK_INIT", "BLOCK_THR_INIT", "BLOCK_DIRECT_INIT"} => eaten = DataStart
  /\ pc \in {"start", "partial"} => ws[thr].in_filled = 0
  /\ sequence = "BLOCK_THR_RUN"    => eaten = DataStart + ws[thr].in_filled
  /\ sequence = "BLOCK_DIRECT_RUN" => eaten = DataStart + direct.in
  /\ sequence \in {"INDEX_WAIT_OUTPUT", "INDEX_DECODE"} => eaten = DataEnd
  /\ sequence = "STREAM_FOOTER"    => eaten = DataEnd + 1
  /\ sequence = "STREAM_PADDING"   => setup.concatenated /\ eaten \in DataEnd + 2 .. NextStart - 1
  /\ sequence \in {"INDEX_WAIT_OUTPUT", "INDEX_DECODE", "STREAM_FOOTER", "STREAM_PADDING"} =>
       block # 0 /\ File[block].last

(* What has been read without an error is sound, up to the data of Blocks. *)
(* The header of the Stream was read before those of its Blocks.           *)
BehindBlock  == sequence = "STREAM_HEADER" \/ (sequence = "BLOCK_HEADER" /\ eaten = NextStart)
BeforeRecord == {"BLOCK_INIT", "BLOCK_DIRECT_INIT", "BLOCK_DIRECT_RUN", "ERROR"}
Parsed ==
  /\ \A b \in 1 .. block - 1 : File[b].flaw \in {"none", "data"}
  /\ (sequence = "BLOCK_HEADER" /\ eaten = NextStart /\ block < Len(File)) => File[block + 1].flaw # "stream"
  /\ block # 0 =>
       /\ File[block].flaw # "stream"
       /\ sequence \notin BeforeRecord => File[block].flaw # "record"
       /\ sequence # "ERROR" => File[block].flaw # "header"
       /\ sequence \in {"STREAM_FOOTER", "STREAM_PADDING"} => File[block].flaw # "index"
       /\ sequence = "STREAM_PADDING" => File[block].flaw # "footer"
       /\ BehindBlock => File[block].flaw \in {"none", "data"}
  /\ sequence = "ERROR" => block # 0 /\ pending_error # "OK"

(* n Blocks have been handed to the queue or decoded here. Those that have *)
(* left the queue, and part of the next one, are what was delivered.       *)
Handed(n) ==
  /\ n \in {block - 1, block} /\ n \in Nat
  /\ (Fresh \/ sequence = "BLOCK_DIRECT_RUN") => n = block - 1
  /\ (sequence = "ERROR" /\ File[block].flaw \in {"header", "record"}) => n = block - 1
  /\ (~Fresh /\ sequence \notin {"BLOCK_DIRECT_RUN", "ERROR"}) => n = block

Part(b, k)       == [i \in 1 .. k |-> <<b, i>>]
Stretch(done, k) == Promise!Data(done) \o Part(done + 1, k)
Position == IF sequence = "BLOCK_DIRECT_RUN" THEN direct.out ELSE outq.read_pos

Delivered(n) ==
  LET done == n - Len(outq.active)
  IN /\ done \in Nat
     /\ \A i \in DOMAIN outq.active : outq.active[i].job = done + i
     /\ \A b \in 1 .. done : File[b].flaw # "data"
     /\ output = Stretch(done, Position)

Handing == \E n \in Nat : Handed(n) /\ Delivered(n)

Drained ==
  /\ sequence \in {"BLOCK_DIRECT_RUN", "INDEX_DECODE", "STREAM_FOOTER", "STREAM_PADDING", "STREAM_HEADER"} =>
       outq.active = <<>>
  /\ sequence = "BLOCK_DIRECT_RUN" => direct.out \in 0 .. Decoded(File[block], direct.in)

(* What a buffer holds is part of its Block; a finished one has all of it, *)
(* or the Block is flawed.                                                 *)
BufferFits(b) ==
  /\ b.pos \in 0 .. File[b.job].out
  /\ (b.finished /\ b.ret = "STREAM_END") => b.pos = File[b.job].out /\ File[b.job].flaw # "data"
  /\ (b.finished /\ b.ret # "STREAM_END") => b.ret = "DATA_ERROR" /\ File[b.job].flaw = "data"

BuffersFit ==
  /\ \A i \in DOMAIN outq.active : BufferFits(outq.active[i])
  /\ outq.read_pos \in 0 .. (IF outq.active = <<>> THEN 0 ELSE outq.active[1].pos)

(* A thread at work fills a buffer of the queue that no other one fills,   *)
(* and has decoded at least what the buffer shows.                         *)
AtWork(w) ==
  \/ wl[w].pc \in {"decode", "publish", "settle", "report"} \/ ws[w].state = "RUN"
  \/ pc = "start" /\ w = thr

Fills(w, b) == b.job = ws[w].job /\ ~b.finished /\ b.pos <= wl[w].d.out

WorkFits(w) ==
  /\ ~AtWork(w) => wl[w].d.out = 0
  /\ AtWork(w) =>
       /\ \E i \in DOMAIN outq.active : Fills(w, outq.active[i])
       /\ wl[w].d.out \in 0 .. Decoded(File[ws[w].job], wl[w].d.in)
       /\ wl[w].pc \in {"settle", "report"} =>
            \/ wl[w].ret = "STREAM_END" /\ wl[w].d.out = File[ws[w].job].out
                 /\ File[ws[w].job].flaw # "data"
            \/ wl[w].ret = "DATA_ERROR" /\ File[ws[w].job].flaw = "data"

Alone == \A v, w \in Worker : (AtWork(v) /\ AtWork(w) /\ ws[v].job = ws[w].job) => v = w

(* An error that is remembered has its buffer in the queue.                *)
FailedBuffer(b) == b.finished /\ b.ret = "DATA_ERROR"
Faults ==
  /\ thread_error \in {"OK", "DATA_ERROR"} /\ pending_error \in {"OK", "DATA_ERROR", "PROG_ERROR"}
  /\ (thread_error # "OK" \/ pending_error = "PROG_ERROR") =>
       \E i \in DOMAIN outq.active : FailedBuffer(outq.active[i])
  /\ setup.fail_fast => pending_error # "PROG_ERROR"
  /\ pending_error = "DATA_ERROR" => sequence = "ERROR" /\ File[block].flaw \in {"header", "record"}

InputInv == Placed /\ Parsed
OutputInv == Handing /\ Drained /\ BuffersFit
WorkInv == (\A w \in Worker : WorkFits(w)) /\ Alone
DataInv == CallFits /\ (Live => InputInv /\ OutputInv /\ WorkInv /\ Faults)

-----------------------------------------------------------------------------
(* The data of the file.                                                   *)
Unit == Nat \X Nat

LEMMA PartType ==
  ASSUME NEW b \in Nat, NEW k \in Nat
  PROVE  Part(b, k) \in Seq(Unit) /\ Len(Part(b, k)) = k /\ \A i \in 1 .. k : Part(b, k)[i] = <<b, i>>
  BY DEF Part, Unit

Parts == [b \in 1 .. Len(File) |-> Part(b, File[b].out)]

LEMMA PartsType == ASSUME setup \in Setups PROVE \A b \in 1 .. Len(File) : Parts[b] \in Seq(Unit)
  <1>1. \A b \in 1 .. Len(File) : b \in Nat /\ File[b].out \in Nat
    BY FileType
  <1>2. \A b \in 1 .. Len(File) : Part(b, File[b].out) \in Seq(Unit)
    BY <1>1, PartType
  <1> QED BY <1>2 DEF Parts

LEMMA DataJoins ==
  ASSUME setup \in Setups, NEW n \in 0 .. Len(File)
  PROVE  \E f \in [0 .. n -> Seq(Unit)] : Joins(f, Parts, n) /\ Promise!Data(n) = f[n]
  <1>1. Len(File) \in Nat /\ n \in Nat /\ DOMAIN File = 1 .. Len(File)
    BY FileType
  <1>2. PICK s : s = SubSeq(File, 1, n)
    OBVIOUS
  <1>3. Len(s) = n /\ \A b \in 1 .. n : s[b] = File[b]
    BY <1>1, <1>2
  <1>4. PICK f : f = CHOOSE g : g = [b \in 0 .. Len(s) |->
                       IF b = 0 THEN <<>> ELSE g[b - 1] \o [i \in 1 .. s[b].out |-> <<b, i>>]]
    OBVIOUS
  <1>5. Promise!Data(n) = f[n]
    BY <1>2, <1>3, <1>4 DEF Promise!Data, Promise!DataOf
  <1>6. \A b \in 1 .. n : Parts[b] = [i \in 1 .. s[b].out |-> <<b, i>>]
    <2>1. \A b \in 1 .. n : b \in 1 .. Len(File)
      BY <1>1
    <2>2. \A b \in 1 .. n : Parts[b] = Part(b, s[b].out)
      BY <1>3, <2>1 DEF Parts
    <2> QED BY <2>2 DEF Part
  <1>7. \A g : Joins(g, Parts, n)
              <=> g = [b \in 0 .. n |-> IF b = 0 THEN <<>> ELSE g[b - 1] \o [i \in 1 .. s[b].out |-> <<b, i>>]]
    <2> TAKE g
    <2>1. PICK u : u = [b \in 0 .. n |-> IF b = 0 THEN <<>> ELSE g[b - 1] \o Parts[b]]
      OBVIOUS
    <2>2. PICK v : v = [b \in 0 .. n |-> IF b = 0 THEN <<>> ELSE g[b - 1] \o [i \in 1 .. s[b].out |-> <<b, i>>]]
      OBVIOUS
    <2>3. \A b \in 0 .. n : u[b] = v[b]
      <3> TAKE b \in 0 .. n
      <3>1. b # 0 => b \in 1 .. n
        OBVIOUS
      <3> QED BY <1>6, <2>1, <2>2, <3>1
    <2>4. u = v
      BY <2>1, <2>2, <2>3
    <2> QED BY <2>1, <2>2, <2>4 DEF Joins
  <1>8. PICK g \in [0 .. n -> Seq(Unit)] : Joins(g, Parts, n)
    <2>1. \A b \in 1 .. n : Parts[b] \in Seq(Unit)
      BY <1>1, PartsType
    <2> QED BY <1>1, <2>1, JoinsExists
  <1>9. Joins(f, Parts, n)
    BY <1>3, <1>4, <1>7, <1>8
  <1>10. f[n] = g[n]
    BY <1>1, <1>8, <1>9, JoinsUnique
  <1> QED BY <1>5, <1>8, <1>10

LEMMA DataNext ==
  ASSUME setup \in Setups, NEW n \in Nat, n < Len(File)
  PROVE  /\ Promise!Data(n + 1) \in Seq(Unit)
         /\ Promise!Data(n + 1) = Promise!Data(n) \o Part(n + 1, File[n + 1].out)
  <1>1. PICK m \in Nat : m = n + 1 /\ m \in 0 .. Len(File) /\ n \in 0 .. Len(File) /\ m \in 1 .. Len(File) /\ n <= m
    BY FileType
  <1>2. PICK f \in [0 .. m -> Seq(Unit)] : Joins(f, Parts, m) /\ Promise!Data(m) = f[m]
    BY <1>1, DataJoins
  <1>3. PICK g \in [0 .. n -> Seq(Unit)] : Joins(g, Parts, n) /\ Promise!Data(n) = g[n]
    BY <1>1, DataJoins
  <1>4. f[n] = g[n]
    <2>1. n \in Nat /\ m \in Nat /\ n <= m
      BY <1>1
    <2>2. \A a, b : Joins(a, Parts, m) /\ Joins(b, Parts, n) => a[n] = b[n]
      BY <2>1, JoinsUnique
    <2> QED BY <1>2, <1>3, <2>2
  <1>5. f[m] = f[n] \o Parts[m] /\ f[m] \in Seq(Unit)
    <2>1. m \in 0 .. m /\ m # 0 /\ m - 1 = n
      BY <1>1
    <2>2. f[m] = IF m = 0 THEN <<>> ELSE f[m - 1] \o Parts[m]
      BY <1>2, <2>1 DEF Joins
    <2> QED BY <1>2, <2>1, <2>2
  <1>6. Parts[m] = Part(m, File[m].out)
    BY <1>1 DEF Parts
  <1> QED BY <1>1, <1>2, <1>3, <1>4, <1>5, <1>6

LEMMA DataNone == ASSUME setup \in Setups PROVE Promise!Data(0) = <<>>
  <1>1. 0 \in 0 .. Len(File)
    BY FileType
  <1>2. PICK f \in [0 .. 0 -> Seq(Unit)] : Joins(f, Parts, 0) /\ Promise!Data(0) = f[0]
    BY <1>1, DataJoins
  <1> QED BY <1>2 DEF Joins

LEMMA DataType ==
  ASSUME setup \in Setups, NEW n \in 0 .. Len(File)
  PROVE  Promise!Data(n) \in Seq(Unit)
  <1>1. CASE n = 0
    <2>1. <<>> \in Seq(Unit)
      OBVIOUS
    <2> QED BY <1>1, <2>1, DataNone
  <1>2. CASE n # 0
    <2>1. PICK m \in Nat : n = m + 1 /\ m < Len(File)
      <3>1. n - 1 \in Nat /\ n = (n - 1) + 1 /\ Len(File) \in Nat
        BY <1>2, FileType
      <3> QED BY <3>1
    <2> QED BY <2>1, DataNext
  <1> QED BY <1>1, <1>2

(* The data of fewer Blocks is the beginning of that of more.              *)
Begins(s, t) == Len(s) <= Len(t) /\ \A i \in 1 .. Len(s) : s[i] = t[i]

LEMMA BeginsMore ==
  ASSUME NEW r, NEW s \in Seq(r), NEW t \in Seq(r), NEW u \in Seq(r), Begins(s, t)
  PROVE  Begins(s, t \o u)
  BY DEF Begins

LEMMA DataBegins ==
  ASSUME setup \in Setups, NEW n \in Nat, NEW m \in Nat, n <= m, m <= Len(File)
  PROVE  Begins(Promise!Data(n), Promise!Data(m))
  <1>1. PICK T : T = {d \in Nat : n + d <= Len(File) => Begins(Promise!Data(n), Promise!Data(n + d))}
    OBVIOUS
  <1>2. Len(File) \in Nat
    BY FileType
  <1>3. 0 \in T
    <2>1. n + 0 = n
      OBVIOUS
    <2> QED BY <1>1, <2>1 DEF Begins
  <1>4. ASSUME NEW d \in Nat, d \in T PROVE d + 1 \in T
    <2> SUFFICES ASSUME n + (d + 1) <= Len(File) PROVE Begins(Promise!Data(n), Promise!Data(n + (d + 1)))
      BY <1>1
    <2>1. PICK k \in Nat : k = n + d /\ k < Len(File) /\ n + (d + 1) = k + 1
      BY <1>2
    <2>2. Begins(Promise!Data(n), Promise!Data(k))
      BY <1>1, <1>2, <1>4, <2>1
    <2>3. Promise!Data(k + 1) = Promise!Data(k) \o Part(k + 1, File[k + 1].out)
      BY <2>1, DataNext
    <2>4. Promise!Data(n) \in Seq(Unit) /\ Promise!Data(k) \in Seq(Unit)
      BY <1>2, <2>1, DataType
    <2>5. Part(k + 1, File[k + 1].out) \in Seq(Unit)
      <3>1. k + 1 \in 1 .. Len(File)
        BY <1>2, <2>1
      <3>2. File[k + 1].out \in Nat
        BY <3>1, FileType
      <3> QED BY <2>1, <3>2, PartType
    <2> QED BY <2>1, <2>2, <2>3, <2>4, <2>5, BeginsMore
  <1>5. m - n \in T /\ n + (m - n) = m
    BY <1>3, <1>4, AllNumbers
  <1> QED BY <1>1, <1>5

LEMMA Concatenated ==
  ASSUME NEW U, NEW s \in Seq(U), NEW t \in Seq(U)
  PROVE  /\ s \o t \in Seq(U) /\ Len(s \o t) = Len(s) + Len(t)
         /\ \A i \in 1 .. Len(s) : (s \o t)[i] = s[i]
         /\ \A i \in 1 .. Len(t) : (s \o t)[Len(s) + i] = t[i]
  <1>1. ASSUME NEW i \in 1 .. Len(t) PROVE (s \o t)[Len(s) + i] = t[i]
    <2>1. PICK j : j = Len(s) + i
      OBVIOUS
    <2>2. j \in 1 .. Len(s) + Len(t) /\ ~(j <= Len(s)) /\ j - Len(s) = i
      BY <2>1
    <2>3. (s \o t)[j] = t[j - Len(s)]
      BY <2>2
    <2> QED BY <2>1, <2>2, <2>3
  <1> QED BY <1>1

(* What was delivered is a beginning of what can be decoded, and has all   *)
(* of the sound Blocks in it.                                              *)
LEMMA StretchType ==
  ASSUME setup \in Setups, NEW n \in 0 .. Len(File), NEW k \in Nat
  PROVE  /\ Stretch(n, k) \in Seq(Unit) /\ Len(Stretch(n, k)) = Len(Promise!Data(n)) + k
         /\ \A i \in 1 .. Len(Promise!Data(n)) : Stretch(n, k)[i] = Promise!Data(n)[i]
         /\ \A i \in 1 .. k : Stretch(n, k)[Len(Promise!Data(n)) + i] = <<n + 1, i>>
  <1>1. PICK d \in Seq(Unit) : d = Promise!Data(n)
    BY DataType
  <1>2. PICK p \in Seq(Unit) : p = Part(n + 1, k) /\ Len(p) = k /\ \A i \in 1 .. k : p[i] = <<n + 1, i>>
    BY PartType
  <1>3. Stretch(n, k) = d \o p
    BY <1>1, <1>2 DEF Stretch
  <1>4. PICK s : s = d \o p
    OBVIOUS
  <1>5. /\ s \in Seq(Unit) /\ Len(s) = Len(d) + k
        /\ \A i \in 1 .. Len(d) : s[i] = d[i]
        /\ \A i \in 1 .. k : s[Len(d) + i] = p[i]
    BY <1>2, <1>4, Concatenated
  <1>6. \A i \in 1 .. k : s[Len(d) + i] = <<n + 1, i>>
    BY <1>2, <1>5
  <1> QED BY <1>1, <1>3, <1>4, <1>5, <1>6

LEMMA StretchNone ==
  ASSUME setup \in Setups, NEW n \in 0 .. Len(File)
  PROVE  Stretch(n, 0) = Promise!Data(n)
  <1>1. PICK d \in Seq(Unit) : d = Promise!Data(n)
    BY DataType
  <1>2. Part(n + 1, 0) = <<>>
    BY DEF Part
  <1> QED BY <1>1, <1>2 DEF Stretch

LEMMA StretchFull ==
  ASSUME setup \in Setups, NEW n \in Nat, n < Len(File)
  PROVE  Stretch(n, File[n + 1].out) = Promise!Data(n + 1)
  BY DataNext DEF Stretch

(* m units of Block b, behind the first k.                                 *)
Run(b, k, m) == [i \in 1 .. m |-> <<b, k + i>>]

LEMMA RunType ==
  ASSUME NEW b \in Nat, NEW k \in Nat, NEW m \in Nat
  PROVE  Run(b, k, m) \in Seq(Unit) /\ Len(Run(b, k, m)) = m /\ \A i \in 1 .. m : Run(b, k, m)[i] = <<b, k + i>>
  BY DEF Unit, Run

LEMMA PartsJoin ==
  ASSUME NEW b \in Nat, NEW k \in Nat, NEW m \in Nat
  PROVE  Part(b, k) \o Run(b, k, m) = Part(b, k + m)
  <1>1. PICK p \in Seq(Unit) : p = Part(b, k) /\ Len(p) = k /\ \A i \in 1 .. k : p[i] = <<b, i>>
    BY PartType
  <1>2. PICK c \in Nat : c = k + m
    OBVIOUS
  <1>3. PICK r \in Seq(Unit) : r = Part(b, c) /\ Len(r) = c /\ \A i \in 1 .. c : r[i] = <<b, i>>
    BY PartType
  <1>4. PICK q \in Seq(Unit) : q = Run(b, k, m) /\ Len(q) = m /\ \A i \in 1 .. m : q[i] = <<b, k + i>>
    BY RunType
  <1>5. PICK s : s = p \o q
    OBVIOUS
  <1>6. /\ s \in Seq(Unit) /\ Len(s) = Len(p) + Len(q)
        /\ \A i \in 1 .. Len(p) : s[i] = p[i]
        /\ \A i \in 1 .. Len(q) : s[Len(p) + i] = q[i]
    BY ONLY <1>5, Concatenated
  <1>7. ASSUME NEW i \in 1 .. c PROVE s[i] = r[i]
    <2>1. r[i] = <<b, i>>
      BY <1>3
    <2>2. CASE i <= k
      <3>1. i \in 1 .. k
        BY <2>2
      <3> QED BY <1>1, <1>6, <2>1, <3>1
    <2>3. CASE i > k
      <3>1. PICK j \in 1 .. m : i = k + j
        <4>1. i - k \in 1 .. m /\ i = k + (i - k)
          BY <1>2, <2>3
        <4> QED BY <4>1
      <3> QED BY <1>1, <1>6, <1>4, <2>1, <3>1
    <2> QED BY <2>2, <2>3
  <1>8. Len(s) = Len(r) /\ Len(r) = c
    BY <1>1, <1>2, <1>3, <1>6, <1>4
  <1>9. s = r
    <2>1. \A i \in 1 .. Len(s) : s[i] = r[i]
      BY <1>7, <1>8
    <2> QED BY ONLY <1>6, <1>3, <1>8, <2>1, SeqEqual
  <1> QED BY <1>1, <1>2, <1>3, <1>5, <1>9, <1>4

LEMMA StretchMore ==
  ASSUME setup \in Setups, NEW n \in 0 .. Len(File), NEW k \in Nat, NEW m \in Nat
  PROVE  Stretch(n, k) \o Run(n + 1, k, m) = Stretch(n, k + m)
  <1>1. PICK b \in Nat : b = n + 1
    OBVIOUS
  <1>2. PICK q \in Seq(Unit) : q = Run(b, k, m)
    BY RunType
  <1>3. PICK d \in Seq(Unit) : d = Promise!Data(n)
    BY DataType
  <1>4. PICK p \in Seq(Unit) : p = Part(b, k)
    BY PartType
  <1>5. p \o q = Part(b, k + m)
    BY <1>2, <1>4, PartsJoin
  <1>6. (d \o p) \o q = d \o (p \o q)
    BY ConcatAssociative
  <1> QED BY <1>1, <1>2, <1>3, <1>4, <1>5, <1>6 DEF Stretch

LEMMA StretchBegins ==
  ASSUME setup \in Setups, NEW n \in Nat, NEW k \in Nat, NEW m \in Nat, n <= m, m <= Len(File),
         k = 0 \/ (n < m /\ k <= File[n + 1].out)
  PROVE  Begins(Stretch(n, k), Promise!Data(m))
  <1>1. Len(File) \in Nat
    BY FileType
  <1>2. CASE k = 0
    BY <1>1, <1>2, StretchNone, DataBegins
  <1>3. CASE n < m /\ k <= File[n + 1].out
    <2>1. n + 1 \in 1 .. Len(File) /\ n \in 0 .. Len(File) /\ n + 1 \in 0 .. Len(File) /\ m \in 0 .. Len(File)
      BY <1>1, <1>3
    <2>2. PICK c \in Nat : c = File[n + 1].out
      BY <2>1, FileType
    <2>3. PICK e \in Seq(Unit) : e = Promise!Data(n + 1)
      BY <2>1, DataType
    <2>4. PICK d \in Seq(Unit) : d = Promise!Data(n)
      BY <2>1, DataType
    <2>5. PICK a \in Seq(Unit) : a = Promise!Data(m)
      BY <2>1, DataType
    <2>6. Begins(e, a)
      <3>1. n + 1 \in Nat /\ n + 1 <= m
        BY <1>3
      <3> QED BY <2>3, <2>5, <3>1, DataBegins
    <2>7. PICK s \in Seq(Unit) : /\ s = Stretch(n, k) /\ Len(s) = Len(d) + k
                                 /\ \A i \in 1 .. Len(d) : s[i] = d[i]
                                 /\ \A i \in 1 .. k : s[Len(d) + i] = <<n + 1, i>>
      <3>1. /\ Stretch(n, k) \in Seq(Unit) /\ Len(Stretch(n, k)) = Len(d) + k
            /\ \A i \in 1 .. Len(d) : Stretch(n, k)[i] = d[i]
            /\ \A i \in 1 .. k : Stretch(n, k)[Len(d) + i] = <<n + 1, i>>
        BY <2>1, <2>4, StretchType
      <3> QED BY <3>1
    <2>8. /\ Len(e) = Len(d) + c
          /\ \A i \in 1 .. Len(d) : e[i] = d[i]
          /\ \A i \in 1 .. c : e[Len(d) + i] = <<n + 1, i>>
      <3>1. e = Stretch(n, c)
        <4>1. n < Len(File)
          BY <1>1, <2>1
        <4> QED BY <2>2, <2>3, <4>1, StretchFull
      <3> QED BY <2>1, <2>2, <2>4, <3>1, StretchType
    <2>9. ASSUME NEW i \in 1 .. Len(s) PROVE s[i] = e[i]
      <3>1. CASE i <= Len(d)
        BY <2>7, <2>8, <3>1
      <3>2. CASE i > Len(d)
        <4>1. PICK j \in 1 .. k : i = Len(d) + j
          <5>1. i - Len(d) \in 1 .. k /\ i = Len(d) + (i - Len(d))
            BY <2>7, <3>2
          <5> QED BY <5>1
        <4>2. j \in 1 .. c
          BY <1>3, <2>2, <4>1
        <4> QED BY <2>7, <2>8, <4>1, <4>2
      <3> QED BY <3>1, <3>2
    <2>10. Len(s) <= Len(e)
      BY <1>3, <2>2, <2>7, <2>8
    <2>11. Begins(s, a)
      BY <2>6, <2>9, <2>10 DEF Begins
    <2> QED BY <2>5, <2>7, <2>11
  <1> QED BY <1>2, <1>3

-----------------------------------------------------------------------------
(* What the Blocks take of the file.                                       *)
Length(r) == 1 + r.in + Tail3(r)
Lengths   == [i \in 1 .. Len(File) |-> Length(File[i])]

LEMMA LengthType ==
  ASSUME setup \in Setups, NEW b \in 1 .. Len(File)
  PROVE  /\ Lengths[b] = Length(File[b]) /\ Length(File[b]) \in Nat /\ File[b].in \in Nat \ {0}
         /\ Tail3(File[b]) \in Nat /\ Length(File[b]) >= 2
  <1>1. File[b].in \in Nat \ {0}
    BY FileType
  <1>2. Tail3(File[b]) \in Nat
    BY DEF Tail3
  <1> QED BY <1>1, <1>2 DEF Length, Lengths

LEMMA BeforeIsSum ==
  ASSUME setup \in Setups, NEW n \in 0 .. Len(File)
  PROVE  Before(n + 1) = 1 + SumTo(Lengths, n)
  <1>1. File \in Seq(BlockRecord) /\ Len(File) \in Nat
    BY FileType
  <1>2. n \in Nat /\ n <= Len(File)
    BY <1>1
  <1>3. PICK s : s = SubSeq(File, 1, n)
    OBVIOUS
  <1>4. DOMAIN s = 1 .. n /\ \A i \in 1 .. n : s[i] = File[i]
    BY <1>1, <1>2, <1>3
  <1>5. PICK S : S = 1 .. n
    OBVIOUS
  <1>6. PICK v : v = [i \in S |-> 1 + s[i].in + Tail3(s[i])]
    OBVIOUS
  <1>7. \A i \in S : s[i] = File[i] /\ s[i].in \in Nat /\ Tail3(s[i]) \in Nat
    <2>1. ASSUME NEW i \in S PROVE s[i] = File[i] /\ s[i].in \in Nat /\ Tail3(s[i]) \in Nat
      <3>1. i \in 1 .. Len(File) /\ i \in 1 .. n
        BY <1>1, <1>2, <1>5
      <3> QED BY <1>4, <3>1, LengthType
    <2> QED BY <2>1
  <1>8. IntsOn(v, S)
    BY <1>6, <1>7 DEF IntsOn
  <1>9. PICK one \in Int : one = 1
    OBVIOUS
  <1>10. S \in SUBSET (1 .. n)
    BY <1>5
  <1>11. PICK f \in [SUBSET S -> Int] : AddsUp(f, v, S, one)
    BY <1>2, <1>8, <1>9, <1>10, FoldExists
  <1>12. TakenFold(f, s, S)
    <2>1. ASSUME NEW t \in SUBSET S
          PROVE  f[t] = IF t = {} THEN 1 ELSE LET x == CHOOSE x \in t : TRUE
                                              IN f[t \ {x}] + 1 + s[x].in + Tail3(s[x])
      <3>1. CASE t = {}
        BY <1>9, <1>11, <3>1 DEF AddsUp
      <3>2. CASE t # {}
        <4>1. PICK x \in S : x = Some(t)
          BY <3>2, SomeIn
        <4>2. f[t \ {x}] \in Int
          BY <1>11
        <4>3. f[t] = v[x] + f[t \ {x}]
          BY <1>11, <3>2, <4>1, <4>2 DEF AddsUp
        <4>4. f[t] = f[t \ {x}] + 1 + s[x].in + Tail3(s[x])
          BY <1>6, <1>7, <4>2, <4>3
        <4> QED BY <3>2, <4>1, <4>4 DEF Some
      <3> QED BY <3>1, <3>2
    <2> QED BY <1>11, <2>1 DEF TakenFold
  <1>13. PICK g : g = CHOOSE h : TakenFold(h, s, S)
    OBVIOUS
  <1>14. TakenFold(g, s, S)
    BY <1>12, <1>13
  <1>15. Before(n + 1) = g[S]
    <2>1. Before(n + 1) = TakenBy(SubSeq(File, 1, n + 1 - 1))
      BY DEF Before
    <2>2. SubSeq(File, 1, n + 1 - 1) = s
      BY <1>2, <1>3
    <2>3. TakenBy(s) = g[S]
      BY <1>4, <1>5, <1>13
      DEF TakenBy, FoldSeq, FoldFunction, FoldFunctionOnSet, MapThenFoldSet, TakenFold
    <2> QED BY <2>1, <2>2, <2>3
  <1>16. AddsUp(g, v, S, one)
    <2>1. ASSUME NEW t \in SUBSET S, t # {}, g[t \ {Some(t)}] \in Int
          PROVE  g[t] = v[Some(t)] + g[t \ {Some(t)}]
      <3>1. PICK x \in S : x = Some(t)
        BY <2>1, SomeIn
      <3>2. g[t] = g[t \ {x}] + 1 + s[x].in + Tail3(s[x])
        BY <1>14, <2>1, <3>1 DEF TakenFold, Some
      <3>3. s[x].in \in Nat /\ Tail3(s[x]) \in Nat /\ v[x] = 1 + s[x].in + Tail3(s[x])
        BY <1>6, <1>7, <3>1
      <3>4. PICK c \in Nat, l \in Nat : c = s[x].in /\ l = Tail3(s[x])
        BY <3>3
      <3>5. PICK k \in Int : k = g[t \ {x}]
        BY <2>1, <3>1
      <3>6. g[t] = k + 1 + c + l /\ v[x] = 1 + c + l /\ k \in Int /\ c \in Nat /\ l \in Nat
        BY <3>2, <3>3, <3>4, <3>5
      <3>7. g[t] = v[x] + k
        BY <3>6
      <3> QED BY <3>1, <3>5, <3>7
    <2>2. g[{}] = 1
      BY <1>14 DEF TakenFold
    <2> QED BY <1>9, <2>1, <2>2 DEF AddsUp
  <1>17. g[S] = one + SumOver(v, S, n)
    BY <1>2, <1>8, <1>9, <1>10, <1>16, FoldIsSum
  <1>18. Agree(v, Lengths, n) /\ Numbers(v, n)
    <2>1. ASSUME NEW i \in 1 .. n PROVE v[i] = Lengths[i] /\ v[i] \in Int
      <3>1. i \in S /\ i \in 1 .. Len(File)
        BY <1>1, <1>2, <1>5
      <3>2. v[i] = Length(File[i])
        BY <1>6, <1>7, <3>1 DEF Length
      <3> QED BY <3>1, <3>2, LengthType
    <2> QED BY <2>1 DEF Agree, Numbers
  <1>19. SumOver(v, S, n) = SumTo(Lengths, n)
    BY <1>2, <1>5, <1>18, SumOverAll, SumSame
  <1> QED BY <1>9, <1>15, <1>17, <1>19

LEMMA BeforeFirst == ASSUME setup \in Setups PROVE Before(1) = 1
  <1>1. 0 \in 0 .. Len(File) /\ 0 + 1 = 1
    BY FileType
  <1>2. Before(0 + 1) = 1 + SumTo(Lengths, 0)
    BY <1>1, BeforeIsSum
  <1> QED BY <1>1, <1>2, SumZero

LEMMA BeforeStep ==
  ASSUME setup \in Setups, NEW b \in 1 .. Len(File)
  PROVE  /\ Before(b) \in Nat /\ Before(b + 1) \in Nat /\ Before(b) >= 1
         /\ Before(b + 1) = Before(b) + 1 + File[b].in + Tail3(File[b])
  <1>1. PICK n \in Nat : b = n + 1 /\ n <= Len(File) /\ n + 1 <= Len(File)
    <2>1. b - 1 \in Nat /\ b = (b - 1) + 1 /\ b - 1 <= Len(File) /\ (b - 1) + 1 <= Len(File)
      BY FileType
    <2> QED BY <2>1
  <1>2. n \in 0 .. Len(File) /\ n + 1 \in 0 .. Len(File) /\ n + 1 \in Nat
    BY <1>1, FileType
  <1>3. \A i \in 1 .. n + 1 : Lengths[i] \in Nat
    <2>1. \A i \in 1 .. n + 1 : i \in 1 .. Len(File)
      BY <1>1, FileType
    <2> QED BY <2>1, LengthType
  <1>4. Numbers(Lengths, n + 1)
    BY <1>3 DEF Numbers
  <1>5. SumTo(Lengths, n + 1) = SumTo(Lengths, n) + Lengths[n + 1]
    BY <1>4, SumStep
  <1>6. PICK s \in Nat : s = SumTo(Lengths, n)
    BY <1>3, SumNat
  <1>7. PICK i \in Nat, t \in Nat : i = File[b].in /\ t = Tail3(File[b]) /\ Lengths[b] = 1 + i + t
    BY LengthType DEF Length
  <1>8. Before(b) = 1 + s
    BY <1>1, <1>2, <1>6, BeforeIsSum
  <1>9. Before(b + 1) = 1 + (s + (1 + i + t))
    <2>1. Before(n + 1 + 1) = 1 + SumTo(Lengths, n + 1)
      BY <1>2, BeforeIsSum
    <2>2. Lengths[n + 1] = 1 + i + t
      BY <1>1, <1>7
    <2> QED BY <1>1, <1>5, <1>6, <2>1, <2>2
  <1>10. s \in Nat /\ i \in Nat /\ t \in Nat
    OBVIOUS
  <1>11. Before(b) \in Nat /\ Before(b) >= 1 /\ Before(b + 1) \in Nat
    BY <1>8, <1>9, <1>10
  <1>12. Before(b + 1) = Before(b) + 1 + i + t
    BY <1>8, <1>9, <1>10
  <1> QED BY <1>7, <1>11, <1>12

LEMMA BeforeNext ==
  ASSUME setup \in Setups, NEW b \in 1 .. Len(File)
  PROVE  Before(b) \in Nat /\ Before(b + 1) \in Nat /\ Before(b) >= 1 /\ Before(b) + 2 <= Before(b + 1)
  <1>1. PICK i \in Nat \ {0}, t \in Nat : i = File[b].in /\ t = Tail3(File[b])
    BY LengthType
  <1>2. Before(b + 1) = Before(b) + 1 + i + t
    BY <1>1, BeforeStep
  <1>3. Before(b) \in Nat /\ Before(b + 1) \in Nat /\ Before(b) >= 1
    BY BeforeStep
  <1> QED BY <1>1, <1>2, <1>3

LEMMA BeforeGrows ==
  ASSUME setup \in Setups, NEW n \in Nat, NEW m \in Nat, n < m, m <= Len(File)
  PROVE  Before(n + 1) + 2 <= Before(m + 1)
  <1>1. PICK T : T = {d \in Nat : n + 1 + d <= Len(File) => Before(n + 1) + 2 <= Before(n + 1 + d + 1)}
    OBVIOUS
  <1>2. Len(File) \in Nat
    BY FileType
  <1>3. Before(n + 1) \in Nat
    <2>1. n + 1 \in 1 .. Len(File)
      BY <1>2
    <2>2. \A b \in 1 .. Len(File) : Before(b) \in Nat
      BY BeforeStep
    <2> QED BY <2>1, <2>2
  <1>4. 0 \in T
    <2>1. PICK b \in 1 .. Len(File) : b = n + 1
      <3>1. n + 1 \in 1 .. Len(File)
        BY <1>2
      <3> QED BY <3>1
    <2>2. Before(b) + 2 <= Before(b + 1)
      BY BeforeNext
    <2>3. n + 1 + 0 + 1 = b + 1
      BY <2>1
    <2> QED BY <1>1, <2>1, <2>2, <2>3
  <1>5. ASSUME NEW d \in Nat, d \in T PROVE d + 1 \in T
    <2> SUFFICES ASSUME n + 1 + (d + 1) <= Len(File) PROVE Before(n + 1) + 2 <= Before(n + 1 + (d + 1) + 1)
      BY <1>1
    <2>1. PICK b \in 1 .. Len(File) : b = n + 1 + d + 1
      <3>1. n + 1 + d + 1 \in 1 .. Len(File)
        BY <1>2
      <3> QED BY <3>1
    <2>2. Before(n + 1) + 2 <= Before(b)
      BY <1>1, <1>2, <1>5, <2>1
    <2>3. Before(b) \in Nat /\ Before(b) + 2 <= Before(b + 1) /\ Before(b + 1) \in Nat
      BY BeforeNext
    <2>4. n + 1 + (d + 1) + 1 = b + 1
      BY <2>1
    <2> QED BY <1>3, <2>2, <2>3, <2>4
  <1>6. m - n - 1 \in T /\ n + 1 + (m - n - 1) + 1 = m + 1 /\ n + 1 + (m - n - 1) <= Len(File)
    BY <1>2, <1>4, <1>5, AllNumbers
  <1> QED BY <1>1, <1>6

(* What is behind a Block that is not the last of the file.                *)
LEMMA FileGoesOn ==
  ASSUME setup \in Setups, NEW b \in 0 .. Len(File)
  PROVE  /\ Before(b + 1) \in Nat /\ Before(b + 1) >= 1 /\ FileSize \in Nat
         /\ Before(b + 1) - 1 <= FileSize
         /\ b < Len(File) => Before(b + 1) < FileSize
         /\ b = Len(File) => Before(b + 1) - 1 = FileSize
  <1>1. PICK l \in Nat \ {0} : l = Len(File)
    BY FileType
  <1>2. FileSize = Before(l + 1) - 1 /\ FileSize \in Nat
    BY <1>1, FileSizeType DEF FileSize
  <1>3. Before(b + 1) \in Nat /\ Before(b + 1) >= 1
    <2>1. CASE b = 0
      BY <2>1, BeforeFirst
    <2>2. CASE b # 0
      <3>1. b \in 1 .. Len(File)
        BY <1>1, <2>2
      <3>2. Before(b) \in Nat /\ Before(b + 1) \in Nat /\ Before(b) >= 1 /\ Before(b) + 2 <= Before(b + 1)
        BY <3>1, BeforeNext
      <3> QED BY <3>2
    <2> QED BY <2>1, <2>2
  <1>4. CASE b < l
    <2>1. Before(b + 1) + 2 <= Before(l + 1)
      BY <1>1, <1>4, BeforeGrows
    <2>2. Before(l + 1) \in Int
      BY <1>1, FileSizeType
    <2> QED BY <1>1, <1>2, <1>3, <1>4, <2>1, <2>2
  <1>5. CASE b = l
    BY <1>1, <1>2, <1>3, <1>5
  <1> QED BY <1>1, <1>4, <1>5

-----------------------------------------------------------------------------
(* The Block decoder.                                                      *)
LEMMA Quotient ==
  ASSUME NEW a \in Nat, NEW b \in Nat \ {0}
  PROVE  a \div b \in Nat /\ b * (a \div b) <= a /\ a < b * ((a \div b) + 1)
  OBVIOUS

LEMMA QuotientOf ==
  ASSUME NEW a \in Nat, NEW b \in Nat \ {0}, NEW q \in Nat, b * q <= a, a < b * (q + 1)
  PROVE  a \div b = q
  OBVIOUS

LEMMA ProductGrows ==
  ASSUME NEW a \in Nat, NEW i \in Nat, NEW j \in Nat, i <= j
  PROVE  a * i \in Nat /\ a * i <= a * j
  OBVIOUS

LEMMA ProductLess ==
  ASSUME NEW b \in Nat \ {0}, NEW p \in Nat, NEW q \in Nat, b * p < b * (q + 1)
  PROVE  p <= q
  OBVIOUS

LEMMA DecodedGrows ==
  ASSUME NEW r, r.in \in Nat \ {0}, r.out \in Nat, NEW i \in Nat, NEW j \in Nat, i <= j
  PROVE  Decoded(r, i) \in Nat /\ Decoded(r, i) <= Decoded(r, j)
  <1>1. PICK a \in Nat, b \in Nat \ {0} : a = r.out /\ b = r.in
    OBVIOUS
  <1>2. PICK p \in Nat, q \in Nat : p = a * i /\ q = a * j /\ p <= q
    BY ProductGrows
  <1>3. PICK x \in Nat : x = p \div b /\ b * x <= p
    BY Quotient
  <1>4. PICK y \in Nat : y = q \div b /\ q < b * (y + 1)
    BY Quotient
  <1>5. x <= y
    <2>1. b * x \in Nat /\ b * (y + 1) \in Nat
      OBVIOUS
    <2>2. b * x < b * (y + 1)
      BY <1>2, <1>3, <1>4, <2>1
    <2> QED BY <2>2, ProductLess
  <1>6. Decoded(r, i) = x /\ Decoded(r, j) = y
    BY <1>1, <1>2, <1>3, <1>4 DEF Decoded
  <1> QED BY <1>5, <1>6

LEMMA DecodedAll ==
  ASSUME NEW r, r.in \in Nat \ {0}, r.out \in Nat
  PROVE  Decoded(r, r.in) = r.out /\ Decoded(r, 0) = 0
  <1>1. PICK a \in Nat, b \in Nat \ {0} : a = r.out /\ b = r.in
    OBVIOUS
  <1>2. PICK p \in Nat : p = a * b
    OBVIOUS
  <1>3. p \div b = a
    <2>1. b * a <= p /\ p < b * (a + 1)
      BY <1>2
    <2> QED BY <2>1, QuotientOf
  <1>4. 0 \div b = 0
    OBVIOUS
  <1>5. a * 0 = 0
    OBVIOUS
  <1> QED BY <1>1, <1>2, <1>3, <1>4, <1>5 DEF Decoded

LEMMA DecodedFits ==
  ASSUME NEW r, r.in \in Nat \ {0}, r.out \in Nat, NEW i \in 0 .. r.in
  PROVE  Decoded(r, i) \in 0 .. r.out
  <1>1. i \in Nat /\ r.in \in Nat /\ i <= r.in
    OBVIOUS
  <1>2. Decoded(r, i) \in Nat /\ Decoded(r, i) <= Decoded(r, r.in)
    BY <1>1, DecodedGrows
  <1> QED BY <1>2, DecodedAll

(* The Block decoder takes what it is given, as far as the Block goes and  *)
(* the output has room.                                                    *)
LEMMA CodedShape ==
  ASSUME NEW r, r.in \in Nat \ {0}, NEW d, NEW a \in Nat, NEW s, d.in \in 0 .. r.in,
         NEW c \in Coded(r, d, a, s)
  PROVE  /\ c.d = [in |-> c.d.in, out |-> c.d.out]
         /\ c.d.in \in d.in .. r.in /\ c.d.in <= d.in + a
         /\ c.d.out = SmallerOf(Decoded(r, c.d.in), d.out + s)
         /\ c.ret \in {"OK", "STREAM_END", "DATA_ERROR"}
         /\ c.ret = "STREAM_END" => c.d = [in |-> r.in, out |-> r.out] /\ r.flaw # "data"
         /\ c.ret = "DATA_ERROR" => r.flaw = "data"
  <1> DEFINE most  == SmallerOf(r.in, d.in + a)
             over  == {j \in d.in .. most : Decoded(r, j) > d.out + s}
             i     == IF over = {} THEN most ELSE CHOOSE j \in over : \A k \in over : j <= k
             o     == SmallerOf(Decoded(r, i), d.out + s)
             e     == [in |-> i, out |-> o]
             whole == e = [in |-> r.in, out |-> r.out]
             rets  == CASE r.flaw # "data"       -> {IF whole THEN "STREAM_END" ELSE "OK"}
                        [] r.flaw = "data" /\ whole -> {"DATA_ERROR"}
                        [] OTHER                 -> IF i = 0 THEN {"OK"} ELSE {"OK", "DATA_ERROR"}
  <1>1. Coded(r, d, a, s) = {[d |-> e, ret |-> x] : x \in rets}
    BY DEF Coded
  <1> HIDE DEF most, over, i, o, e, whole, rets
  <1>2. most = SmallerOf(r.in, d.in + a) /\ over = {j \in d.in .. most : Decoded(r, j) > d.out + s}
    BY DEF most, over
  <1>3. most \in Int /\ d.in <= most /\ most <= r.in /\ most <= d.in + a
    BY <1>2 DEF SmallerOf
  <1>4. i = IF over = {} THEN most ELSE CHOOSE j \in over : \A k \in over : j <= k
    BY DEF i
  <1>5. i \in d.in .. most
    <2>1. CASE over = {}
      BY <1>3, <1>4, <2>1
    <2>2. CASE over # {}
      <3>1. over \subseteq Nat
        BY <1>2, <1>3
      <3>2. \E j \in over : \A k \in over : j <= k
        BY <2>2, <3>1, LeastNumber
      <3>3. i \in over
        BY <1>4, <2>2, <3>2
      <3> QED BY <1>2, <3>3
    <2> QED BY <2>1, <2>2
  <1>6. o = SmallerOf(Decoded(r, i), d.out + s)
    BY DEF o
  <1>7. e = [in |-> i, out |-> o]
    BY DEF e
  <1>8. rets = CASE r.flaw # "data" -> {IF e = [in |-> r.in, out |-> r.out] THEN "STREAM_END" ELSE "OK"}
                 [] r.flaw = "data" /\ e = [in |-> r.in, out |-> r.out] -> {"DATA_ERROR"}
                 [] OTHER -> IF i = 0 THEN {"OK"} ELSE {"OK", "DATA_ERROR"}
    BY DEF rets, whole
  <1>9. PICK x \in rets : c = [d |-> e, ret |-> x]
    BY <1>1
  <1>10. /\ x \in {"OK", "STREAM_END", "DATA_ERROR"}
         /\ x = "STREAM_END" => e = [in |-> r.in, out |-> r.out] /\ r.flaw # "data"
         /\ x = "DATA_ERROR" => r.flaw = "data"
    <2>1. CASE r.flaw # "data"
      BY <1>8, <1>9, <2>1
    <2>2. CASE r.flaw = "data" /\ e = [in |-> r.in, out |-> r.out]
      <3>1. rets = {"DATA_ERROR"}
        BY <1>8, <2>2
      <3> QED BY <1>9, <2>2, <3>1
    <2>3. CASE r.flaw = "data" /\ e # [in |-> r.in, out |-> r.out]
      <3>1. rets \subseteq {"OK", "DATA_ERROR"}
        BY <1>8, <2>3
      <3> QED BY <1>9, <2>3, <3>1
    <2> QED BY <2>1, <2>2, <2>3
  <1> QED BY <1>3, <1>5, <1>6, <1>7, <1>9, <1>10

LEMMA CodedFits ==
  ASSUME NEW r, r.in \in Nat \ {0}, r.out \in Nat, NEW d, NEW a \in Nat, NEW s, s \in Nat, d.in \in 0 .. r.in,
         d.out \in 0 .. Decoded(r, d.in), NEW c \in Coded(r, d, a, s)
  PROVE  /\ c.d.in \in d.in .. r.in /\ c.d.in <= d.in + a
         /\ c.d.out \in Nat /\ d.out <= c.d.out /\ c.d.out <= Decoded(r, c.d.in) /\ c.d.out <= d.out + s
         /\ Decoded(r, c.d.in) \in 0 .. r.out /\ c.d.out <= r.out
         /\ c.ret \in {"OK", "STREAM_END", "DATA_ERROR"}
         /\ c.ret = "STREAM_END" => c.d.in = r.in /\ c.d.out = r.out /\ r.flaw # "data"
         /\ c.ret = "DATA_ERROR" => r.flaw = "data"
  <1>1. /\ c.d = [in |-> c.d.in, out |-> c.d.out]
        /\ c.d.in \in d.in .. r.in /\ c.d.in <= d.in + a
        /\ c.d.out = SmallerOf(Decoded(r, c.d.in), d.out + s)
        /\ c.ret \in {"OK", "STREAM_END", "DATA_ERROR"}
        /\ c.ret = "STREAM_END" => c.d = [in |-> r.in, out |-> r.out] /\ r.flaw # "data"
        /\ c.ret = "DATA_ERROR" => r.flaw = "data"
    BY CodedShape
  <1>2. d.in \in Nat /\ c.d.in \in Nat /\ d.in <= c.d.in /\ c.d.in \in 0 .. r.in
    BY <1>1
  <1>3. Decoded(r, d.in) \in Nat /\ Decoded(r, d.in) <= Decoded(r, c.d.in)
    BY <1>2, DecodedGrows
  <1>4. Decoded(r, c.d.in) \in 0 .. r.out
    BY <1>2, DecodedFits
  <1>5. PICK o \in Nat : o = d.out /\ o <= Decoded(r, d.in)
    BY <1>3
  <1>6. c.d.out \in Nat /\ o <= c.d.out /\ c.d.out <= Decoded(r, c.d.in) /\ c.d.out <= o + s /\ c.d.out <= r.out
    BY <1>1, <1>3, <1>4, <1>5 DEF SmallerOf
  <1>7. c.ret = "STREAM_END" => c.d.in = r.in /\ c.d.out = r.out /\ r.flaw # "data"
    BY <1>1
  <1> QED BY <1>1, <1>4, <1>5, <1>6, <1>7

-----------------------------------------------------------------------------
(* What is promised of a file.                                             *)
Clean(n) == \A b \in 1 .. n : File[b].flaw = "none"

LEMMA FirstFlawIs ==
  ASSUME setup \in Setups, Promise!Flaws # {}
  PROVE  /\ Promise!FirstFlaw \in 1 .. Len(File) /\ File[Promise!FirstFlaw].flaw # "none"
         /\ Clean(Promise!FirstFlaw - 1)
  <1>1. File \in Seq(BlockRecord) /\ Len(File) \in Nat
    BY FileType
  <1>2. PICK F : F = Promise!Flaws
    OBVIOUS
  <1>3. F = {b \in 1 .. Len(File) : File[b].flaw # "none"}
    BY <1>1, <1>2 DEF Promise!Flaws
  <1>4. F \subseteq Nat /\ F # {}
    BY <1>1, <1>2, <1>3
  <1>5. \E b \in F : \A c \in F : b <= c
    BY <1>4, LeastNumber
  <1>6. PICK f : f = Promise!FirstFlaw
    OBVIOUS
  <1>7. f = CHOOSE b \in F : \A c \in F : b <= c
    BY <1>2, <1>6 DEF Promise!FirstFlaw
  <1>8. f \in F /\ \A c \in F : f <= c
    BY <1>5, <1>7
  <1>9. f \in 1 .. Len(File) /\ File[f].flaw # "none"
    BY <1>3, <1>8
  <1>10. ASSUME NEW b \in 1 .. f - 1 PROVE File[b].flaw = "none"
    <2>1. b \in 1 .. Len(File) /\ ~(f <= b)
      BY <1>1, <1>9
    <2> QED BY <1>3, <1>8, <2>1
  <1> QED BY <1>6, <1>9, <1>10 DEF Clean

LEMMA NoFlaw ==
  ASSUME setup \in Setups, Clean(Len(File))
  PROVE  Promise!Flaws = {} /\ Promise!Sound = Len(File) /\ Promise!Decodable = Len(File)
  <1>1. File \in Seq(BlockRecord)
    BY FileType
  <1>2. Promise!Flaws = {}
    BY <1>1 DEF Promise!Flaws, Clean
  <1> QED BY <1>2 DEF Promise!Sound, Promise!Decodable

LEMMA Flawed ==
  ASSUME setup \in Setups, NEW b \in 1 .. Len(File), File[b].flaw # "none", Clean(b - 1)
  PROVE  /\ Promise!Flaws # {} /\ Promise!Decodable = b
         /\ Promise!Sound = IF Promise!BehindData(File[b].flaw) THEN b ELSE b - 1
  <1>1. File \in Seq(BlockRecord) /\ Len(File) \in Nat
    BY FileType
  <1>2. b \in Promise!Flaws
    BY <1>1 DEF Promise!Flaws
  <1>3. PICK f : f = Promise!FirstFlaw
    OBVIOUS
  <1>4. f \in 1 .. Len(File) /\ File[f].flaw # "none" /\ Clean(f - 1)
    BY <1>2, <1>3, FirstFlawIs
  <1>5. ~(f < b) /\ ~(b < f)
    BY <1>1, <1>4 DEF Clean
  <1>6. f = b
    BY <1>1, <1>4, <1>5
  <1> QED BY <1>2, <1>3, <1>6 DEF Promise!Sound, Promise!Decodable

LEMMA DecodableType ==
  ASSUME setup \in Setups
  PROVE  /\ Promise!Decodable \in 0 .. Len(File)
         /\ \A n \in 0 .. Len(File) : Clean(n - 1) => n <= Promise!Decodable
         /\ \A n \in 0 .. Len(File) : (Clean(n) /\ n < Len(File)) => n < Promise!Decodable
  <1>1. Len(File) \in Nat
    BY FileType
  <1>2. CASE Promise!Flaws = {}
    <2>1. Promise!Decodable = Len(File)
      BY <1>2 DEF Promise!Decodable
    <2> QED BY <1>1, <2>1
  <1>3. CASE Promise!Flaws # {}
    <2>1. PICK f \in 1 .. Len(File) : f = Promise!FirstFlaw /\ File[f].flaw # "none"
      BY <1>3, FirstFlawIs
    <2>2. Promise!Decodable = f
      BY <1>3, <2>1 DEF Promise!Decodable
    <2>3. ASSUME NEW n \in 0 .. Len(File), Clean(n - 1) PROVE n <= f
      BY <1>1, <2>1, <2>3 DEF Clean
    <2>4. ASSUME NEW n \in 0 .. Len(File), Clean(n) PROVE n < f
      BY <1>1, <2>1, <2>4 DEF Clean
    <2> QED BY <1>1, <2>1, <2>2, <2>3, <2>4
  <1> QED BY <1>2, <1>3

(* n Blocks, and k units of the next one: as far as it may come.           *)
Reachable(n, k) ==
  /\ n \in 0 .. Len(File) /\ k \in Nat /\ Clean(n - 1)
  /\ k # 0 => n < Len(File) /\ Clean(n) /\ k <= File[n + 1].out

LEMMA ReachableBegins ==
  ASSUME setup \in Setups, NEW n, NEW k, Reachable(n, k)
  PROVE  Begins(Stretch(n, k), Promise!Data(Promise!Decodable))
  <1>1. PICK d \in Nat : d = Promise!Decodable /\ d <= Len(File) /\ d \in 0 .. Len(File)
    BY DecodableType, FileType
  <1>2. n \in 0 .. Len(File) /\ n \in Nat /\ k \in Nat /\ n <= d
    BY <1>1, DecodableType, FileType DEF Reachable
  <1>3. k = 0 \/ (n < d /\ k <= File[n + 1].out)
    BY <1>1, <1>2, DecodableType DEF Reachable
  <1>4. Begins(Stretch(n, k), Promise!Data(d))
    BY <1>1, <1>2, <1>3, StretchBegins
  <1> QED BY <1>1, <1>4

LEMMA Delivering ==
  ASSUME setup \in Setups, NEW n, NEW k, Reachable(n, k), output' = Stretch(n, k),
         Len(output) \in Nat, Len(output) <= Len(output')
  PROVE  Promise!Delivers
  <1>1. n \in 0 .. Len(File) /\ k \in Nat
    BY DEF Reachable
  <1>2. PICK s \in Seq(Unit) : s = Stretch(n, k)
    BY <1>1, StretchType
  <1>3. PICK d \in Seq(Unit) : d = Promise!Data(Promise!Decodable)
    BY DecodableType, DataType
  <1>4. Len(s) <= Len(d) /\ \A i \in 1 .. Len(s) : s[i] = d[i]
    <2>1. Begins(s, d)
      BY <1>2, <1>3, ReachableBegins
    <2> QED BY <2>1 DEF Begins
  <1>5. PICK m \in Nat : m = Len(s)
    OBVIOUS
  <1>6. PICK u : u = SubSeq(d, 1, m)
    OBVIOUS
  <1>7. u \in Seq(Unit) /\ Len(u) = m /\ \A i \in 1 .. m : u[i] = d[i]
    BY <1>4, <1>5, <1>6
  <1>8. s = u
    <2>1. Len(s) = Len(u) /\ \A i \in 1 .. Len(s) : s[i] = u[i]
      BY <1>4, <1>5, <1>7
    <2> QED BY ONLY <1>7, <2>1, SeqEqual
  <1>9. m \in Len(output) .. Len(d)
    BY <1>2, <1>4, <1>5
  <1> QED BY <1>2, <1>3, <1>6, <1>8, <1>9 DEF Promise!Delivers

(* All that is sound has been delivered when that many Blocks have.        *)
LEMMA DataLonger ==
  ASSUME setup \in Setups, NEW n \in 0 .. Len(File), NEW m \in 0 .. Len(File), n <= m, NEW k \in Nat
  PROVE  /\ Len(Promise!Data(n)) \in Nat /\ Len(Stretch(m, k)) \in Nat
         /\ Len(Promise!Data(n)) <= Len(Stretch(m, k))
  <1>1. PICK d \in Seq(Unit) : d = Promise!Data(n)
    BY DataType
  <1>2. PICK e \in Seq(Unit) : e = Promise!Data(m)
    BY DataType
  <1>3. n \in Nat /\ m \in Nat /\ m <= Len(File)
    BY FileType
  <1>4. Len(d) <= Len(e)
    BY <1>1, <1>2, <1>3, DataBegins DEF Begins
  <1>5. Len(Stretch(m, k)) = Len(e) + k
    BY <1>2, StretchType
  <1> QED BY <1>1, <1>4, <1>5

-----------------------------------------------------------------------------
(* A step keeps the invariant, and is one that is promised or none.        *)
Faithful == DataInv' /\ [Promise!Next]_(Promise!vars)

(* While decoding goes on, Blocks that left the queue and part of the next *)
(* one were delivered, as far as decoding may come.                        *)
LEMMA DeliveredClean ==
  ASSUME InputFits, Parsed, NEW n \in Nat, Handed(n), Delivered(n), NEW d, d = n - Len(outq.active)
  PROVE  /\ d \in Nat /\ d <= n /\ n <= block /\ block \in Nat /\ block <= Len(File) /\ block <= n + 1
         /\ d \in 0 .. Len(File) /\ Clean(d - 1) /\ (d < block => Clean(d))
         /\ (d >= block - 1 => Clean(block - 1))
         /\ output = Stretch(d, Position)
         /\ \A i \in DOMAIN outq.active : outq.active[i].job = d + i
  <1>1. Len(File) \in Nat /\ block \in Nat /\ block <= Len(File)
    BY FileType DEF InputFits
  <1>2. /\ d \in Nat /\ output = Stretch(d, Position)
        /\ \A i \in DOMAIN outq.active : outq.active[i].job = d + i
        /\ \A b \in 1 .. d : File[b].flaw # "data"
    BY DEF Delivered
  <1>3. n <= block /\ block <= n + 1
    BY <1>1 DEF Handed
  <1>4. d <= n
    <2>1. Len(outq.active) \in Nat
      BY <1>2, <1>3 DEF Delivered
    <2> QED BY <2>1
  <1>5. \A b \in 1 .. block - 1 : File[b].flaw \in {"none", "data"}
    BY DEF Parsed, BeforeRecord
  <1>6. \A b \in 1 .. d : b < block => File[b].flaw = "none"
    BY <1>1, <1>2, <1>5
  <1>7. Clean(d - 1) /\ (d < block => Clean(d)) /\ (d >= block - 1 => Clean(block - 1))
    BY <1>1, <1>2, <1>3, <1>4, <1>6 DEF Clean
  <1> QED BY <1>1, <1>2, <1>3, <1>4, <1>7

(* What a record of the queue's buffers looks like.                        *)
LEMMA BufferKnown ==
  ASSUME IInv, Handing, NEW i \in DOMAIN outq.active
  PROVE  /\ outq.active[i] \in Buffer /\ outq.active[i].job \in 1 .. Len(File)
         /\ File[outq.active[i].job].out \in Nat /\ outq.active[i].job <= block
  <1>1. outq.active[i] \in Buffer
    BY DEF IInv, Types, IsQueue
  <1>2. PICK j \in Nat : j = outq.active[i].job
    BY <1>1 DEF Buffer
  <1>3. j <= block
    BY <1>2 DEF IInv, QueueInv, QueueOrdered
  <1>4. 1 <= j
    <2>1. PICK n \in Nat : Delivered(n)
      BY DEF Handing
    <2>2. PICK d \in Nat : outq.active[i].job = d + i
      BY <2>1 DEF Delivered
    <2>3. i \in Nat \ {0}
      BY DEF IInv, Types, IsQueue
    <2> QED BY <1>2, <2>2, <2>3
  <1>5. j \in 1 .. Len(File)
    <2>1. Len(File) \in Nat /\ block \in Nat /\ block <= Len(File)
      BY FileType DEF IInv, InputFits
    <2> QED BY <1>3, <1>4, <2>1
  <1>6. File[j].out \in Nat
    BY <1>5, FileType DEF IInv, InputFits
  <1> QED BY <1>1, <1>2, <1>3, <1>5, <1>6

LEMMA Covered ==
  ASSUME IInv, InputInv, OutputInv, NEW n \in Nat, Handed(n), Delivered(n), NEW d, d = n - Len(outq.active)
  PROVE  Reachable(d, Position) /\ output = Stretch(d, Position) /\ Len(output) \in Nat
  <1>1. InputFits /\ setup \in Setups /\ Parsed
    BY DEF IInv, InputFits, InputInv
  <1>2. /\ d \in Nat /\ d <= n /\ n <= block /\ block \in Nat /\ block <= Len(File) /\ block <= n + 1
        /\ d \in 0 .. Len(File) /\ Clean(d - 1) /\ (d < block => Clean(d))
        /\ output = Stretch(d, Position)
        /\ \A i \in DOMAIN outq.active : outq.active[i].job = d + i
    BY <1>1, DeliveredClean
  <1>3. Position \in Nat /\ (Position # 0 => d < block /\ Position <= File[d + 1].out)
    <2>1. CASE sequence = "BLOCK_DIRECT_RUN"
      <3>1. outq.active = <<>> /\ direct.out \in 0 .. Decoded(File[block], direct.in)
        BY <2>1 DEF OutputInv, Drained
      <3>2. Len(outq.active) = 0
        BY <3>1
      <3>3. block # 0 /\ direct.in \in 0 .. File[block].in /\ block \in 1 .. Len(File)
        BY <1>1, <1>2, <2>1 DEF InputFits, AtBlock
      <3>4. File[block].in \in Nat \ {0} /\ File[block].out \in Nat
        BY <1>1, <3>3, FileType
      <3>5. Decoded(File[block], direct.in) \in 0 .. File[block].out
        BY <3>3, <3>4, DecodedFits
      <3>6. Position = direct.out /\ n = block - 1
        BY <2>1 DEF Position, Handed
      <3>7. d + 1 = block
        BY <1>2, <3>2, <3>6
      <3> QED BY <1>2, <3>1, <3>4, <3>5, <3>6, <3>7
    <2>2. CASE sequence # "BLOCK_DIRECT_RUN" /\ outq.active = <<>>
      BY <2>2 DEF OutputInv, BuffersFit, Position
    <2>3. CASE sequence # "BLOCK_DIRECT_RUN" /\ outq.active # <<>>
      <3>1. 1 \in DOMAIN outq.active
        BY <2>3 DEF IInv, Types, IsQueue
      <3>2. PICK b : b = outq.active[1]
        OBVIOUS
      <3>3. b.job = d + 1 /\ BufferFits(b) /\ outq.read_pos \in 0 .. b.pos /\ Position = outq.read_pos
        BY <1>2, <2>3, <3>1, <3>2 DEF OutputInv, BuffersFit, Position
      <3>4. b.job \in 1 .. Len(File) /\ b.job <= block /\ File[b.job].out \in Nat
        BY <3>1, <3>2, BufferKnown DEF OutputInv
      <3>5. b.pos \in 0 .. File[b.job].out
        BY <3>3 DEF BufferFits
      <3>6. d + 1 <= block /\ d < block
        BY <1>2, <3>3, <3>4
      <3>7. PICK o \in Nat : o = File[b.job].out
        BY <3>4
      <3>8. PICK p \in Nat : p = b.pos /\ p <= o
        BY <3>5, <3>7
      <3>9. PICK r \in Nat : r = outq.read_pos /\ r <= p
        BY <3>3, <3>8
      <3>10. r \in Nat /\ r <= o
        BY <3>7, <3>8, <3>9
      <3>11. Position \in Nat /\ Position <= File[d + 1].out
        BY <3>3, <3>7, <3>9, <3>10
      <3> QED BY <3>6, <3>11
    <2> QED BY <2>1, <2>2, <2>3
  <1>4. Reachable(d, Position)
    <2>1. Position # 0 => d < Len(File) /\ Clean(d) /\ Position <= File[d + 1].out
      <3>1. d < block => d < Len(File)
        BY <1>1, <1>2, FileType
      <3> QED BY <1>2, <1>3, <3>1
    <2>2. d \in 0 .. Len(File) /\ Position \in Nat /\ Clean(d - 1)
      BY <1>2, <1>3
    <2> QED BY <2>1, <2>2 DEF Reachable
  <1>5. Len(output) \in Nat
    <2>1. PICK s \in Seq(Unit) : s = Stretch(d, Position)
      BY <1>1, <1>2, <1>3, StretchType
    <2> QED BY <1>2, <2>1
  <1> QED BY <1>2, <1>4, <1>5

LEMMA DeliversNothing == ASSUME IInv, InputInv, OutputInv, output' = output PROVE Promise!Delivers
  <1>1. PICK n \in Nat : Handed(n) /\ Delivered(n)
    BY DEF OutputInv, Handing
  <1>2. PICK d : d = n - Len(outq.active)
    OBVIOUS
  <1>3. Reachable(d, Position) /\ output = Stretch(d, Position) /\ Len(output) \in Nat
    BY <1>1, <1>2, Covered
  <1>4. Len(output) <= Len(output')
    BY <1>3
  <1> QED BY <1>3, <1>4, Delivering DEF IInv, InputFits

(* The steps of the promise.                                               *)
LEMMA PromiseStutters ==
  ASSUME UNCHANGED <<setup, output, gave_up, pending>>, pending = "Error" => ret' = ret
  PROVE  [Promise!Next]_(Promise!vars)
  BY DEF Promise!vars, File

LEMMA PromiseSteps ==
  ASSUME setup' = setup, pending \in {"RUN", "FINISH"}, gave_up => gave_up', Promise!Delivers, Promise!Ends
  PROVE  [Promise!Next]_(Promise!vars)
  BY DEF Promise!Next, File

LEMMA PromiseOpen ==
  ASSUME setup' = setup, pending \in {"RUN", "FINISH"}, gave_up => gave_up', Promise!Delivers,
         pending' \in {"RUN", "FINISH"}
  PROVE  [Promise!Next]_(Promise!vars)
  <1>1. Promise!Ends
    BY DEF Promise!Ends
  <1> QED BY <1>1, PromiseSteps

(* When may an error be reported?                                          *)
LEMMA FlawFast ==
  ASSUME setup \in Setups, setup.fail_fast, NEW b \in 1 .. Len(File), File[b].flaw # "none"
  PROVE  Promise!FlawShows
  <1>1. File \in Seq(BlockRecord)
    BY FileType
  <1>2. Promise!Flaws # {}
    BY <1>1 DEF Promise!Flaws
  <1> QED BY <1>2 DEF Promise!FlawShows

LEMMA FlawReached ==
  ASSUME setup \in Setups, NEW b \in 1 .. Len(File), File[b].flaw # "none", Clean(b - 1),
         NEW n \in 0 .. Len(File), NEW k \in Nat, output' = Stretch(n, k),
         n = b \/ (n = b - 1 /\ ~Promise!BehindData(File[b].flaw))
  PROVE  Promise!FlawShows
  <1>1. /\ Promise!Flaws # {}
        /\ Promise!Sound = IF Promise!BehindData(File[b].flaw) THEN b ELSE b - 1
    BY Flawed
  <1>2. PICK s \in 0 .. Len(File) : s = Promise!Sound
    BY <1>1, FileType
  <1>3. s <= n
    BY <1>1, <1>2, FileType
  <1>4. Len(Promise!Data(s)) <= Len(Stretch(n, k))
    BY <1>3, DataLonger
  <1>5. Len(output') >= Len(Promise!Data(Promise!Sound))
    <2>1. Len(Promise!Data(s)) \in Nat /\ Len(Stretch(n, k)) \in Nat
      BY <1>3, DataLonger
    <2> QED BY <1>2, <1>4, <2>1
  <1> QED BY <1>1, <1>5 DEF Promise!FlawShows

-----------------------------------------------------------------------------
(* What a step that neither decodes nor delivers leaves as it is.          *)
Alike(b, c) == b.job = c.job /\ b.pos = c.pos /\ b.finished = c.finished /\ b.ret = c.ret
SameOut ==
  /\ outq'.active \in Seq(Buffer) /\ Len(outq'.active) = Len(outq.active)
  /\ \A i \in DOMAIN outq.active : Alike(outq'.active[i], outq.active[i])
  /\ outq'.read_pos = outq.read_pos

SameWorkers == wl' = wl /\ \A w \in Worker : ws'[w].job = ws[w].job /\ (AtWork(w)' <=> AtWork(w))

LEMMA SameDomain ==
  ASSUME IInv, SameOut
  PROVE  /\ outq.active \in Seq(Buffer) /\ DOMAIN outq'.active = DOMAIN outq.active
         /\ (outq'.active = <<>> <=> outq.active = <<>>)
  BY DEF IInv, Types, IsQueue, SameOut

LEMMA QueueUntouched == ASSUME IInv, outq' = outq PROVE SameOut
  BY DEF IInv, Types, IsQueue, SameOut, Alike

LEMMA WorkStays ==
  ASSUME IInv, WorkInv, setup' = setup, SameOut, SameWorkers
  PROVE  WorkInv'
  <1>1. ASSUME NEW w \in Worker PROVE WorkFits(w)'
    <2>1. /\ WorkFits(w) /\ ws'[w].job = ws[w].job /\ wl' = wl /\ (AtWork(w)' <=> AtWork(w))
          /\ File' = File
      BY DEF WorkInv, SameWorkers, File
    <2>2. AtWork(w) => \E i \in DOMAIN outq'.active : Fills(w, outq.active[i])'
      <3> SUFFICES ASSUME AtWork(w) PROVE \E i \in DOMAIN outq'.active : Fills(w, outq.active[i])'
        OBVIOUS
      <3>1. PICK i \in DOMAIN outq.active : Fills(w, outq.active[i])
        BY <2>1 DEF WorkFits
      <3>2. PICK b : b = outq.active[i]
        OBVIOUS
      <3>3. PICK c : c = outq'.active[i]
        OBVIOUS
      <3>4. Alike(c, b) /\ i \in DOMAIN outq'.active
        BY <3>1, <3>2, <3>3, SameDomain DEF SameOut
      <3>5. ws'[w].job = b.job /\ ~c.finished /\ c.pos <= wl'[w].d.out /\ c.job = ws'[w].job
        BY <2>1, <3>1, <3>2, <3>4 DEF Fills, Alike
      <3> QED BY <3>3, <3>4, <3>5 DEF Fills
    <2> QED BY <2>1, <2>2 DEF WorkFits, Decoded
  <1>2. Alone'
    BY DEF WorkInv, Alone, SameWorkers
  <1> QED BY <1>1, <1>2 DEF WorkInv

LEMMA OutputStays ==
  ASSUME IInv, OutputInv, UNCHANGED <<setup, output>>, SameOut, Position' = Position,
         \A n \in Nat : Handed(n) => Handed(n)', Drained'
  PROVE  OutputInv'
  <1>1. /\ outq.active \in Seq(Buffer) /\ DOMAIN outq'.active = DOMAIN outq.active
        /\ (outq'.active = <<>> <=> outq.active = <<>>) /\ Len(outq'.active) = Len(outq.active)
        /\ File' = File
    BY SameDomain DEF SameOut, File
  <1>2. PICK n \in Nat : Handed(n) /\ Delivered(n)
    BY DEF OutputInv, Handing
  <1>3. Delivered(n)'
    <2>1. \A i \in DOMAIN outq.active : outq'.active[i].job = outq.active[i].job
      BY DEF SameOut, Alike
    <2>2. \A d, k : Stretch(d, k)' = Stretch(d, k)
      BY <1>1 DEF Stretch, Promise!Data
    <2> QED BY <1>1, <1>2, <2>1, <2>2 DEF Delivered
  <1>4. BuffersFit'
    <2>1. ASSUME NEW i \in DOMAIN outq.active PROVE BufferFits(outq.active[i])'
      <3>1. PICK b : b = outq.active[i]
        OBVIOUS
      <3>2. PICK c : c = outq'.active[i]
        OBVIOUS
      <3>3. BufferFits(b) /\ Alike(c, b)
        BY <3>1, <3>2 DEF OutputInv, BuffersFit, SameOut
      <3>4. BufferFits(c)'
        BY <1>1, <3>3 DEF BufferFits, Alike
      <3> QED BY <3>2, <3>4
    <2>2. outq'.read_pos \in 0 .. (IF outq'.active = <<>> THEN 0 ELSE outq'.active[1].pos)
      <3>1. outq.active # <<>> => 1 \in DOMAIN outq.active
        BY <1>1
      <3>2. outq.active # <<>> => outq'.active[1].pos = outq.active[1].pos
        BY <3>1 DEF SameOut, Alike
      <3> QED BY <1>1, <3>2 DEF OutputInv, BuffersFit, SameOut
    <2> QED BY <1>1, <2>1, <2>2 DEF BuffersFit
  <1>5. Handing'
    BY <1>2, <1>3 DEF Handing
  <1> QED BY <1>4, <1>5 DEF OutputInv

LEMMA FaultsStay ==
  ASSUME IInv, Faults, UNCHANGED <<setup, thread_error, pending_error>>, SameOut,
         pending_error = "DATA_ERROR" => UNCHANGED <<sequence, block>>
  PROVE  Faults'
  <1>1. DOMAIN outq'.active = DOMAIN outq.active /\ File' = File
    BY SameDomain DEF File
  <1>2. ASSUME NEW i \in DOMAIN outq.active, FailedBuffer(outq.active[i]) PROVE FailedBuffer(outq.active[i])'
    <2>1. Alike(outq'.active[i], outq.active[i])
      BY DEF SameOut
    <2> QED BY <1>2, <2>1 DEF Alike, FailedBuffer
  <1>3. (\E i \in DOMAIN outq.active : FailedBuffer(outq.active[i])) =>
           \E i \in DOMAIN outq'.active : FailedBuffer(outq.active[i])'
    BY <1>1, <1>2
  <1> QED BY <1>1, <1>3 DEF Faults

(* Nothing of it changes: it depends on where the application's thread is. *)
LEMMA SteadyData ==
  ASSUME IInv, DataInv, Live, UNCHANGED <<setup, output>>, gave_up => gave_up', SameOut, SameWorkers,
         pending \in {"RUN", "FINISH"}, pending' \in {"RUN", "FINISH"},
         CallFits', Placed', Parsed', Position' = Position, \A n \in Nat : Handed(n) => Handed(n)',
         Drained', Faults'
  PROVE  Faithful
  <1>1. InputInv /\ OutputInv /\ WorkInv
    BY DEF DataInv
  <1>2. OutputInv'
    BY <1>1, OutputStays
  <1>3. WorkInv'
    BY <1>1, WorkStays
  <1>4. DataInv'
    BY <1>2, <1>3 DEF DataInv, InputInv
  <1>5. Promise!Delivers
    BY <1>1, DeliversNothing
  <1> QED BY <1>4, <1>5, PromiseOpen DEF Faithful

LEMMA QuietData ==
  ASSUME IInv, DataInv, Live, UNCHANGED <<setup, output, outq, wl, ws>>, gave_up => gave_up',
         pending \in {"RUN", "FINISH"}, pending' \in {"RUN", "FINISH"}, pc # "start", pc' # "start",
         CallFits', Placed', Parsed', Position' = Position, \A n \in Nat : Handed(n) => Handed(n)',
         Drained', Faults'
  PROVE  Faithful
  <1>1. SameOut
    BY QueueUntouched
  <1>2. SameWorkers
    BY DEF SameWorkers, AtWork
  <1> QED BY <1>1, <1>2, SteadyData

(* A call that ends decoding, with nothing delivered by this step.         *)
LEMMA FailsData ==
  ASSUME IInv, DataInv, Live, UNCHANGED <<setup, output, gave_up>>, pending \in {"RUN", "FINISH"},
         space' \in Nat, pc' = "app", pending' \in {"End", "Error"}, Promise!Ends
  PROVE  Faithful
  <1>1. InputInv /\ OutputInv
    BY DEF DataInv
  <1>2. Promise!Delivers
    BY <1>1, DeliversNothing
  <1>3. DataInv'
    BY DEF DataInv, CallFits, Live
  <1> QED BY <1>2, <1>3, PromiseSteps DEF Faithful

-----------------------------------------------------------------------------
(* Steps of the application's thread outside of the mutex.                 *)
LEMMA LiveHere == ASSUME DataInv, pc \notin {"app", "join", "ended"} PROVE Live /\ pending \in {"RUN", "FINISH"}
  BY DEF DataInv, CallFits, Live

LEMMA ReturnsCall ==
  ASSUME NEW r, Return(r)
  PROVE  /\ pc' = "app" /\ action' = action
         /\ r \in {"OK", "TIMED_OUT", "GET_CHECK", "MEMLIMIT_ERROR"} => pending' = pending
         /\ r = "STREAM_END" => pending' = "End"
         /\ r \in {"DATA_ERROR", "MEM_ERROR"} => pending' = "Error" /\ ret' = r
  BY DEF Return, Returned

LEMMA GoesCall == ASSUME NEW p, GoTo(p) PROVE pc' = p /\ action' = action /\ pending' = pending
  BY DEF GoTo, call

LEMMA CallStays ==
  ASSUME IInv, DataInv, Live, setup' = setup, Flows, UNCHANGED <<pending, action, gave_up>>, space' \in Nat
  PROVE  CallFits'
  <1>1. FileSize' = FileSize
    BY DEF File, FileSize, Before
  <1>2. avail' + eaten' = avail + eaten
    BY DEF Flows
  <1>3. pending \in {"RUN", "FINISH"} /\ pending = action /\ (action = "FINISH" => gave_up \/ avail + eaten = FileSize)
    BY DEF DataInv, CallFits, Live
  <1> QED BY <1>1, <1>2, <1>3 DEF CallFits, Live

(* Nothing moves but the input and where the decoder is in the file.       *)
Moves ==
  /\ UNCHANGED <<setup, output, gave_up, outq, wl, ws, block, thread_error, pending, action, space>>
  /\ pc \notin {"app", "join", "ended", "start", "partial"} /\ pc' \notin {"start", "partial"}
  /\ Flows

LEMMA SequenceStep ==
  ASSUME IInv, DataInv, Moves, pending_error' = pending_error, sequence' = sequence \/ sequence # "ERROR",
         (sequence' = sequence /\ direct' = direct)
           \/ (sequence # "BLOCK_DIRECT_RUN" /\ sequence' # "BLOCK_DIRECT_RUN"),
         Placed', Parsed', \A n \in Nat : Handed(n) => Handed(n)', Drained'
  PROVE  Faithful
  <1>1. Live /\ pending \in {"RUN", "FINISH"}
    BY LiveHere DEF Moves
  <1>2. space' \in Nat
    BY DEF DataInv, CallFits, Moves
  <1>3. CallFits'
    BY <1>1, <1>2, CallStays DEF Moves
  <1>4. Faults'
    <2>1. SameOut
      BY QueueUntouched DEF Moves
    <2>2. Faults
      BY <1>1 DEF DataInv
    <2>3. pending_error = "DATA_ERROR" => UNCHANGED <<sequence, block>>
      BY <2>2 DEF Faults, Moves
    <2> QED BY <2>1, <2>2, <2>3, FaultsStay DEF Moves
  <1>5. Position' = Position
    BY DEF Position, Moves
  <1> QED BY <1>1, <1>3, <1>4, <1>5, QuietData DEF Moves

LEMMA SameFile ==
  ASSUME setup' = setup, block' = block
  PROVE  /\ File' = File /\ DataStart' = DataStart /\ DataEnd' = DataEnd /\ NextStart' = NextStart
         /\ FileSize' = FileSize /\ \A b : Before(b)' = Before(b)
  BY DEF File, DataStart, DataEnd, NextStart, Before, FileSize

(* Nothing but the application's thread moves.                            *)
Stands ==
  /\ UNCHANGED <<setup, output, outq, ws, block, eaten, sequence, direct, thr, thread_error, pending_error>>
  /\ pc \notin {"start", "partial"} /\ pc' \notin {"start", "partial"}

LEMMA StandsData ==
  ASSUME IInv, DataInv, Live, Stands
  PROVE  /\ Placed' /\ Parsed' /\ Drained' /\ Faults' /\ Position' = Position
         /\ \A n \in Nat : Handed(n) => Handed(n)'
  <1>1. Placed /\ Parsed /\ Drained /\ Faults
    BY DEF DataInv, InputInv, OutputInv
  <1>2. /\ File' = File /\ DataStart' = DataStart /\ DataEnd' = DataEnd /\ NextStart' = NextStart
    BY SameFile DEF Stands
  <1>3. Placed'
    BY <1>1, <1>2 DEF Placed, Stands
  <1>4. Parsed'
    BY <1>1, <1>2 DEF Parsed, BehindBlock, BeforeRecord, Stands
  <1>5. ASSUME NEW n \in Nat PROVE Handed(n) => Handed(n)'
    BY DEF Handed, Fresh, Stands, File
  <1>6. Drained'
    BY <1>1 DEF Drained, Stands, File, Decoded
  <1>7. Faults'
    BY <1>1, QueueUntouched, FaultsStay DEF Stands
  <1>8. Position' = Position
    BY DEF Position, Stands
  <1> QED BY <1>3, <1>4, <1>5, <1>6, <1>7, <1>8

LEMMA StandsStill ==
  ASSUME IInv, DataInv, Moves, UNCHANGED <<eaten, sequence, direct, thr, pending_error>>
  PROVE  Faithful
  <1>1. Live
    BY LiveHere DEF Moves
  <1>2. Stands
    BY DEF Stands, Moves
  <1> QED BY <1>1, <1>2, StandsData, SequenceStep

(* Where the input ends in the file.                                       *)
LEMMA Places ==
  ASSUME IInv
  PROVE  /\ block \in Nat /\ block <= Len(File) /\ Len(File) \in Nat /\ setup \in Setups
         /\ NextStart \in Nat /\ NextStart >= 1 /\ NextStart - 1 <= FileSize /\ FileSize \in Nat
         /\ block < Len(File) => NextStart < FileSize
         /\ block = Len(File) => NextStart - 1 = FileSize
         /\ eaten \in Nat /\ avail \in Nat /\ avail + eaten <= FileSize
  <1>1. InputFits /\ setup \in Setups
    BY DEF IInv, InputFits
  <1>2. block \in 0 .. Len(File) /\ Len(File) \in Nat
    BY <1>1, FileType DEF InputFits
  <1> QED BY <1>1, <1>2, FileGoesOn DEF NextStart, InputFits

LEMMA PlacesOf ==
  ASSUME IInv, block # 0
  PROVE  /\ block \in 1 .. Len(File) /\ DataStart \in Nat /\ DataEnd \in Nat /\ DataStart < DataEnd
         /\ File[block].in \in Nat \ {0} /\ DataEnd = DataStart + File[block].in
         /\ NextStart = DataEnd + Tail3(File[block])
         /\ (File[block].last => NextStart >= DataEnd + 3)
         /\ (~File[block].last => NextStart = DataEnd)
         /\ (File[block].last /\ File[block].flaw # "padding" => NextStart = DataEnd + 3)
         /\ (File[block].last /\ File[block].flaw = "padding" => NextStart = DataEnd + 5)
  <1>1. setup \in Setups /\ block \in 1 .. Len(File)
    BY Places
  <1>2. PICK i \in Nat \ {0}, t \in Nat : i = File[block].in /\ t = Tail3(File[block])
    BY <1>1, LengthType
  <1>3. PICK s \in Nat : s = Before(block)
    BY <1>1, BeforeStep
  <1>4. Before(block + 1) = s + 1 + i + t
    BY <1>1, <1>2, <1>3, BeforeStep
  <1>5. DataStart = s + 1 /\ DataEnd = s + 1 + i /\ NextStart = s + 1 + i + t
    BY <1>2, <1>3, <1>4 DEF DataStart, DataEnd, NextStart
  <1>6. File[block].last => t = (IF File[block].flaw = "padding" THEN 5 ELSE 3)
    BY <1>2 DEF Tail3
  <1>7. ~File[block].last => t = 0
    BY <1>2 DEF Tail3
  <1>8. DataStart \in Nat /\ DataEnd \in Nat /\ DataStart < DataEnd /\ DataEnd = DataStart + i /\ NextStart = DataEnd + t
    BY <1>5
  <1>9. /\ File[block].last => NextStart >= DataEnd + 3
        /\ ~File[block].last => NextStart = DataEnd
        /\ (File[block].last /\ File[block].flaw # "padding") => NextStart = DataEnd + 3
        /\ (File[block].last /\ File[block].flaw = "padding") => NextStart = DataEnd + 5
    <2>1. DataEnd \in Nat
      BY <1>8
    <2>2. CASE ~File[block].last
      BY <1>7, <1>8, <2>1, <2>2
    <2>3. CASE File[block].last /\ File[block].flaw # "padding"
      BY <1>6, <1>8, <2>1, <2>3
    <2>4. CASE File[block].last /\ File[block].flaw = "padding"
      BY <1>6, <1>8, <2>1, <2>4
    <2> QED BY <2>2, <2>3, <2>4
  <1>10. DataEnd = DataStart + File[block].in /\ NextStart = DataEnd + Tail3(File[block])
    BY <1>2, <1>8
  <1> QED BY <1>1, <1>2, <1>8, <1>9, <1>10

LEMMA WaitFirstData == ASSUME IInv, DataInv, WaitFirst PROVE Faithful
  <1>1. /\ pc = "code" /\ pc' = "read"
        /\ UNCHANGED <<setup, gave_up, outq, wl, ws, block, direct, thr, thread_error, pending_error, sequence>>
        /\ UNCHANGED flow /\ UNCHANGED <<action, pending>>
    BY DEF WaitFirst, EnterWait, GoTo, call, coder, kept, shared, hist
  <1>2. Moves
    BY <1>1, Stays DEF Moves, flow, IInv
  <1> QED BY <1>1, <1>2, StandsStill DEF flow

LEMMA TimeOutData == ASSUME IInv, DataInv, TimeOut PROVE Faithful
  <1>1. /\ pc = "sleep" /\ Return("TIMED_OUT")
        /\ UNCHANGED <<setup, gave_up, outq, wl, ws, block, direct, thr, thread_error, pending_error, sequence>>
        /\ UNCHANGED flow
    BY DEF TimeOut, coder, kept, shared, hist
  <1>2. pc' = "app" /\ UNCHANGED <<action, pending>>
    BY <1>1, ReturnsCall
  <1>3. Moves
    BY <1>1, <1>2, Stays DEF Moves, flow, IInv
  <1> QED BY <1>1, <1>3, StandsStill DEF flow

LEMMA PlanRoomData == ASSUME IInv, DataInv, PlanRoom PROVE Faithful
  <1>1. /\ pc = "plan" /\ pc' = "free"
        /\ UNCHANGED <<setup, gave_up, outq, wl, ws, block, direct, thr, thread_error, pending_error, sequence>>
        /\ UNCHANGED flow /\ UNCHANGED <<action, pending>>
    BY DEF PlanRoom, GoTo, call, coder, kept, shared, hist
  <1>2. Moves
    BY <1>1, Stays DEF Moves, flow, IInv
  <1> QED BY <1>1, <1>2, StandsStill DEF flow

LEMMA BlockInitData == ASSUME IInv, DataInv, BlockInit PROVE Faithful
  <1>1. /\ pc = "code" /\ sequence = "BLOCK_INIT" /\ pc' \in {"read", "code"}
        /\ UNCHANGED <<setup, gave_up, outq, wl, ws, block, thr, thread_error>>
        /\ UNCHANGED flow /\ UNCHANGED <<action, pending>>
    BY DEF BlockInit, EnterWait, GoTo, call, shared, hist
  <1>2. Moves
    BY <1>1, Stays DEF Moves, flow, IInv
  <1>3. CASE UNCHANGED <<sequence, pending_error, direct>>
    BY <1>1, <1>2, <1>3, StandsStill DEF flow
  <1>4. Placed /\ Parsed /\ Faults /\ CallFits /\ Live /\ DataStart' = DataStart /\ File' = File /\ block # 0
    BY <1>1, <1>2, LiveHere, SameFile DEF Moves, DataInv, InputInv, IInv, InputFits, AtBlock
  <1>5. CASE /\ sequence' = "BLOCK_DIRECT_INIT" \/ (sequence' = "BLOCK_THR_INIT" /\ File[block].flaw # "record")
             /\ UNCHANGED pending_error
    <2>1. Placed'
      BY <1>1, <1>4, <1>5 DEF Placed, flow
    <2>2. Parsed'
      BY <1>1, <1>4, <1>5 DEF Parsed, BehindBlock, BeforeRecord
    <2>3. ASSUME NEW n \in Nat PROVE Handed(n) => Handed(n)'
      BY <1>1, <1>5 DEF Handed, Fresh
    <2>4. Drained'
      BY <1>5 DEF Drained
    <2> QED BY <1>1, <1>2, <1>5, <2>1, <2>2, <2>3, <2>4, SequenceStep
  <1>6. CASE sequence' = "ERROR" /\ pending_error' = "DATA_ERROR" /\ File[block].flaw = "record"
    <2>1. Placed'
      BY <1>1, <1>6 DEF Placed
    <2>2. Parsed'
      BY <1>1, <1>4, <1>6 DEF Parsed, BehindBlock, BeforeRecord
    <2>3. ASSUME NEW n \in Nat PROVE Handed(n) => Handed(n)'
      BY <1>1, <1>4, <1>6 DEF Handed, Fresh
    <2>4. Drained' /\ Position' = Position
      BY <1>1, <1>6 DEF Drained, Position
    <2>5. Faults'
      <3>1. (\E i \in DOMAIN outq.active : FailedBuffer(outq.active[i]))
              => \E i \in DOMAIN outq'.active : FailedBuffer(outq.active[i])'
        BY <1>1 DEF FailedBuffer
      <3> QED BY <1>1, <1>4, <1>6, <3>1 DEF Faults
    <2>6. CallFits' /\ UNCHANGED output
      <3>1. UNCHANGED <<avail, eaten, space, output>>
        BY <1>1 DEF flow
      <3> QED BY <1>1, <1>2, <1>4, <3>1, CallStays DEF Moves, CallFits
    <2> QED BY <1>1, <1>2, <1>4, <2>1, <2>2, <2>3, <2>4, <2>5, <2>6, QuietData DEF Live
  <1>7. \/ UNCHANGED <<sequence, pending_error, direct>>
        \/ /\ sequence' = "BLOCK_DIRECT_INIT" \/ (sequence' = "BLOCK_THR_INIT" /\ File[block].flaw # "record")
           /\ UNCHANGED pending_error
        \/ sequence' = "ERROR" /\ pending_error' = "DATA_ERROR" /\ File[block].flaw = "record"
    BY DEF BlockInit
  <1> QED BY <1>3, <1>5, <1>6, <1>7

(* Everything that was handed over has come out.                           *)
LEMMA AllHanded ==
  ASSUME IInv, InputInv, OutputInv, outq.active = <<>>, ~Fresh, sequence \notin {"BLOCK_DIRECT_RUN", "ERROR"}
  PROVE  /\ block \in 0 .. Len(File) /\ output = Stretch(block, 0) /\ output = Promise!Data(block)
         /\ Clean(block - 1) /\ (block # 0 => File[block].flaw # "data")
  <1>1. PICK n \in Nat : Handed(n) /\ Delivered(n)
    BY DEF OutputInv, Handing
  <1>2. n = block /\ Len(outq.active) = 0
    BY <1>1 DEF Handed
  <1>3. PICK d : d = n - Len(outq.active)
    OBVIOUS
  <1>4. /\ d \in Nat /\ d \in 0 .. Len(File) /\ (d >= block - 1 => Clean(block - 1))
        /\ output = Stretch(d, Position)
    BY <1>1, <1>3, DeliveredClean DEF IInv, InputInv
  <1>5. d = block
    BY <1>2, <1>3, <1>4
  <1>6. Position = 0
    BY DEF Position, OutputInv, BuffersFit
  <1>7. block # 0 => File[block].flaw # "data"
    <2>1. \A b \in 1 .. d : File[b].flaw # "data"
      BY <1>1, <1>3 DEF Delivered
    <2> QED BY <1>4, <1>5, <2>1
  <1>8. output = Stretch(block, 0) /\ block \in 0 .. Len(File)
    BY <1>4, <1>5, <1>6
  <1>9. Stretch(block, 0) = Promise!Data(block)
    BY <1>8, StretchNone DEF IInv, InputFits
  <1> QED BY <1>4, <1>5, <1>7, <1>8, <1>9

(* The flaw of what is behind a Stream's data.                             *)
LEMMA FlawBehind ==
  ASSUME IInv, DataInv, Live, outq.active = <<>>, ~Fresh, sequence \notin {"BLOCK_DIRECT_RUN", "ERROR"},
         block # 0, File[block].flaw \in {"index", "footer", "padding"}, output' = output
  PROVE  Promise!FlawShows
  <1>1. InputInv /\ OutputInv /\ setup \in Setups
    BY DEF DataInv, IInv, InputFits
  <1>2. block \in 0 .. Len(File) /\ output = Stretch(block, 0) /\ Clean(block - 1)
    BY <1>1, AllHanded
  <1>3. block \in 1 .. Len(File) /\ Promise!BehindData(File[block].flaw)
    BY <1>2 DEF Promise!BehindData
  <1> QED BY <1>1, <1>2, <1>3, FlawReached

LEMMA EndsWithFlaw ==
  ASSUME Promise!FlawShows, pending' = "Error", ret' = "DATA_ERROR"
  PROVE  Promise!Ends
  BY DEF Promise!Ends

LEMMA IndexDecodeData == ASSUME IInv, DataInv, IndexDecode PROVE Faithful
  <1>1. /\ pc = "code" /\ sequence = "INDEX_DECODE"
        /\ UNCHANGED <<setup, gave_up, outq, wl, ws, block, direct, thr, thread_error, pending_error>>
    BY DEF IndexDecode, kept, shared, hist
  <1>2. avail \in Nat /\ InputFits
    BY DEF IInv, InputFits
  <1>3. \/ avail = 0 /\ UNCHANGED <<flow, sequence>> /\ Return("OK")
        \/ avail > 0 /\ Consume(1) /\ File[block].flaw = "index" /\ sequence' = sequence /\ Return("DATA_ERROR")
        \/ avail > 0 /\ Consume(1) /\ File[block].flaw # "index" /\ sequence' = "STREAM_FOOTER" /\ GoTo("code")
    BY <1>2 DEF IndexDecode
  <1>4. Flows /\ UNCHANGED <<space, output>>
    BY <1>2, <1>3, TakesOneOrNone DEF Consume, flow
  <1>5. Live /\ pending \in {"RUN", "FINISH"} /\ Placed /\ Parsed /\ Drained /\ space \in Nat
    BY <1>1, LiveHere DEF DataInv, InputInv, OutputInv, CallFits
  <1>6. CASE avail = 0 /\ UNCHANGED <<flow, sequence>> /\ Return("OK")
    <2>1. pc' = "app" /\ UNCHANGED <<action, pending>>
      BY <1>6, ReturnsCall
    <2>2. Moves
      BY <1>1, <1>4, <2>1 DEF Moves
    <2> QED BY <1>1, <1>6, <2>2, StandsStill DEF flow
  <1>7. CASE File[block].flaw = "index" /\ Return("DATA_ERROR")
    <2>1. pc' = "app" /\ pending' = "Error" /\ ret' = "DATA_ERROR"
      BY <1>7, ReturnsCall
    <2>2. block # 0 /\ outq.active = <<>> /\ ~Fresh
      BY <1>1, <1>5 DEF Placed, Drained, Fresh
    <2>3. Promise!FlawShows
      BY <1>1, <1>4, <1>5, <1>7, <2>2, FlawBehind
    <2>4. Promise!Ends
      BY <2>1, <2>3, EndsWithFlaw
    <2> QED BY <1>1, <1>4, <1>5, <2>1, <2>4, FailsData
  <1>8. CASE Consume(1) /\ File[block].flaw # "index" /\ sequence' = "STREAM_FOOTER" /\ GoTo("code")
    <2>1. pc' = "code" /\ UNCHANGED <<action, pending>>
      BY <1>8, GoesCall
    <2>2. Moves
      BY <1>1, <1>4, <2>1 DEF Moves
    <2>3. /\ File' = File /\ DataEnd' = DataEnd
      BY <1>1, SameFile
    <2>4. Placed'
      <3>1. eaten = DataEnd /\ block # 0 /\ File[block].last
        BY <1>1, <1>5 DEF Placed
      <3>2. eaten' = DataEnd + 1
        BY <1>8, <3>1 DEF Consume
      <3> QED BY <1>1, <1>8, <2>1, <2>3, <3>1, <3>2 DEF Placed
    <2>5. Parsed'
      BY <1>1, <1>5, <1>8, <2>3 DEF Parsed, BehindBlock, BeforeRecord
    <2>6. ASSUME NEW n \in Nat PROVE Handed(n) => Handed(n)'
      BY <1>1, <1>8 DEF Handed, Fresh
    <2>7. Drained'
      BY <1>1, <1>5, <1>8 DEF Drained
    <2> QED BY <1>1, <1>8, <2>2, <2>4, <2>5, <2>6, <2>7, SequenceStep
  <1> QED BY <1>3, <1>6, <1>7, <1>8

LEMMA FlawKnown ==
  ASSUME setup \in Setups, NEW b \in 1 .. Len(File)
  PROVE  /\ File[b].flaw \in {"none"} \cup Flaws
         /\ File[b].flaw \in {"index", "footer", "padding"} => File[b].last
         /\ (File[b].flaw = "stream" /\ b > 1) => File[b - 1].last
         /\ File[b].flaw = "padding" => setup.concatenated
         /\ (b < Len(File) /\ File[b].last) => setup.concatenated
  <1>1. File \in Seq(BlockRecord) /\ Len(File) \in Nat /\ b \in DOMAIN File
    BY FileType
  <1>2. File[b] \in BlockRecord
    BY <1>1
  <1>3. b < Len(File) => b \in 1 .. Len(File) - 1
    BY <1>1
  <1>4. /\ setup.file[b].flaw \in {"index", "footer", "padding"} => setup.file[b].last
        /\ setup.file[b].flaw = "padding" => setup.concatenated
        /\ (setup.file[b].flaw = "stream" /\ b > 1) => setup.file[b - 1].last
        /\ b \in 1 .. Len(setup.file) - 1 => (setup.file[b].last => setup.concatenated)
    BY <1>1, StreamDecoderAssumption DEF File
  <1> QED BY <1>2, <1>3, <1>4 DEF BlockRecord, File

LEMMA SoundBeyond ==
  ASSUME setup \in Setups, NEW n \in 0 .. Len(File), Clean(n)
  PROVE  n <= Promise!Sound
  <1>1. Len(File) \in Nat
    BY FileType
  <1>2. CASE Promise!Flaws = {}
    <2>1. Promise!Sound = Len(File)
      BY <1>2 DEF Promise!Sound
    <2> QED BY <1>1, <2>1
  <1>3. CASE Promise!Flaws # {}
    <2>1. PICK f \in 1 .. Len(File) : f = Promise!FirstFlaw /\ File[f].flaw # "none"
      BY <1>3, FirstFlawIs
    <2>2. n < f
      BY <1>1, <2>1 DEF Clean
    <2>3. Promise!Sound \in {f, f - 1}
      BY <1>3, <2>1 DEF Promise!Sound
    <2> QED BY <1>1, <2>1, <2>2, <2>3
  <1> QED BY <1>2, <1>3

(* Decoding ends where the file ends, or where the application says so.    *)
LEMMA EndsWell ==
  ASSUME IInv, DataInv, Live, outq.active = <<>>, ~Fresh, sequence \notin {"BLOCK_DIRECT_RUN", "ERROR"},
         block # 0, File[block].flaw \in {"none", "padding"}, output' = output, pending' = "End",
         \/ block = Len(File) /\ File[block].flaw = "none"
         \/ gave_up /\ File[block].last
  PROVE  Promise!Ends
  <1>1. InputInv /\ OutputInv /\ setup \in Setups /\ Len(File) \in Nat
    BY FileType DEF DataInv, IInv, InputFits
  <1>2. block \in 0 .. Len(File) /\ output = Promise!Data(block) /\ Clean(block - 1)
    BY <1>1, AllHanded
  <1>3. block \in 1 .. Len(File) /\ block \in Nat
    BY <1>1, <1>2
  <1>4. File[block].flaw = "none" => Clean(block)
    BY <1>2, <1>3 DEF Clean
  <1>5. block <= Promise!Sound
    <2>1. CASE File[block].flaw = "none"
      BY <1>1, <1>2, <1>4, <2>1, SoundBeyond
    <2>2. CASE File[block].flaw = "padding"
      <3>1. Promise!Sound = IF Promise!BehindData(File[block].flaw) THEN block ELSE block - 1
        BY <1>1, <1>2, <1>3, <2>2, Flawed
      <3>2. Promise!Sound = block
        BY <2>2, <3>1 DEF Promise!BehindData
      <3> QED BY <1>3, <3>2
    <2> QED BY <2>1, <2>2
  <1>6. Promise!Sound \in Int
    <2>1. Promise!Flaws # {} => Promise!FirstFlaw \in 1 .. Len(File)
      BY <1>1, FirstFlawIs
    <2> QED BY <1>1, <2>1 DEF Promise!Sound
  <1>7. block \in 1 .. Promise!Sound
    BY <1>3, <1>5, <1>6
  <1>8. \/ block = Len(File) /\ Promise!Flaws = {}
        \/ gave_up /\ File[block].last /\ File[block].flaw \in {"none", "padding"}
    BY <1>1, <1>4, NoFlaw
  <1> QED BY <1>2, <1>7, <1>8 DEF Promise!Ends

LEMMA StreamFooterData == ASSUME IInv, DataInv, StreamFooter PROVE Faithful
  <1>1. /\ pc = "code" /\ sequence = "STREAM_FOOTER"
        /\ UNCHANGED <<setup, gave_up, outq, wl, ws, block, direct, thr, thread_error, pending_error>>
    BY DEF StreamFooter, kept, shared, hist
  <1>2. avail \in Nat /\ InputFits /\ setup \in Setups
    BY DEF IInv, InputFits
  <1>3. \/ avail = 0 /\ UNCHANGED <<flow, sequence>> /\ Return("OK")
        \/ avail > 0 /\ Consume(1) /\ File[block].flaw = "footer" /\ Return("DATA_ERROR")
        \/ avail > 0 /\ Consume(1) /\ File[block].flaw # "footer" /\ ~setup.concatenated /\ Return("STREAM_END")
        \/ avail > 0 /\ Consume(1) /\ File[block].flaw # "footer" /\ setup.concatenated
             /\ sequence' = "STREAM_PADDING" /\ GoTo("code")
    BY <1>2 DEF StreamFooter
  <1>4. Flows /\ UNCHANGED <<space, output>>
    BY <1>2, <1>3, TakesOneOrNone DEF Consume, flow
  <1>5. Live /\ pending \in {"RUN", "FINISH"} /\ Placed /\ Parsed /\ Drained /\ space \in Nat /\ InputInv /\ OutputInv
    BY <1>1, LiveHere DEF DataInv, InputInv, OutputInv, CallFits
  <1>6. eaten = DataEnd + 1 /\ block # 0 /\ File[block].last /\ outq.active = <<>> /\ ~Fresh
    BY <1>1, <1>5 DEF Placed, Drained, Fresh
  <1>7. block \in 1 .. Len(File) /\ Len(File) \in Nat
    BY <1>2, <1>6, PlacesOf, FileType
  <1>8. File[block].flaw \notin {"stream", "header", "record", "index", "data"}
    BY <1>1, <1>5, <1>6, AllHanded DEF Parsed, BeforeRecord
  <1>9. CASE avail = 0 /\ UNCHANGED <<flow, sequence>> /\ Return("OK")
    <2>1. pc' = "app" /\ UNCHANGED <<action, pending>>
      BY <1>9, ReturnsCall
    <2>2. Moves
      BY <1>1, <1>4, <2>1 DEF Moves
    <2> QED BY <1>1, <1>9, <2>2, StandsStill DEF flow
  <1>10. CASE File[block].flaw = "footer" /\ Return("DATA_ERROR")
    <2>1. pc' = "app" /\ pending' = "Error" /\ ret' = "DATA_ERROR"
      BY <1>10, ReturnsCall
    <2>2. Promise!FlawShows
      BY <1>1, <1>4, <1>5, <1>6, <1>10, FlawBehind
    <2>3. Promise!Ends
      BY <2>1, <2>2, EndsWithFlaw
    <2> QED BY <1>1, <1>4, <1>5, <2>1, <2>3, FailsData
  <1>11. CASE File[block].flaw # "footer" /\ ~setup.concatenated /\ Return("STREAM_END")
    <2>1. pc' = "app" /\ pending' = "End"
      BY <1>11, ReturnsCall
    <2>2. File[block].flaw = "none" /\ block = Len(File)
      BY <1>2, <1>6, <1>7, <1>8, <1>11, FlawKnown DEF Flaws
    <2>3. Promise!Ends
      BY <1>1, <1>4, <1>5, <1>6, <2>1, <2>2, EndsWell
    <2> QED BY <1>1, <1>4, <1>5, <2>1, <2>3, FailsData
  <1>12. CASE Consume(1) /\ File[block].flaw # "footer" /\ setup.concatenated
                /\ sequence' = "STREAM_PADDING" /\ GoTo("code")
    <2>1. pc' = "code" /\ UNCHANGED <<action, pending>>
      BY <1>12, GoesCall
    <2>2. Moves
      BY <1>1, <1>4, <2>1 DEF Moves
    <2>3. /\ File' = File /\ DataEnd' = DataEnd /\ NextStart' = NextStart
      BY <1>1, SameFile
    <2>4. eaten' \in DataEnd + 2 .. NextStart - 1
      <3>1. NextStart >= DataEnd + 3 /\ DataEnd \in Nat /\ NextStart \in Nat
        BY <1>6, PlacesOf, Places
      <3>2. eaten' = DataEnd + 2
        BY <1>6, <1>12, <3>1 DEF Consume
      <3> QED BY <3>1, <3>2
    <2>5. Placed'
      BY <1>1, <1>6, <1>12, <2>1, <2>3, <2>4 DEF Placed
    <2>6. Parsed'
      BY <1>1, <1>5, <1>12, <2>3 DEF Parsed, BehindBlock, BeforeRecord
    <2>7. ASSUME NEW n \in Nat PROVE Handed(n) => Handed(n)'
      BY <1>1, <1>12 DEF Handed, Fresh
    <2>8. Drained'
      BY <1>1, <1>6, <1>12 DEF Drained
    <2> QED BY <1>1, <1>12, <2>2, <2>5, <2>6, <2>7, <2>8, SequenceStep
  <1> QED BY <1>3, <1>9, <1>10, <1>11, <1>12

LEMMA StreamPaddingData == ASSUME IInv, DataInv, StreamPadding PROVE Faithful
  <1>1. /\ pc = "code" /\ sequence = "STREAM_PADDING"
        /\ UNCHANGED <<setup, gave_up, outq, wl, ws, block, direct, thr, thread_error, pending_error>>
    BY DEF StreamPadding, kept, shared, hist
  <1>2. avail \in Nat /\ InputFits /\ setup \in Setups
    BY DEF IInv, InputFits
  <1>3. \/ avail = 0 /\ UNCHANGED <<flow, sequence>> /\ Return("OK")
        \/ avail = 0 /\ action = "FINISH" /\ UNCHANGED <<flow, sequence>> /\ PaddingPos = 0 /\ Return("STREAM_END")
        \/ avail = 0 /\ UNCHANGED <<flow, sequence>> /\ PaddingPos # 0 /\ Return("DATA_ERROR")
        \/ avail > 0 /\ AtZero /\ sequence' = sequence /\ Consume(1) /\ GoTo("code")
        \/ avail > 0 /\ PaddingPos # 0 /\ Consume(1) /\ Return("DATA_ERROR")
        \/ ~AtZero /\ PaddingPos = 0 /\ UNCHANGED flow /\ sequence' = "STREAM_HEADER" /\ GoTo("code")
    BY <1>2 DEF StreamPadding
  <1>4. Flows /\ UNCHANGED <<space, output>>
    BY <1>2, <1>3, TakesOneOrNone DEF Consume, flow
  <1>5. /\ Live /\ pending \in {"RUN", "FINISH"} /\ Placed /\ Parsed /\ Drained /\ space \in Nat
        /\ InputInv /\ OutputInv /\ CallFits
    BY <1>1, LiveHere DEF DataInv, InputInv, OutputInv, CallFits
  <1>6. /\ setup.concatenated /\ eaten \in DataEnd + 2 .. NextStart - 1
        /\ block # 0 /\ File[block].last /\ outq.active = <<>> /\ ~Fresh
    BY <1>1, <1>5 DEF Placed, Drained, Fresh
  <1>7. block \in 1 .. Len(File) /\ Len(File) \in Nat
    BY <1>2, <1>6, PlacesOf, FileType
  <1>8. File[block].flaw \in {"none", "padding"}
    <2>1. File[block].flaw \notin {"stream", "header", "record", "index", "footer", "data"}
      BY <1>1, <1>5, <1>6, AllHanded DEF Parsed, BeforeRecord
    <2> QED BY <1>2, <1>7, <2>1, FlawKnown DEF Flaws
  <1>9. /\ DataEnd \in Nat /\ NextStart \in Nat /\ eaten \in Nat /\ FileSize \in Nat
        /\ (File[block].flaw = "padding" => NextStart = DataEnd + 5)
        /\ (File[block].flaw # "padding" => NextStart = DataEnd + 3)
        /\ NextStart = Before(block + 1)
    BY <1>6, PlacesOf, Places DEF NextStart
  <1>10. /\ File' = File /\ DataEnd' = DataEnd /\ NextStart' = NextStart
    BY <1>1, SameFile
  <1>11. CASE avail = 0 /\ UNCHANGED <<flow, sequence>> /\ Return("OK")
    <2>1. pc' = "app" /\ UNCHANGED <<action, pending>>
      BY <1>11, ReturnsCall
    <2>2. Moves
      BY <1>1, <1>4, <2>1 DEF Moves
    <2> QED BY <1>1, <1>11, <2>2, StandsStill DEF flow
  <1>12. CASE avail = 0 /\ action = "FINISH" /\ UNCHANGED <<flow, sequence>> /\ PaddingPos = 0 /\ Return("STREAM_END")
    <2>1. pc' = "app" /\ pending' = "End"
      BY <1>12, ReturnsCall
    <2>2. CASE gave_up
      <3>1. Promise!Ends
        BY <1>1, <1>4, <1>5, <1>6, <1>8, <2>1, <2>2, EndsWell
      <3> QED BY <1>1, <1>4, <1>5, <2>1, <3>1, FailsData
    <2>3. CASE ~gave_up
      <3>1. eaten = FileSize
        BY <1>5, <1>9, <1>12, <2>3 DEF CallFits
      <3>2. block = Len(File) /\ NextStart - 1 = eaten
        <4>1. /\ block <= Len(File) /\ NextStart - 1 <= FileSize
              /\ block < Len(File) => NextStart < FileSize
          BY Places
        <4> QED BY <1>6, <1>7, <1>9, <3>1, <4>1
      <3>3. File[block].flaw # "padding"
        <4>1. (2 - (NextStart - 1 - eaten)) # 0
          BY <1>9, <3>2
        <4> QED BY <1>9, <1>12, <4>1 DEF PaddingPos
      <3>4. Promise!Ends
        BY <1>1, <1>4, <1>5, <1>6, <1>8, <2>1, <3>2, <3>3, EndsWell
      <3> QED BY <1>1, <1>4, <1>5, <2>1, <3>4, FailsData
    <2> QED BY <2>2, <2>3
  <1>13. CASE PaddingPos # 0 /\ Return("DATA_ERROR")
    <2>1. pc' = "app" /\ pending' = "Error" /\ ret' = "DATA_ERROR"
      BY <1>13, ReturnsCall
    <2>2. File[block].flaw = "padding"
      BY <1>13 DEF PaddingPos
    <2>3. Promise!FlawShows
      BY <1>1, <1>4, <1>5, <1>6, <2>2, FlawBehind
    <2>4. Promise!Ends
      BY <2>1, <2>3, EndsWithFlaw
    <2> QED BY <1>1, <1>4, <1>5, <2>1, <2>4, FailsData
  <1>14. CASE avail > 0 /\ AtZero /\ sequence' = sequence /\ Consume(1) /\ GoTo("code")
    <2>1. pc' = "code" /\ UNCHANGED <<action, pending>>
      BY <1>14, GoesCall
    <2>2. Moves
      BY <1>1, <1>4, <2>1 DEF Moves
    <2>3. eaten' \in DataEnd + 2 .. NextStart - 1
      <3>1. eaten < NextStart - 1
        BY <1>9, <1>14 DEF AtZero
      <3>2. eaten' = eaten + 1
        BY <1>14 DEF Consume
      <3> QED BY <1>6, <1>9, <3>1, <3>2
    <2>4. Placed'
      BY <1>1, <1>6, <1>10, <1>14, <2>1, <2>3 DEF Placed
    <2>5. Parsed'
      BY <1>1, <1>5, <1>10, <1>14 DEF Parsed, BehindBlock, BeforeRecord
    <2>6. ASSUME NEW n \in Nat PROVE Handed(n) => Handed(n)'
      BY <1>1, <1>14 DEF Handed, Fresh
    <2>7. Drained'
      BY <1>1, <1>6, <1>14 DEF Drained
    <2> QED BY <1>1, <1>14, <2>2, <2>4, <2>5, <2>6, <2>7, SequenceStep
  <1>15. CASE ~AtZero /\ PaddingPos = 0 /\ UNCHANGED flow /\ sequence' = "STREAM_HEADER" /\ GoTo("code")
    <2>1. pc' = "code" /\ UNCHANGED <<action, pending>>
      BY <1>15, GoesCall
    <2>2. Moves
      BY <1>1, <1>4, <2>1 DEF Moves
    <2>3. File[block].flaw = "none"
      <3>1. CASE File[block].flaw = "padding"
        <4>1. ~(eaten < NextStart - 1)
          BY <1>9, <1>15, <3>1 DEF AtZero
        <4>2. 2 - (NextStart - 1 - eaten) = 0
          BY <1>9, <1>15, <3>1 DEF PaddingPos
        <4> QED BY <1>6, <1>9, <4>1, <4>2
      <3> QED BY <1>8, <3>1
    <2>4. eaten' = NextStart - 1
      BY <1>6, <1>9, <1>15, <2>3 DEF flow
    <2>5. Placed'
      BY <1>10, <1>15, <2>1, <2>4 DEF Placed
    <2>6. Parsed'
      BY <1>1, <1>5, <1>10, <1>15, <2>3 DEF Parsed, BehindBlock, BeforeRecord
    <2>7. ASSUME NEW n \in Nat PROVE Handed(n) => Handed(n)'
      BY <1>1, <1>15 DEF Handed, Fresh
    <2>8. Drained'
      BY <1>1, <1>6, <1>15 DEF Drained
    <2> QED BY <1>1, <1>15, <2>2, <2>5, <2>6, <2>7, <2>8, SequenceStep
  <1> QED BY <1>3, <1>11, <1>12, <1>13, <1>14, <1>15

LEMMA StreamHeaderData == ASSUME IInv, DataInv, StreamHeader PROVE Faithful
  <1>1. /\ pc = "code" /\ sequence = "STREAM_HEADER"
        /\ UNCHANGED <<setup, gave_up, outq, wl, ws, block, direct, thr, thread_error, pending_error>>
    BY DEF StreamHeader, kept, shared, hist
  <1>2. avail \in Nat /\ InputFits
    BY DEF IInv, InputFits
  <1>3. (avail = 0 /\ UNCHANGED <<flow, sequence>> /\ Return("OK"))
        \/ (avail > 0 /\ Consume(1) /\ File[block + 1].flaw = "stream" /\ Return("DATA_ERROR"))
        \/ (/\ avail > 0 /\ Consume(1) /\ sequence' = "BLOCK_HEADER" /\ File[block + 1].flaw # "stream"
            /\ Return("GET_CHECK") \/ GoTo("code"))
    BY <1>2 DEF StreamHeader
  <1>4. Flows
    BY <1>2, <1>3, TakesOneOrNone
  <1>5. ASSUME \/ UNCHANGED <<flow, sequence>> /\ Return("OK")
               \/ Consume(1) /\ (Return("GET_CHECK") \/ GoTo("code"))
        PROVE  Moves
    <2>1. UNCHANGED <<space, output>>
      BY <1>5 DEF Consume, flow
    <2>2. pc' \in {"app", "code"} /\ action' = action /\ pending' = pending
      BY <1>5, ReturnsCall, GoesCall
    <2> QED BY <1>1, <1>4, <2>1, <2>2 DEF Moves
  <1>6. CASE UNCHANGED <<flow, sequence>> /\ Return("OK")
    BY <1>1, <1>5, <1>6, StandsStill DEF flow
  <1>7. CASE /\ Consume(1) /\ sequence' = "BLOCK_HEADER" /\ File[block + 1].flaw # "stream"
             /\ Return("GET_CHECK") \/ GoTo("code")
    <2>1. Placed /\ Parsed
      BY <1>5, <1>7, LiveHere DEF Moves, DataInv, InputInv
    <2>2. eaten' = NextStart
      <3>1. eaten = NextStart - 1 /\ NextStart \in Nat
        BY <1>1, <2>1, Places DEF Placed
      <3> QED BY <1>7, <3>1 DEF Consume
    <2>3. NextStart' = NextStart /\ File' = File
      BY <1>1, SameFile
    <2>4. Placed'
      BY <1>5, <1>7, <2>2, <2>3 DEF Placed, Moves
    <2>5. Parsed'
      BY <1>1, <1>7, <2>1, <2>3 DEF Parsed, BehindBlock, BeforeRecord
    <2>6. ASSUME NEW n \in Nat PROVE Handed(n) => Handed(n)'
      BY <1>1, <1>7 DEF Handed, Fresh
    <2>7. Drained'
      BY <1>7 DEF Drained
    <2> QED BY <1>1, <1>5, <1>7, <2>4, <2>5, <2>6, <2>7, SequenceStep
  <1>8. CASE avail > 0 /\ Consume(1) /\ File[block + 1].flaw = "stream" /\ Return("DATA_ERROR")
    <2>1. /\ Live /\ pending \in {"RUN", "FINISH"} /\ space \in Nat /\ InputInv /\ OutputInv /\ setup \in Setups
          /\ outq.active = <<>> /\ Placed /\ Parsed
      BY <1>1, <1>2, LiveHere DEF DataInv, InputInv, OutputInv, CallFits, Drained, InputFits
    <2>2. pc' = "app" /\ pending' = "Error" /\ ret' = "DATA_ERROR" /\ UNCHANGED <<output, space>>
      BY <1>8, ReturnsCall DEF Consume
    <2>3. /\ block \in 0 .. Len(File) /\ output = Stretch(block, 0) /\ Clean(block - 1)
          /\ block # 0 => File[block].flaw # "data"
      BY <1>1, <2>1, AllHanded DEF Fresh
    <2>4. block + 1 \in 1 .. Len(File) /\ block \in Nat
      <3>1. /\ block \in Nat /\ block <= Len(File) /\ Len(File) \in Nat
            /\ block = Len(File) => NextStart - 1 = FileSize
            /\ eaten \in Nat /\ avail + eaten <= FileSize
        BY Places
      <3>2. eaten = NextStart - 1
        BY <1>1, <2>1 DEF Placed
      <3> QED BY <1>2, <1>8, <3>1, <3>2
    <2>5. Clean(block)
      <3>1. block # 0 => File[block].flaw = "none"
        BY <1>1, <2>1, <2>3 DEF Parsed, BehindBlock, BeforeRecord
      <3>2. ASSUME NEW b \in 1 .. block PROVE File[b].flaw = "none"
        <4>1. b = block \/ b \in 1 .. block - 1
          BY <2>4, <3>2
        <4> QED BY <2>3, <2>4, <3>1, <4>1 DEF Clean
      <3> QED BY <3>2 DEF Clean
    <2>6. Promise!FlawShows
      <3>1. PICK b \in 1 .. Len(File) : b = block + 1
        BY <2>4
      <3>2. File[b].flaw # "none" /\ ~Promise!BehindData(File[b].flaw) /\ Clean(b - 1) /\ block = b - 1
        BY <1>8, <2>4, <2>5, <3>1 DEF Promise!BehindData
      <3>3. output' = Stretch(block, 0)
        BY <2>2, <2>3
      <3> QED BY <2>1, <2>3, <3>2, <3>3, FlawReached
    <2>7. Promise!Ends
      BY <2>2, <2>6, EndsWithFlaw
    <2> QED BY <1>1, <2>1, <2>2, <2>7, FailsData
  <1> QED BY <1>3, <1>6, <1>7, <1>8

LEMMA ErrorNowData == ASSUME IInv, DataInv, ErrorNow PROVE Faithful
  <1>1. /\ pc = "code" /\ sequence = "ERROR" /\ setup.fail_fast /\ Return(pending_error)
        /\ UNCHANGED <<setup, gave_up, output, space>>
    BY DEF ErrorNow, ErrorDrainsFirst, flow, hist
  <1>2. Live /\ pending \in {"RUN", "FINISH"} /\ Parsed /\ Faults /\ space \in Nat
    BY <1>1, LiveHere DEF DataInv, InputInv, CallFits
  <1>3. pending_error = "DATA_ERROR" /\ block # 0 /\ File[block].flaw \in {"header", "record"}
    BY <1>1, <1>2 DEF Parsed, BeforeRecord, Faults
  <1>4. pc' = "app" /\ pending' = "Error" /\ ret' = "DATA_ERROR"
    BY <1>1, <1>3, ReturnsCall
  <1>5. Promise!FlawShows
    BY <1>1, <1>3, PlacesOf, Places, FlawFast
  <1>6. Promise!Ends
    BY <1>4, <1>5, EndsWithFlaw
  <1> QED BY <1>1, <1>2, <1>4, <1>6, FailsData

(* The input ends in the middle of the file only if the application says so. *)
LEMMA HeaderFollows ==
  ASSUME IInv, Placed, sequence = "BLOCK_HEADER"
  PROVE  eaten # FileSize /\ (~AtIndex => eaten = NextStart)
         /\ (AtIndex => eaten = DataEnd /\ block # 0 /\ File[block].last)
  <1>1. /\ block \in Nat /\ block <= Len(File) /\ Len(File) \in Nat
        /\ NextStart \in Nat /\ NextStart - 1 <= FileSize /\ FileSize \in Nat
        /\ block < Len(File) => NextStart < FileSize
        /\ block = Len(File) => NextStart - 1 = FileSize
        /\ eaten \in Nat
    BY Places
  <1>2. eaten = NextStart \/ (block # 0 /\ File[block].last /\ eaten = DataEnd)
    BY DEF Placed
  <1>3. CASE eaten = NextStart
    <2>1. eaten # FileSize
      BY <1>1, <1>3
    <2>2. ~AtIndex
      BY <1>1, <1>3 DEF AtIndex, NextStart
    <2> QED BY <1>3, <2>1, <2>2
  <1>4. CASE block # 0 /\ File[block].last /\ eaten = DataEnd
    <2>1. DataEnd \in Nat /\ NextStart >= DataEnd + 3
      BY <1>4, PlacesOf
    <2>2. eaten # FileSize /\ eaten < NextStart
      BY <1>1, <1>4, <2>1
    <2>3. AtIndex
      BY <1>1, <1>4, <2>2 DEF AtIndex, NextStart
    <2> QED BY <1>4, <2>2, <2>3
  <1> QED BY <1>2, <1>3, <1>4

LEMMA BeforeIs == ASSUME NEW b PROVE Before(b) = TakenBy(SubSeq(File, 1, b - 1))
  BY DEF Before

LEMMA BlockHeaderData == ASSUME IInv, DataInv, BlockHeader PROVE Faithful
  <1>1. /\ pc = "code" /\ sequence = "BLOCK_HEADER"
        /\ UNCHANGED <<setup, gave_up, outq, wl, direct, thr, thread_error>>
    BY DEF BlockHeader, shared, hist
  <1>2. avail \in Nat /\ InputFits
    BY DEF IInv, InputFits
  <1>3. \/ avail = 0 /\ CutOff /\ UNCHANGED flow /\ StopAndFail("DATA_ERROR")
        \/ pc' = "read" /\ UNCHANGED <<action, pending>> /\ UNCHANGED flow
             /\ UNCHANGED <<sequence, pending_error, block, ws>>
        \/ avail > 0 /\ AtIndex /\ sequence' = "INDEX_WAIT_OUTPUT" /\ GoTo("code") /\ UNCHANGED flow
             /\ UNCHANGED <<pending_error, block, ws>>
        \/ avail > 0 /\ ~AtIndex /\ Consume(1) /\ block' = block + 1 /\ GoTo("code") /\ UNCHANGED ws
             /\ \/ File[block'].flaw = "header" /\ sequence' = "ERROR" /\ pending_error' = "DATA_ERROR"
                \/ File[block'].flaw # "header" /\ sequence' = "BLOCK_INIT" /\ UNCHANGED pending_error
    <2>1. File' = File
      BY <1>1 DEF File
    <2> QED BY <1>2, <2>1 DEF BlockHeader, EnterWait, GoTo, call
  <1>4. /\ Live /\ pending \in {"RUN", "FINISH"} /\ Placed /\ Parsed /\ Faults /\ space \in Nat
        /\ InputInv /\ OutputInv /\ CallFits
    BY <1>1, LiveHere DEF DataInv, InputInv, OutputInv, CallFits
  <1>5. /\ eaten # FileSize /\ (~AtIndex => eaten = NextStart)
        /\ (AtIndex => eaten = DataEnd /\ block # 0 /\ File[block].last)
    BY <1>1, <1>4, HeaderFollows
  <1>6. CASE avail = 0 /\ CutOff /\ UNCHANGED flow /\ StopAndFail("DATA_ERROR")
    <2>1. pc' = "app" /\ pending' = "Error" /\ ret' = "DATA_ERROR"
      BY <1>6, ReturnsCall DEF StopAndFail
    <2>2. gave_up /\ setup.fail_fast
      <3>1. avail + eaten = eaten
        BY <1>2, <1>6 DEF InputFits
      <3> QED BY <1>4, <1>5, <1>6, <3>1 DEF CutOff, CallFits
    <2>3. Promise!FlawShows
      BY <2>2 DEF Promise!FlawShows
    <2>4. Promise!Ends
      BY <2>1, <2>3, EndsWithFlaw
    <2> QED BY <1>1, <1>4, <1>6, <2>1, <2>4, FailsData DEF flow
  <1>7. CASE pc' = "read" /\ UNCHANGED <<action, pending>> /\ UNCHANGED flow
               /\ UNCHANGED <<sequence, pending_error, block, ws>>
    <2>1. Moves
      BY <1>1, <1>2, <1>7, Stays DEF Moves, flow
    <2> QED BY <1>1, <1>7, <2>1, StandsStill DEF flow
  <1>8. CASE avail > 0 /\ AtIndex /\ sequence' = "INDEX_WAIT_OUTPUT" /\ GoTo("code") /\ UNCHANGED flow
               /\ UNCHANGED <<pending_error, block, ws>>
    <2>1. pc' = "code" /\ UNCHANGED <<action, pending>>
      BY <1>8, GoesCall
    <2>2. Moves
      BY <1>1, <1>2, <1>8, <2>1, Stays DEF Moves, flow
    <2>3. File' = File /\ DataEnd' = DataEnd
      BY <1>1, <1>8, SameFile
    <2>4. Placed'
      BY <1>1, <1>5, <1>8, <2>1, <2>3 DEF Placed, flow
    <2>5. Parsed'
      BY <1>1, <1>4, <1>8, <2>3 DEF Parsed, BehindBlock, BeforeRecord
    <2>6. ASSUME NEW n \in Nat PROVE Handed(n) => Handed(n)'
      BY <1>1, <1>8 DEF Handed, Fresh
    <2>7. Drained'
      BY <1>1, <1>8 DEF Drained
    <2> QED BY <1>1, <1>8, <2>2, <2>4, <2>5, <2>6, <2>7, SequenceStep
  <1>9. CASE avail > 0 /\ ~AtIndex /\ Consume(1) /\ block' = block + 1 /\ GoTo("code") /\ UNCHANGED ws
               /\ \/ File[block'].flaw = "header" /\ sequence' = "ERROR" /\ pending_error' = "DATA_ERROR"
                  \/ File[block'].flaw # "header" /\ sequence' = "BLOCK_INIT" /\ UNCHANGED pending_error
    <2>1. pc' = "code" /\ UNCHANGED <<action, pending>> /\ sequence' \in {"ERROR", "BLOCK_INIT"}
      BY <1>9, GoesCall
    <2>2. UNCHANGED <<output, space>> /\ Flows
      BY <1>2, <1>9, TakesOneOrNone DEF Consume
    <2>3. CallFits'
      BY <1>1, <1>4, <2>1, <2>2, CallStays
    <2>4. File' = File /\ block \in Nat /\ block' # 0
      BY <1>1, <1>9, Places DEF File
    <2>5. DataStart' = NextStart + 1 /\ eaten' = NextStart + 1
      <3>1. PICK m : m = block + 1
        OBVIOUS
      <3>2. block' = m
        BY <1>9, <3>1
      <3>3. DataStart' = TakenBy(SubSeq(File', 1, block' - 1)) + 1
        BY DEF DataStart, Before
      <3>4. Before(m) = TakenBy(SubSeq(File, 1, m - 1))
        BY BeforeIs
      <3>5. DataStart' = Before(m) + 1
        BY <2>4, <3>2, <3>3, <3>4
      <3>6. NextStart = Before(m)
        BY <3>1 DEF NextStart
      <3> QED BY <1>5, <1>9, <3>5, <3>6 DEF Consume
    <2>6. Placed'
      BY <2>1, <2>5 DEF Placed
    <2>7. Parsed'
      <3>0. File'[block'].flaw # "stream"
        <4>1. block < Len(File)
          BY <1>2, <1>5, <1>9, Places DEF Consume
        <4> QED BY <1>1, <1>4, <1>5, <1>9, <2>4, <4>1 DEF Parsed, BeforeRecord
      <3>1. block # 0 => File[block].flaw \in {"none", "data"}
        BY <1>1, <1>4, <1>5, <1>9 DEF Parsed, BehindBlock, BeforeRecord
      <3>2. \A b \in 1 .. block - 1 : File[b].flaw \in {"none", "data"}
        BY <1>4 DEF Parsed, BeforeRecord
      <3>3. \A b \in 1 .. block' - 1 : File'[b].flaw \in {"none", "data"}
        <4>1. ASSUME NEW b \in 1 .. block' - 1 PROVE b = block \/ b \in 1 .. block - 1
          BY <1>9, <2>4
        <4> QED BY <2>4, <3>1, <3>2, <4>1
      <3> QED BY <1>9, <2>1, <2>4, <3>0, <3>3 DEF Parsed, BehindBlock, BeforeRecord
    <2>8. ASSUME NEW n \in Nat PROVE Handed(n) => Handed(n)'
      <3>1. Handed(n) => n = block
        BY <1>1 DEF Handed, Fresh
      <3>2. block' - 1 = block
        BY <1>9, <2>4
      <3> QED BY <2>1, <3>1, <3>2 DEF Handed, Fresh
    <2>9. Drained' /\ Position' = Position
      BY <1>1, <2>1 DEF Drained, Position
    <2>10. Faults'
      <3>1. (\E i \in DOMAIN outq.active : FailedBuffer(outq.active[i]))
              => \E i \in DOMAIN outq'.active : FailedBuffer(outq.active[i])'
        BY <1>1 DEF FailedBuffer
      <3>2. pending_error # "DATA_ERROR"
        BY <1>1, <1>4 DEF Faults
      <3> QED BY <1>1, <1>4, <1>9, <2>4, <3>1, <3>2 DEF Faults
    <2> QED BY <1>1, <1>4, <1>9, <2>1, <2>2, <2>3, <2>6, <2>7, <2>8, <2>9, <2>10, QuietData
  <1> QED BY <1>3, <1>6, <1>7, <1>8, <1>9

(* A remembered error has a Block.                                         *)
LEMMA FaultHasBlock ==
  ASSUME IInv, OutputInv, Faults, pending_error = "PROG_ERROR"
  PROVE  block # 0 /\ outq.active # <<>>
  <1>1. PICK i \in DOMAIN outq.active : FailedBuffer(outq.active[i])
    BY DEF Faults
  <1>2. outq.active[i].job \in 1 .. Len(File) /\ outq.active[i].job <= block
    BY BufferKnown DEF OutputInv
  <1>3. block \in Nat
    BY Places
  <1>4. outq.active # <<>>
    BY <1>1
  <1> QED BY <1>2, <1>3, <1>4

(* A Stream's header is in front of its first Block.                       *)
LEMMA NextHeaderSound ==
  ASSUME setup \in Setups, block \in 1 .. Len(File), ~File[block].last, block < Len(File)
  PROVE  File[block + 1].flaw # "stream"
  <1>1. PICK b \in 1 .. Len(File) : b = block + 1
    BY FileType
  <1>2. b > 1 /\ b - 1 = block
    BY <1>1, FileType
  <1> QED BY <1>1, <1>2, FlawKnown

LEMMA AfterWaitData == ASSUME IInv, DataInv, AfterWait PROVE Faithful
  <1>1. /\ pc = "after" /\ UNCHANGED flow
        /\ UNCHANGED <<setup, gave_up, outq, wl, ws, block, direct, thread_error, pending_error>>
    BY DEF AfterWait, shared, hist
  <1>2. /\ InputFits /\ Flows /\ UNCHANGED <<output, space, eaten>>
    BY <1>1, Stays DEF IInv, flow
  <1>3. /\ Live /\ pending \in {"RUN", "FINISH"} /\ Placed /\ Parsed /\ Faults /\ space \in Nat
        /\ InputInv /\ OutputInv /\ CallFits
    BY <1>1, LiveHere DEF DataInv, InputInv, OutputInv, CallFits
  <1>4. \/ sequence \in {"BLOCK_HEADER", "BLOCK_THR_RUN", "BLOCK_THR_INIT"} /\ pending_error # "OK"
             /\ sequence' = "ERROR" /\ GoTo("code") /\ UNCHANGED thr
        \/ UNCHANGED <<sequence, thr>>
             /\ (Return("OK") \/ Return("MEMLIMIT_ERROR") \/ GoTo("plan") \/ GoTo("direct"))
        \/ sequence = "BLOCK_THR_RUN" /\ ~(Wanted > 0) /\ sequence' = "BLOCK_HEADER" /\ GoTo("code")
        \/ sequence = "INDEX_WAIT_OUTPUT" /\ IsEmpty(outq) /\ sequence' = "INDEX_DECODE" /\ GoTo("code")
             /\ UNCHANGED thr
        \/ sequence = "ERROR" /\ IsEmpty(outq) /\ Return(pending_error)
    BY DEF AfterWait
  <1>5. File' = File /\ DataEnd' = DataEnd /\ NextStart' = NextStart
    BY <1>1, SameFile
  <1>6. ASSUME UNCHANGED <<action, pending>>, pc' \notin {"start", "partial"} PROVE Moves
    BY <1>1, <1>2, <1>6 DEF Moves
  <1>7. CASE sequence \in {"BLOCK_HEADER", "BLOCK_THR_RUN", "BLOCK_THR_INIT"} /\ pending_error # "OK"
               /\ sequence' = "ERROR" /\ GoTo("code") /\ UNCHANGED thr
    <2>1. pc' = "code" /\ UNCHANGED <<action, pending>>
      BY <1>7, GoesCall
    <2>2. block # 0
      BY <1>3, <1>7, FaultHasBlock DEF Faults
    <2>3. Placed' /\ Drained'
      BY <1>7, <2>1 DEF Placed, Drained
    <2>4. Parsed'
      BY <1>1, <1>3, <1>5, <1>7, <2>2 DEF Parsed, BehindBlock, BeforeRecord
    <2>5. ASSUME NEW n \in Nat PROVE Handed(n) => Handed(n)'
      <3>1. File[block].flaw \notin {"header", "record"}
        BY <1>3, <1>7, <2>2 DEF Parsed, BeforeRecord
      <3> QED BY <1>1, <1>5, <1>7, <3>1 DEF Handed, Fresh
    <2> QED BY <1>1, <1>6, <1>7, <2>1, <2>3, <2>4, <2>5, SequenceStep
  <1>8. CASE UNCHANGED <<sequence, thr>>
               /\ (Return("OK") \/ Return("MEMLIMIT_ERROR") \/ GoTo("plan") \/ GoTo("direct"))
    <2>1. UNCHANGED <<action, pending>> /\ pc' \in {"app", "plan", "direct"}
      BY <1>8, ReturnsCall, GoesCall
    <2> QED BY <1>1, <1>2, <1>6, <1>8, <2>1, StandsStill
  <1>9. CASE sequence = "BLOCK_THR_RUN" /\ ~(Wanted > 0) /\ sequence' = "BLOCK_HEADER" /\ GoTo("code")
    <2>1. pc' = "code" /\ UNCHANGED <<action, pending>>
      BY <1>9, GoesCall
    <2>2. block # 0 /\ block \in 1 .. Len(File) /\ setup \in Setups
      BY <1>2, <1>9, PlacesOf, Places DEF InputFits, AtBlock
    <2>3. /\ DataStart \in Nat /\ DataEnd \in Nat /\ DataEnd = DataStart + File[block].in
          /\ File[block].in \in Nat \ {0}
          /\ (File[block].last => NextStart >= DataEnd + 3)
          /\ (~File[block].last => NextStart = DataEnd)
      BY <2>2, PlacesOf
    <2>4. ws[thr].in_filled = File[block].in
      <3>1. thr \in Worker /\ ws[thr].in_filled <= File[block].in
        BY <1>9 DEF IInv, ThreadInv, FedSound, Fed
      <3>2. ws[thr].in_filled \in Nat
        BY <3>1 DEF IInv, Types, WorkerRecord
      <3> QED BY <1>9, <2>3, <3>1, <3>2 DEF Wanted
    <2>5. eaten' = DataEnd
      BY <1>2, <1>3, <1>9, <2>3, <2>4 DEF Placed
    <2>6. Placed'
      BY <1>1, <1>5, <1>9, <2>1, <2>2, <2>3, <2>5 DEF Placed
    <2>7. eaten' = NextStart' => ~File[block].last
      BY <1>5, <2>3, <2>5
    <2>8. File[block].flaw \in {"none"} \cup Flaws
          /\ (File[block].flaw \in {"index", "footer", "padding"} => File[block].last)
      BY <2>2, FlawKnown
    <2>9. Parsed'
      BY <1>1, <1>3, <1>5, <1>9, <2>2, <2>7, <2>8, NextHeaderSound DEF Parsed, BehindBlock, BeforeRecord, Flaws
    <2>10. ASSUME NEW n \in Nat PROVE Handed(n) => Handed(n)'
      BY <1>1, <1>9 DEF Handed, Fresh
    <2>11. Drained'
      BY <1>9 DEF Drained
    <2> QED BY <1>1, <1>6, <1>9, <2>1, <2>6, <2>9, <2>10, <2>11, SequenceStep
  <1>10. CASE sequence = "INDEX_WAIT_OUTPUT" /\ IsEmpty(outq) /\ sequence' = "INDEX_DECODE" /\ GoTo("code")
                /\ UNCHANGED thr
    <2>1. pc' = "code" /\ UNCHANGED <<action, pending>>
      BY <1>10, GoesCall
    <2>2. Placed'
      BY <1>1, <1>2, <1>3, <1>5, <1>10, <2>1 DEF Placed
    <2>3. Parsed'
      BY <1>1, <1>3, <1>5, <1>10 DEF Parsed, BehindBlock, BeforeRecord
    <2>4. ASSUME NEW n \in Nat PROVE Handed(n) => Handed(n)'
      BY <1>1, <1>10 DEF Handed, Fresh
    <2>5. Drained'
      BY <1>1, <1>10 DEF Drained, IsEmpty
    <2> QED BY <1>1, <1>6, <1>10, <2>1, <2>2, <2>3, <2>4, <2>5, SequenceStep
  <1>11. CASE sequence = "ERROR" /\ IsEmpty(outq) /\ Return(pending_error)
    <2>1. pending_error = "DATA_ERROR"
      BY <1>3, <1>11, FaultHasBlock DEF Faults, Parsed, IsEmpty
    <2>2. pc' = "app" /\ pending' = "Error" /\ ret' = "DATA_ERROR"
      BY <1>11, <2>1, ReturnsCall
    <2>3. File[block].flaw \in {"header", "record"} /\ block # 0
      BY <1>3, <1>11, <2>1 DEF Faults, Parsed, BeforeRecord
    <2>4. block \in 1 .. Len(File) /\ setup \in Setups /\ block \in Nat /\ Len(File) \in Nat
      BY <2>3, PlacesOf, Places
    <2>5. PICK n \in Nat : Handed(n) /\ Delivered(n)
      BY <1>3 DEF OutputInv, Handing
    <2>6. n = block - 1
      BY <1>11, <2>3, <2>5 DEF Handed
    <2>7. Len(outq.active) = 0 /\ outq.active = <<>>
      BY <1>11 DEF IsEmpty
    <2>8. PICK d : d = n - Len(outq.active)
      OBVIOUS
    <2>9. /\ d \in 0 .. Len(File) /\ (d >= block - 1 => Clean(block - 1)) /\ output = Stretch(d, Position)
      BY <1>2, <1>3, <2>5, <2>8, DeliveredClean
    <2>10. d = block - 1
      BY <2>4, <2>6, <2>7, <2>8
    <2>11. Position = 0
      BY <1>3, <1>11, <2>7 DEF Position, OutputInv, BuffersFit
    <2>12. d \in 0 .. Len(File) /\ Clean(block - 1) /\ output' = Stretch(d, 0)
      BY <1>2, <2>4, <2>9, <2>10, <2>11
    <2>13. Promise!FlawShows
      <3>1. File[block].flaw # "none" /\ ~Promise!BehindData(File[block].flaw)
        BY <2>3 DEF Promise!BehindData
      <3> QED BY <2>4, <2>10, <2>12, <3>1, FlawReached
    <2>14. Promise!Ends
      BY <2>2, <2>13, EndsWithFlaw
    <2> QED BY <1>1, <1>2, <1>3, <2>2, <2>14, FailsData
  <1> QED BY <1>4, <1>7, <1>8, <1>9, <1>10, <1>11

-----------------------------------------------------------------------------
(* Where reading is in the queue's head, through the queue's operations.   *)
Shaped(r) ==
  r = [active |-> r.active, cache |-> r.cache, read_pos |-> r.read_pos,
       mem_allocated |-> r.mem_allocated, mem_in_use |-> r.mem_in_use]

LEMMA CachePos ==
  ASSUME NEW r, Shaped(r), NEW c, NEW k, k = [r EXCEPT !.cache = c]
  PROVE  Shaped(k) /\ k.read_pos = r.read_pos
  <1>1. PICK a, h, p, m, u : r = [active |-> a, cache |-> h, read_pos |-> p, mem_allocated |-> m, mem_in_use |-> u]
    BY DEF Shaped
  <1> QED BY <1>1 DEF Shaped

LEMMA AllocPos ==
  ASSUME NEW r, Shaped(r), NEW c, NEW k, k = [r EXCEPT !.mem_allocated = c]
  PROVE  Shaped(k) /\ k.read_pos = r.read_pos
  <1>1. PICK a, h, p, m, u : r = [active |-> a, cache |-> h, read_pos |-> p, mem_allocated |-> m, mem_in_use |-> u]
    BY DEF Shaped
  <1> QED BY <1>1 DEF Shaped

LEMMA ActivePos ==
  ASSUME NEW r, Shaped(r), NEW c, NEW k, k = [r EXCEPT !.active = c]
  PROVE  Shaped(k) /\ k.read_pos = r.read_pos
  <1>1. PICK a, h, p, m, u : r = [active |-> a, cache |-> h, read_pos |-> p, mem_allocated |-> m, mem_in_use |-> u]
    BY DEF Shaped
  <1> QED BY <1>1 DEF Shaped

LEMMA PosSet ==
  ASSUME NEW r, Shaped(r), NEW c, NEW k, k = [r EXCEPT !.read_pos = c]
  PROVE  Shaped(k) /\ k.read_pos = c
  <1>1. PICK a, h, p, m, u : r = [active |-> a, cache |-> h, read_pos |-> p, mem_allocated |-> m, mem_in_use |-> u]
    BY DEF Shaped
  <1> QED BY <1>1 DEF Shaped

LEMMA ClearPos ==
  ASSUME NEW r, Shaped(r)
  PROVE  Shaped(ClearCache(r)) /\ ClearCache(r).read_pos = r.read_pos
  <1>1. PICK m, e : m = r.mem_allocated - UsageOf(r.cache) /\ e = <<>>
    OBVIOUS
  <1>2. PICK j : j = [r EXCEPT !.cache = e]
    OBVIOUS
  <1>3. Shaped(j) /\ j.read_pos = r.read_pos
    BY <1>2, CachePos
  <1>4. ClearCache(r) = [j EXCEPT !.mem_allocated = m]
    BY <1>1, <1>2 DEF ClearCache
  <1> QED BY <1>3, <1>4, AllocPos

LEMMA TrimPos ==
  ASSUME NEW r, Shaped(r), NEW size
  PROVE  Shaped(ClearCacheKeep(r, size)) /\ ClearCacheKeep(r, size).read_pos = r.read_pos
  <1>1. PICK c : c = ClearCache(r)
    OBVIOUS
  <1>2. Shaped(c) /\ c.read_pos = r.read_pos
    BY <1>1, ClearPos
  <1>3. PICK m, e : m = c.mem_allocated + Usage(size) /\ e = <<size>>
    OBVIOUS
  <1>4. PICK j : j = [c EXCEPT !.cache = e]
    OBVIOUS
  <1>5. Shaped(j) /\ j.read_pos = c.read_pos
    BY <1>2, <1>4, CachePos
  <1>6. PICK k : k = [j EXCEPT !.mem_allocated = m]
    OBVIOUS
  <1>7. Shaped(k) /\ k.read_pos = j.read_pos
    BY <1>5, <1>6, AllocPos
  <1>8. ClearCacheKeep(r, size) \in {c, k}
    BY <1>1, <1>3, <1>4, <1>6 DEF ClearCacheKeep
  <1> QED BY <1>2, <1>5, <1>7, <1>8

LEMMA PreallocPos ==
  ASSUME NEW r, Shaped(r), NEW size
  PROVE  Shaped(PreallocBuf(r, size)) /\ PreallocBuf(r, size).read_pos = r.read_pos
  <1>1. PICK c : c = ClearCache(r)
    OBVIOUS
  <1>2. Shaped(c) /\ c.read_pos = r.read_pos
    BY <1>1, ClearPos
  <1>3. PICK m, e : m = c.mem_allocated + Usage(size) /\ e = <<size>>
    OBVIOUS
  <1>4. PICK j : j = [c EXCEPT !.cache = e]
    OBVIOUS
  <1>5. Shaped(j) /\ j.read_pos = c.read_pos
    BY <1>2, <1>4, CachePos
  <1>6. PICK k : k = [j EXCEPT !.mem_allocated = m]
    OBVIOUS
  <1>7. Shaped(k) /\ k.read_pos = j.read_pos
    BY <1>5, <1>6, AllocPos
  <1>8. PreallocBuf(r, size) \in {r, k}
    BY <1>1, <1>3, <1>4, <1>6 DEF PreallocBuf
  <1> QED BY <1>2, <1>5, <1>7, <1>8

LEMMA GetPos ==
  ASSUME NEW r, Shaped(r), NEW job, NEW worker
  PROVE  /\ GetBuf(r, job, worker).read_pos = r.read_pos
         /\ GetBuf(r, job, worker).active = Append(r.active, FreshBuf(job, Last(r.cache), worker))
  <1>1. PICK a, h, p, m, u : r = [active |-> a, cache |-> h, read_pos |-> p, mem_allocated |-> m, mem_in_use |-> u]
    BY DEF Shaped
  <1>2. PICK f, s, v : f = Front(h) /\ s = Append(a, FreshBuf(job, Last(h), worker)) /\ v = u + Usage(Last(h))
    OBVIOUS
  <1>3. GetBuf(r, job, worker) = [r EXCEPT !.cache = f, !.active = s, !.mem_in_use = v]
    BY <1>1, <1>2 DEF GetBuf
  <1> QED BY <1>1, <1>2, <1>3

LEMMA TakenPos ==
  ASSUME NEW r, Shaped(r)
  PROVE  Shaped(TakeHeadWorker(r)) /\ TakeHeadWorker(r).read_pos = r.read_pos
  <1>1. PICK c : c = [r.active EXCEPT ![1].worker = NoWorker]
    OBVIOUS
  <1>2. PICK k : k = [r EXCEPT !.active = c]
    OBVIOUS
  <1>3. TakeHeadWorker(r) \in {r, k}
    <2>1. [r EXCEPT !.active[1].worker = NoWorker] = k
      BY <1>1, <1>2
    <2> QED BY <2>1 DEF TakeHeadWorker
  <1>4. Shaped(k) /\ k.read_pos = r.read_pos
    BY <1>2, ActivePos
  <1> QED BY <1>3, <1>4

LEMMA ReadOnPos ==
  ASSUME NEW r, Shaped(r), NEW room, ~Drains(r, room)
  PROVE  Shaped(Read(r, room)) /\ Read(r, room).read_pos = r.read_pos + Available(r, room)
  <1>1. PICK p : p = r.read_pos + Available(r, room)
    OBVIOUS
  <1>2. Read(r, room) = [r EXCEPT !.read_pos = p]
    BY <1>1 DEF Read
  <1> QED BY <1>1, <1>2, PosSet

LEMMA ReadOutPos ==
  ASSUME NEW r, Shaped(r), NEW room, Drains(r, room)
  PROVE  Shaped(Read(r, room)) /\ Read(r, room).read_pos = 0
  <1>1. PICK a, h, p, m, u : r = [active |-> a, cache |-> h, read_pos |-> p, mem_allocated |-> m, mem_in_use |-> u]
    BY DEF Shaped
  <1>2. PICK t, zero, v : t = Tail(a) /\ zero = 0 /\ v = u - Usage(Head(a).size)
    OBVIOUS
  <1>3. PICK k : k = PopHead(r)
    OBVIOUS
  <1>4. k = [r EXCEPT !.active = t, !.read_pos = zero, !.mem_in_use = v]
    BY <1>1, <1>2, <1>3 DEF PopHead
  <1>5. Shaped(k) /\ k.read_pos = zero
    BY <1>1, <1>4 DEF Shaped
  <1>6. PICK size : size = Head(r.active).size
    OBVIOUS
  <1>7. Read(r, room) = Recycle(k, size)
    BY <1>3, <1>6 DEF Read
  <1>8. PICK l : l = IF k.cache # <<>> /\ Last(k.cache) # size THEN ClearCache(k) ELSE k
    OBVIOUS
  <1>9. Shaped(l) /\ l.read_pos = zero
    BY <1>5, <1>8, ClearPos
  <1>10. PICK c : c = Append(l.cache, size)
    OBVIOUS
  <1>11. Recycle(k, size) = [l EXCEPT !.cache = c]
    BY <1>8, <1>10 DEF Recycle
  <1> QED BY <1>2, <1>7, <1>9, <1>11, CachePos

LEMMA QueueShaped == ASSUME IInv PROVE Shaped(outq) /\ outq.active \in Seq(Buffer) /\ IsQueue(outq, Buffer, Nat)
  BY DEF IInv, Types, IsQueue, Shaped

LEMMA SameBuffersOut ==
  ASSUME IInv, outq'.active = outq.active, outq'.read_pos = outq.read_pos
  PROVE  SameOut
  BY QueueShaped DEF SameOut, Alike

-----------------------------------------------------------------------------
(* Calls, and steps that change what threads have but not what they decode. *)
LEMMA EndsData ==
  ASSUME DataInv, pc' \in {"join", "ended"}, UNCHANGED <<setup, output, gave_up, pending, ret, space>>
  PROVE  Faithful
  <1>1. DataInv'
    BY DEF DataInv, CallFits, Live
  <1> QED BY <1>1, PromiseStutters DEF Faithful

LEMMA EndData == ASSUME DataInv, End PROVE Faithful
  BY EndsData DEF End, GoTo, call, flow, hist

LEMMA JoinData == ASSUME DataInv, Join PROVE Faithful
  BY EndsData DEF Join, GoTo, call, flow, hist

LEMMA SetMemlimitData == ASSUME IInv, DataInv, SetMemlimit PROVE Faithful
  <1>1. /\ pc = "app" /\ pc' = "app" /\ UNCHANGED <<action, pending>> /\ pending \in {"RUN", "FINISH"}
        /\ UNCHANGED <<setup, gave_up, outq, wl, ws, block, direct, thr, thread_error, pending_error, sequence>>
        /\ UNCHANGED flow
    BY DEF SetMemlimit, call, shared, hist
  <1>2. Live /\ UNCHANGED <<output, space, eaten>>
    BY <1>1 DEF Live, flow
  <1>3. Stands
    BY <1>1, <1>2 DEF Stands
  <1>4. /\ Placed' /\ Parsed' /\ Drained' /\ Faults' /\ Position' = Position
        /\ \A n \in Nat : Handed(n) => Handed(n)'
    BY <1>2, <1>3, StandsData
  <1>5. CallFits'
    <2>1. space' \in Nat
      BY <1>2 DEF DataInv, CallFits
    <2>2. Flows
      BY <1>1, Stays DEF IInv
    <2> QED BY <1>1, <1>2, <2>1, <2>2, CallStays
  <1> QED BY <1>1, <1>2, <1>4, <1>5, QuietData

LEMMA CallData == ASSUME IInv, DataInv, Call PROVE Faithful
  <1>1. /\ pc = "app" /\ pc' = "code" /\ pending' = action' /\ pending \in {"RUN", "FINISH"}
        /\ UNCHANGED <<setup, outq, wl, ws, block, direct, thr, thread_error, pending_error, sequence>>
        /\ UNCHANGED <<eaten, output>> /\ space' \in setup.spaces
    BY DEF Call, kept, shared
  <1>2. \/ pending = "RUN" /\ action' = "RUN" /\ gave_up' = gave_up
        \/ /\ action' = "FINISH" /\ avail' \in {Rest, avail} /\ gave_up' = (gave_up \/ avail' < Rest)
        \/ pending = "FINISH" /\ action' = "FINISH" /\ UNCHANGED <<avail, gave_up>>
    BY DEF Call
  <1>3. Live /\ CallFits
    BY <1>1 DEF Live, DataInv
  <1>4. Stands
    BY <1>1 DEF Stands
  <1>5. /\ Placed' /\ Parsed' /\ Drained' /\ Faults' /\ Position' = Position
        /\ \A n \in Nat : Handed(n) => Handed(n)'
    BY <1>3, <1>4, StandsData
  <1>6. FileSize \in Nat /\ eaten \in Nat /\ avail \in Nat /\ avail + eaten <= FileSize /\ FileSize' = FileSize
        /\ setup \in Setups
    BY <1>1, Places, SameFile
  <1>7. space' \in Nat
    <2>1. setup \in SetupRecord
      BY <1>6, StreamDecoderAssumption
    <2>2. setup.spaces \subseteq Nat
      BY <2>1 DEF SetupRecord
    <2> QED BY <1>1, <2>2
  <1>8. pending' \in {"RUN", "FINISH"} /\ (gave_up => gave_up')
    <2>1. pending' \in {"RUN", "FINISH"}
      BY <1>1, <1>2
    <2>2. CASE gave_up' = gave_up
      BY <2>1, <2>2
    <2>3. CASE gave_up' = (gave_up \/ avail' < Rest)
      BY <2>1, <2>3, Zenon
    <2> QED BY <1>2, <2>2, <2>3
  <1>9. action' = "FINISH" => gave_up' \/ avail' + eaten' = FileSize'
    <2>1. CASE pending = "FINISH" /\ UNCHANGED <<avail, gave_up>>
      BY <1>1, <1>3, <1>6, <2>1 DEF CallFits
    <2>2. CASE avail' \in {Rest, avail} /\ gave_up' = (gave_up \/ avail' < Rest)
      <3>1. Rest \in Nat /\ Rest + eaten = FileSize /\ avail <= Rest
        BY <1>6 DEF Rest
      <3>2. avail' = Rest \/ avail' < Rest
        BY <1>6, <2>2, <3>1
      <3> QED BY <1>1, <1>6, <2>2, <3>1, <3>2
    <2> QED BY <1>2, <2>1, <2>2
  <1>10. CallFits'
    BY <1>1, <1>7, <1>8, <1>9 DEF CallFits, Live
  <1> QED BY <1>1, <1>3, <1>5, <1>8, <1>10, QuietData

(* The application's thread goes on making room for a Block, or starting a *)
(* thread or direct mode, with the same input.                             *)
Making ==
  /\ UNCHANGED <<setup, output, gave_up, block, eaten, avail, direct, thr, thread_error, pending_error,
                 pending, action, space>>
  /\ pc \in {"free", "start", "partial", "direct"}
  /\ sequence' = sequence \/ (sequence = "BLOCK_THR_INIT" /\ sequence' = "BLOCK_THR_RUN" /\ pc = "partial")
  /\ (Fresh' <=> Fresh) /\ pc' \notin {"app", "join", "ended"}

LEMMA MakingData ==
  ASSUME IInv, DataInv, Making, SameOut, SameWorkers, Placed'
  PROVE  Faithful
  <1>1. Live /\ pending \in {"RUN", "FINISH"} /\ Parsed /\ Drained /\ Faults /\ CallFits
    BY LiveHere DEF Making, DataInv, InputInv, OutputInv
  <1>2. sequence \in {"BLOCK_THR_INIT", "BLOCK_DIRECT_INIT"} /\ File' = File
        /\ sequence' \in {"BLOCK_THR_INIT", "BLOCK_DIRECT_INIT", "BLOCK_THR_RUN"}
    BY DEF IInv, Where, Making, File
  <1>3. Parsed'
    BY <1>1, <1>2 DEF Parsed, BehindBlock, BeforeRecord, Making
  <1>4. ASSUME NEW n \in Nat PROVE Handed(n) => Handed(n)'
    <2>1. block' = block /\ (Fresh' <=> Fresh)
      BY DEF Making
    <2> QED BY <1>2, <2>1 DEF Handed
  <1>5. Drained'
    BY <1>2 DEF Drained
  <1>6. Faults'
    <2>1. pending_error # "DATA_ERROR"
      BY <1>1, <1>2 DEF Faults
    <2> QED BY <1>1, <2>1, FaultsStay DEF Making
  <1>7. CallFits'
    <2>1. FileSize' = FileSize
      BY <1>2 DEF FileSize, Before
    <2> QED BY <1>1, <2>1 DEF CallFits, Live, Making
  <1>8. Position' = Position
    BY <1>2 DEF Position, SameOut
  <1> QED BY <1>1, <1>3, <1>4, <1>5, <1>6, <1>7, <1>8, SteadyData DEF Making

LEMMA NobodyWorks ==
  ASSUME DataInv, Live, outq.active = <<>>
  PROVE  \A w \in Worker : ~AtWork(w)
  <1>1. DOMAIN outq.active = {}
    OBVIOUS
  <1> QED BY <1>1 DEF DataInv, WorkInv, WorkFits

LEMMA GoDirectData == ASSUME IInv, DataInv, GoDirect PROVE Faithful
  <1>1. /\ pc = "direct" /\ pc' = "joindirect" /\ UNCHANGED <<action, pending>> /\ UNCHANGED flow
        /\ UNCHANGED <<setup, gave_up, wl, block, direct, thr, thread_error, pending_error, sequence>>
        /\ outq' = ClearCache(outq) /\ ws' = Told("EXIT")
    BY DEF GoDirect, GoTo, call, coder, kept, hist
  <1>2. sequence = "BLOCK_DIRECT_INIT" /\ outq.active = <<>> /\ Live /\ Placed
    BY <1>1, LiveHere DEF IInv, Where, DataInv, InputInv
  <1>3. Making
    BY <1>1, <1>2 DEF Making, flow, Fresh
  <1>4. SameOut
    <2>1. outq'.active = outq.active /\ outq'.read_pos = outq.read_pos
      <3>1. /\ IsQueue(ClearCache(outq), Buffer, Nat)
            /\ ClearCache(outq).active = outq.active /\ ClearCache(outq).mem_in_use = outq.mem_in_use
            /\ ClearCache(outq).cache = <<>>
            /\ ClearCache(outq).mem_allocated = outq.mem_allocated - UsageOf(outq.cache)
        BY QueueShaped, ClearedCache
      <3>2. ClearCache(outq).read_pos = outq.read_pos
        BY QueueShaped, ClearPos
      <3> QED BY <1>1, <3>1, <3>2
    <2> QED BY <2>1, SameBuffersOut
  <1>5. SameWorkers
    <2>1. ASSUME NEW w \in Worker PROVE ws'[w].job = ws[w].job /\ ~AtWork(w) /\ ~AtWork(w)'
      <3>1. ~AtWork(w)
        BY <1>2, NobodyWorks
      <3>2. PICK x \in WorkerRecord : x = ws[w]
        BY DEF IInv, Types
      <3>3. PICK y : y = [x EXCEPT !.state = "EXIT"]
        OBVIOUS
      <3>4. y.state = "EXIT" /\ y.job = x.job
        BY <3>3 DEF WorkerRecord
      <3>5. ws'[w] = x \/ ws'[w] = y
        BY <1>1, <3>2, <3>3 DEF Told
      <3>6. ws'[w].job = ws[w].job /\ ws'[w].state # "RUN"
        BY <3>1, <3>2, <3>4, <3>5 DEF AtWork
      <3> QED BY <1>1, <3>1, <3>6 DEF AtWork
    <2> QED BY <1>1, <2>1 DEF SameWorkers
  <1>6. Placed'
    <2>1. DataStart' = DataStart
      BY <1>1, SameFile
    <2> QED BY <1>1, <1>2, <2>1 DEF Placed, flow
  <1> QED BY <1>3, <1>4, <1>5, <1>6, MakingData

LEMMA MakeRoomData == ASSUME IInv, DataInv, MakeRoom PROVE Faithful
  <1>1. /\ pc = "free" /\ pc' = "get" /\ UNCHANGED <<action, pending>> /\ UNCHANGED flow
        /\ UNCHANGED <<setup, gave_up, wl, block, direct, thr, thread_error, pending_error, sequence>>
        /\ outq' \in {outq, ClearCacheKeep(outq, File[block].out)}
    BY DEF MakeRoom, GoTo, call, coder, kept, hist
  <1>2. PICK freed : ws' = [w \in Worker |-> IF w \in freed THEN [ws[w] EXCEPT !.mem_filters = 0] ELSE ws[w]]
    BY DEF MakeRoom
  <1>3. sequence = "BLOCK_THR_INIT" /\ Live /\ Placed
    BY <1>1, LiveHere DEF IInv, Where, DataInv, InputInv
  <1>4. Making
    BY <1>1, <1>3 DEF Making, flow, Fresh
  <1>5. SameOut
    <2>1. File[block].out \in Nat
      BY <1>3, NextType DEF IInv, InputFits, AtBlock
    <2>2. outq'.active = outq.active /\ outq'.read_pos = outq.read_pos
      BY <1>1, <2>1, QueueShaped, TrimmedCache, TrimPos
    <2> QED BY <2>2, SameBuffersOut
  <1>6. SameWorkers
    <2>1. ASSUME NEW w \in Worker PROVE ws'[w].job = ws[w].job /\ ws'[w].state = ws[w].state
      <3>1. PICK x \in WorkerRecord : x = ws[w]
        BY DEF IInv, Types
      <3>2. PICK y : y = [x EXCEPT !.mem_filters = 0]
        OBVIOUS
      <3>3. y.state = x.state /\ y.job = x.job
        BY <3>2 DEF WorkerRecord
      <3> QED BY <1>2, <3>1, <3>2, <3>3
    <2> QED BY <1>1, <2>1 DEF SameWorkers, AtWork
  <1>7. Placed'
    <2>1. DataStart' = DataStart
      BY <1>1, SameFile
    <2> QED BY <1>1, <1>3, <2>1 DEF Placed, flow
  <1> QED BY <1>4, <1>5, <1>6, <1>7, MakingData

LEMMA StartThreadData == ASSUME IInv, DataInv, StartThread PROVE Faithful
  <1>1. /\ pc = "start" /\ pc' = "partial" /\ UNCHANGED <<action, pending>> /\ UNCHANGED flow
        /\ UNCHANGED <<setup, gave_up, wl, block, direct, thr, thread_error, pending_error, sequence, outq>>
        /\ ws' = [ws EXCEPT ![thr].state = "RUN"]
    BY DEF StartThread, GoTo, call, coder, kept, shared, hist
  <1>2. sequence = "BLOCK_THR_INIT" /\ Live /\ Placed /\ thr \in Worker
    BY <1>1, LiveHere, FedTyped DEF IInv, Where, DataInv, InputInv, Fed
  <1>3. Making
    BY <1>1, <1>2 DEF Making, flow, Fresh
  <1>4. SameOut
    BY <1>1, QueueUntouched
  <1>5. PICK x \in WorkerRecord : x = ws[thr]
    BY <1>2 DEF IInv, Types
  <1>6. PICK y : y = [x EXCEPT !.state = "RUN"]
    OBVIOUS
  <1>7. y.state = "RUN" /\ y.job = x.job /\ y.in_filled = x.in_filled
    BY <1>6 DEF WorkerRecord
  <1>8. ws'[thr] = y /\ \A w \in Worker : w # thr => ws'[w] = ws[w]
    BY <1>1, <1>2, <1>5, <1>6 DEF IInv, Types
  <1>9. SameWorkers
    <2>1. ASSUME NEW w \in Worker PROVE ws'[w].job = ws[w].job /\ (AtWork(w)' <=> AtWork(w))
      <3>1. CASE w = thr
        BY <1>1, <1>5, <1>7, <1>8, <3>1 DEF AtWork
      <3>2. CASE w # thr
        BY <1>1, <1>8, <3>2 DEF AtWork
      <3> QED BY <3>1, <3>2
    <2> QED BY <1>1, <2>1 DEF SameWorkers
  <1>10. Placed'
    <2>1. DataStart' = DataStart
      BY <1>1, SameFile
    <2> QED BY <1>1, <1>2, <1>5, <1>7, <1>8, <2>1 DEF Placed, flow
  <1> QED BY <1>3, <1>4, <1>9, <1>10, MakingData

(* take_head_worker changes nothing of what is decoded.                    *)
LEMMA HeadForgotten ==
  ASSUME NEW r, IsQueue(r, Buffer, Nat)
  PROVE  LET k == TakeHeadWorker(r)
         IN /\ k.active \in Seq(Buffer) /\ Len(k.active) = Len(r.active)
            /\ \A i \in DOMAIN r.active : Alike(k.active[i], r.active[i])
            /\ k.read_pos = r.read_pos
  <1>1. CASE HeadWorker(r) = NoWorker
    BY <1>1 DEF TakeHeadWorker, IsQueue, Alike
  <1>2. CASE HeadWorker(r) # NoWorker
    <2>1. r.active \in Seq(Buffer) /\ r.active # <<>>
      BY <1>2 DEF HeadWorker, IsQueue
    <2>2. PICK b \in Seq(Buffer) : b = r.active
      BY <2>1
    <2>3. Len(b) \in Nat \ {0} /\ b[1] \in Buffer
      BY <2>1, <2>2
    <2>4. PICK d \in Buffer : d = b[1]
      BY <2>3
    <2>5. PICK none \in Worker \cup {NoWorker} : none = NoWorker
      OBVIOUS
    <2>6. PICK e : e = [d EXCEPT !.worker = none]
      OBVIOUS
    <2>7. e \in Buffer /\ Alike(e, d)
      BY <2>6 DEF Buffer, Alike
    <2>8. PICK a : a = [b EXCEPT ![1] = e]
      OBVIOUS
    <2>9. /\ a \in Seq(Buffer) /\ Len(a) = Len(b) /\ a[1] = e
          /\ \A i \in 1 .. Len(b) : i # 1 => a[i] = b[i]
      BY <2>3, <2>7, <2>8
    <2>10. PICK k : k = [r EXCEPT !.active = a]
      OBVIOUS
    <2>11. k = TakeHeadWorker(r)
      BY <1>2, <2>2, <2>4, <2>5, <2>6, <2>8, <2>10 DEF TakeHeadWorker
    <2>12. k.active = a
      BY <2>9, <2>10, SetActive
    <2>13. k.read_pos = r.read_pos
      BY <2>11, TakenPos DEF IsQueue, Shaped
    <2>14. \A i \in 1 .. Len(b) : Alike(a[i], b[i])
      BY <2>4, <2>7, <2>9 DEF Alike
    <2> QED BY <2>2, <2>9, <2>11, <2>12, <2>13, <2>14
  <1> QED BY <1>1, <1>2

LEMMA AskedWork ==
  ASSUME IInv, NEW r, ws' = AskedForPartial(r)
  PROVE  \A w \in Worker : /\ ws'[w].job = ws[w].job /\ ws'[w].state = ws[w].state
                           /\ ws'[w].in_filled = ws[w].in_filled
  <1>1. PICK h : h = HeadWorker(r)
    OBVIOUS
  <1>2. ASSUME NEW w \in Worker
        PROVE /\ ws'[w].job = ws[w].job /\ ws'[w].state = ws[w].state /\ ws'[w].in_filled = ws[w].in_filled
    <2>1. PICK x \in WorkerRecord : x = ws[w]
      BY DEF IInv, Types
    <2>2. PICK y : y = [x EXCEPT !.partial = "START"]
      OBVIOUS
    <2>3. y.state = x.state /\ y.job = x.job /\ y.in_filled = x.in_filled
      BY <2>2 DEF WorkerRecord
    <2>4. ws'[w] = x \/ ws'[w] = y
      BY <1>1, <2>1, <2>2 DEF AskedForPartial, IInv, Types
    <2> QED BY <2>1, <2>3, <2>4
  <1> QED BY <1>2

LEMMA EnablePartialData == ASSUME IInv, DataInv, EnablePartial PROVE Faithful
  <1>1. /\ pc = "partial" /\ pc' = "code" /\ UNCHANGED <<action, pending>> /\ UNCHANGED flow
        /\ UNCHANGED <<setup, gave_up, wl, block, direct, thr, thread_error, pending_error>>
        /\ outq' = TakeHeadWorker(outq) /\ ws' = AskedForPartial(outq) /\ sequence' = "BLOCK_THR_RUN"
    BY DEF EnablePartial, GoTo, call, kept, hist
  <1>2. sequence = "BLOCK_THR_INIT" /\ Live /\ Placed /\ thr \in Worker
    BY <1>1, LiveHere, FedTyped DEF IInv, Where, DataInv, InputInv, Fed
  <1>3. Making
    BY <1>1, <1>2 DEF Making, flow, Fresh
  <1>4. SameOut
    BY <1>1, QueueShaped, HeadForgotten DEF SameOut
  <1>5. \A w \in Worker : /\ ws'[w].job = ws[w].job /\ ws'[w].state = ws[w].state
                          /\ ws'[w].in_filled = ws[w].in_filled
    BY <1>1, AskedWork
  <1>6. SameWorkers
    BY <1>1, <1>5 DEF SameWorkers, AtWork
  <1>7. Placed'
    <2>1. DataStart' = DataStart
      BY <1>1, SameFile
    <2>2. ws'[thr].in_filled = 0 /\ eaten = DataStart
      BY <1>1, <1>2, <1>5 DEF Placed
    <2>3. DataStart \in Nat
      BY <1>2, PlacesOf DEF IInv, InputFits, AtBlock
    <2>4. eaten' = DataStart' + ws'[thr'].in_filled
      BY <1>1, <2>1, <2>2, <2>3 DEF flow
    <2> QED BY <1>1, <2>4 DEF Placed
  <1> QED BY <1>3, <1>4, <1>6, <1>7, MakingData

(* A Block of which input is missing is not where the file ends.           *)
LEMMA FileEndsLater ==
  ASSUME IInv, block # 0
  PROVE  DataEnd \in Nat /\ DataEnd <= FileSize
  <1>1. /\ block \in Nat /\ block <= Len(File) /\ Len(File) \in Nat /\ setup \in Setups
        /\ NextStart \in Nat /\ FileSize \in Nat
        /\ block < Len(File) => NextStart < FileSize
        /\ block = Len(File) => NextStart - 1 = FileSize
    BY Places
  <1>2. /\ block \in 1 .. Len(File) /\ DataEnd \in Nat
        /\ (File[block].last => NextStart >= DataEnd + 3)
        /\ (~File[block].last => NextStart = DataEnd)
    BY PlacesOf
  <1>3. CASE File[block].last
    <2>1. NextStart - 1 <= FileSize
      BY <1>1
    <2> QED BY <1>1, <1>2, <1>3, <2>1
  <1>4. CASE ~File[block].last
    <2>1. block # Len(File)
      BY <1>1, <1>4, FileType
    <2> QED BY <1>1, <1>2, <1>4, <2>1
  <1> QED BY <1>3, <1>4

LEMMA BlockThrRunData == ASSUME IInv, DataInv, BlockThrRun PROVE Faithful
  <1>1. /\ UNCHANGED <<setup, gave_up, outq, wl, thread_error>> /\ pc = "code" /\ sequence = "BLOCK_THR_RUN"
        /\ UNCHANGED <<sequence, block, thr, direct, pending_error>>
    BY DEF BlockThrRun, coder, kept, shared, hist
  <1>2. /\ Live /\ pending \in {"RUN", "FINISH"} /\ Placed /\ Parsed /\ Drained /\ Faults /\ space \in Nat /\ CallFits
    BY <1>1, LiveHere DEF DataInv, InputInv, OutputInv, CallFits
  <1>3. InputFits /\ Fed /\ avail \in Nat /\ block # 0
    BY <1>1 DEF IInv, Fed, InputFits, AtBlock
  <1>4. PICK x \in WorkerRecord : x = ws[thr]
    BY <1>3, FedTyped
  <1>5. /\ x.in_filled \in Nat /\ x.in_filled <= File[block].in /\ File[block].in \in Nat /\ thr \in Worker
    BY <1>3, <1>4, FedTyped DEF IInv, ThreadInv, FedSound, WorkerRecord
  <1>6. eaten = DataStart + x.in_filled /\ DataStart \in Nat /\ DataEnd = DataStart + File[block].in
    BY <1>1, <1>2, <1>3, <1>4, PlacesOf DEF Placed
  <1>7. CASE CutOff /\ avail < Wanted
    <2>1. UNCHANGED flow /\ StopAndFail("DATA_ERROR")
      BY <1>7 DEF BlockThrRun
    <2>2. pc' = "app" /\ pending' = "Error" /\ ret' = "DATA_ERROR"
      BY <2>1, ReturnsCall DEF StopAndFail
    <2>3. avail + eaten # FileSize
      <3>1. avail < File[block].in - x.in_filled
        BY <1>4, <1>7 DEF Wanted
      <3>2. avail + eaten < DataEnd
        BY <1>3, <1>5, <1>6, <3>1
      <3>3. DataEnd \in Nat /\ DataEnd <= FileSize
        BY <1>3, FileEndsLater
      <3>4. FileSize \in Nat
        BY Places
      <3>5. avail + eaten \in Nat
        BY <1>3, <1>5, <1>6
      <3> QED BY <3>2, <3>3, <3>4, <3>5
    <2>4. gave_up /\ setup.fail_fast
      BY <1>2, <1>7, <2>3 DEF CutOff, CallFits
    <2>5. Promise!FlawShows
      BY <1>1, <2>4 DEF Promise!FlawShows
    <2>6. Promise!Ends
      BY <2>2, <2>5, EndsWithFlaw
    <2> QED BY <1>1, <1>2, <2>1, <2>2, <2>6, FailsData DEF flow
  <1>8. CASE ~(CutOff /\ avail < Wanted)
    <2>1. PICK n : n = SmallerOf(Wanted, avail)
      OBVIOUS
    <2>2. /\ ws' = [ws EXCEPT ![thr].in_filled = @ + n] /\ Consume(n)
          /\ pc' = "read" /\ UNCHANGED <<action, pending>>
      BY <1>8, <2>1 DEF BlockThrRun, EnterWait, GoTo, call
    <2>3. n \in 0 .. avail /\ n <= File[block].in - x.in_filled
      BY <1>3, <1>4, <1>5, <2>1 DEF Wanted, SmallerOf
    <2>4. PICK y : y = [x EXCEPT !.in_filled = @ + n]
      OBVIOUS
    <2>5. y.in_filled = x.in_filled + n /\ y.state = x.state /\ y.job = x.job
      BY <2>4 DEF WorkerRecord
    <2>6. ws'[thr] = y /\ \A w \in Worker : w # thr => ws'[w] = ws[w]
      BY <1>4, <1>5, <2>2, <2>4 DEF IInv, Types
    <2>7. SameWorkers
      <3>1. ASSUME NEW w \in Worker PROVE ws'[w].job = ws[w].job /\ ws'[w].state = ws[w].state
        BY <1>4, <2>5, <2>6
      <3> QED BY <1>1, <2>2, <3>1 DEF SameWorkers, AtWork
    <2>8. Flows /\ UNCHANGED <<output, space>> /\ eaten' = eaten + n
      BY <1>3, <2>2, <2>3, Consumes DEF Consume
    <2>9. CallFits'
      BY <1>1, <1>2, <2>2, <2>8, CallStays
    <2>10. SameOut
      BY <1>1, QueueUntouched
    <2>11. Placed'
      <3>1. DataStart' = DataStart
        BY <1>1, SameFile
      <3>2. eaten' = DataStart' + ws'[thr'].in_filled
        BY <1>1, <1>5, <1>6, <2>3, <2>5, <2>6, <2>8, <3>1
      <3> QED BY <1>1, <2>2, <3>2 DEF Placed
    <2>12. Parsed'
      BY <1>1, <1>2 DEF Parsed, BehindBlock, BeforeRecord, File
    <2>13. ASSUME NEW m \in Nat PROVE Handed(m) => Handed(m)'
      BY <1>1, <2>2 DEF Handed, Fresh, File
    <2>14. Drained' /\ Position' = Position
      BY <1>1, <1>2 DEF Drained, Position
    <2>15. Faults'
      BY <1>1, <1>2, <2>10, FaultsStay
    <2> QED BY <1>1, <1>2, <2>2, <2>7, <2>8, <2>9, <2>10, <2>11, <2>12, <2>13, <2>14, <2>15, SteadyData
  <1> QED BY <1>7, <1>8

(* Everything but what is in direct mode's way stays.                      *)
LEMMA BlockDirectRunData == ASSUME IInv, DataInv, BlockDirectRun PROVE Faithful
  <1>1. /\ UNCHANGED <<setup, gave_up, outq, ws, wl, thread_error, pending_error, block, thr>>
        /\ pc = "code" /\ sequence = "BLOCK_DIRECT_RUN"
    BY DEF BlockDirectRun, shared, hist
  <1>2. /\ Live /\ pending \in {"RUN", "FINISH"} /\ Placed /\ Parsed /\ Drained /\ Faults /\ space \in Nat /\ CallFits
        /\ InputInv /\ OutputInv /\ WorkInv /\ BuffersFit
    BY <1>1, LiveHere DEF DataInv, InputInv, OutputInv, CallFits
  <1>3. InputFits /\ setup \in Setups /\ avail \in Nat /\ eaten \in Nat /\ block # 0 /\ File' = File
    BY <1>1 DEF IInv, InputFits, AtBlock, File
  <1>4. /\ block \in 1 .. Len(File) /\ Len(File) \in Nat /\ File[block].in \in Nat \ {0}
        /\ File[block].out \in Nat
    BY <1>3, PlacesOf, FileType
  <1>5. /\ direct.in \in 0 .. File[block].in /\ direct.out \in 0 .. Decoded(File[block], direct.in)
        /\ direct = [in |-> direct.in, out |-> direct.out, mem |-> direct.mem]
    BY <1>1, <1>2, <1>3 DEF InputFits, Drained
  <1>6. PICK b : b = File[block]
    OBVIOUS
  <1>7. PICK c \in Coded(b, direct, avail, space) :
          /\ direct' = [direct EXCEPT !.in = c.d.in, !.out = c.d.out]
          /\ avail' = avail - (c.d.in - direct.in) /\ eaten' = eaten + (c.d.in - direct.in)
          /\ space' = space - (c.d.out - direct.out)
          /\ output' = output \o [i \in 1 .. c.d.out - direct.out |-> <<block, direct.out + i>>]
          /\ \/ c.ret = "STREAM_END" /\ b.flaw # "record" /\ sequence' = "BLOCK_HEADER" /\ GoTo("code")
             \/ c.ret = "STREAM_END" /\ b.flaw = "record" /\ Return("DATA_ERROR") /\ UNCHANGED sequence
             \/ c.ret # "STREAM_END" /\ Return(c.ret) /\ UNCHANGED sequence
    BY <1>6 DEF BlockDirectRun, Unrecorded
  <1>8. /\ c.d.in \in direct.in .. b.in /\ c.d.in <= direct.in + avail
        /\ c.d.out \in Nat /\ direct.out <= c.d.out /\ c.d.out <= Decoded(b, c.d.in) /\ c.d.out <= direct.out + space
        /\ Decoded(b, c.d.in) \in 0 .. b.out /\ c.d.out <= b.out
        /\ c.ret \in {"OK", "STREAM_END", "DATA_ERROR"}
        /\ c.ret = "STREAM_END" => c.d.in = b.in /\ c.d.out = b.out /\ b.flaw # "data"
        /\ c.ret = "DATA_ERROR" => b.flaw = "data"
    <2>1. /\ b.in \in Nat \ {0} /\ b.out \in Nat /\ direct.in \in 0 .. b.in
          /\ direct.out \in 0 .. Decoded(b, direct.in)
      BY <1>4, <1>5, <1>6
    <2> QED BY <1>2, <1>3, <2>1, CodedFits
  <1>9. direct'.in = c.d.in /\ direct'.out = c.d.out
    <2>1. PICK i, o, m : direct = [in |-> i, out |-> o, mem |-> m]
      BY <1>5
    <2> QED BY <1>7, <2>1
  <1>10. direct.out \in Nat /\ direct.in \in Nat /\ c.d.in \in Nat /\ b.in \in Nat
    <2>1. Decoded(File[block], direct.in) \in Nat
      BY <1>4, <1>5, DecodedFits
    <2> QED BY <1>4, <1>5, <1>6, <1>8, <2>1
  <1>11. Flows /\ space' \in Nat
    <2>1. PICK i \in Nat, j \in Nat, o \in Nat, q \in Nat :
                i = direct.in /\ j = c.d.in /\ o = direct.out /\ q = c.d.out
      BY <1>8, <1>10
    <2>2. i <= j /\ j <= i + avail /\ o <= q /\ q <= o + space
      BY <1>8, <2>1
    <2>3. avail' = avail - (j - i) /\ eaten' = eaten + (j - i) /\ space' = space - (q - o)
      BY <1>7, <2>1
    <2> QED BY <1>2, <1>3, <2>2, <2>3 DEF Flows
  <1>12. PICK n \in Nat : Handed(n) /\ Delivered(n)
    BY <1>2 DEF OutputInv, Handing
  <1>13. n = block - 1 /\ Len(outq.active) = 0 /\ outq.active = <<>>
    BY <1>1, <1>2, <1>12 DEF Handed, Drained
  <1>14. PICK d : d = n - Len(outq.active)
    OBVIOUS
  <1>15. /\ d \in Nat /\ d \in 0 .. Len(File) /\ (d >= block - 1 => Clean(block - 1)) /\ Clean(d - 1)
         /\ output = Stretch(d, Position) /\ Len(output) \in Nat
    <2>1. /\ d \in Nat /\ d \in 0 .. Len(File) /\ Clean(d - 1) /\ (d >= block - 1 => Clean(block - 1))
          /\ output = Stretch(d, Position)
      BY <1>2, <1>3, <1>12, <1>14, DeliveredClean
    <2>2. Len(output) \in Nat
      BY <1>2, <1>12, <1>14, Covered
    <2> QED BY <2>1, <2>2
  <1>16. d = n /\ d + 1 = block /\ d < Len(File) /\ Clean(d)
    BY <1>4, <1>12, <1>13, <1>14, <1>15
  <1>17. \A e \in 1 .. d : File[e].flaw # "data"
    BY <1>12, <1>14 DEF Delivered
  <1>18. output = Stretch(d, direct.out)
    BY <1>1, <1>15 DEF Position
  <1>19. PICK m \in Nat : m = c.d.out - direct.out
    <2>1. c.d.out - direct.out \in Nat
      BY <1>8, <1>10
    <2> QED BY <2>1
  <1>20. output' = Stretch(d, c.d.out)
    <2>1. output' = Stretch(d, direct.out) \o Run(d + 1, direct.out, m)
      BY <1>7, <1>16, <1>18, <1>19 DEF Run
    <2>2. Stretch(d, direct.out) \o Run(d + 1, direct.out, m) = Stretch(d, direct.out + m)
      BY <1>3, <1>10, <1>15, StretchMore
    <2>3. direct.out + m = c.d.out
      BY <1>8, <1>10, <1>19
    <2> QED BY <2>1, <2>2, <2>3
  <1>21. Promise!Delivers
    <2>1. Reachable(d, c.d.out)
      BY <1>6, <1>8, <1>15, <1>16 DEF Reachable
    <2>2. Len(Stretch(d, c.d.out)) = Len(Promise!Data(d)) + c.d.out
      BY <1>3, <1>8, <1>15, StretchType
    <2>3. Len(Stretch(d, direct.out)) = Len(Promise!Data(d)) + direct.out
      BY <1>3, <1>10, <1>15, StretchType
    <2>4. Len(Promise!Data(d)) \in Nat
      BY <1>3, <1>15, DataLonger
    <2>5. Len(output) <= Len(output')
      BY <1>8, <1>10, <1>18, <1>20, <2>2, <2>3, <2>4
    <2> QED BY <1>3, <1>15, <1>20, <2>1, <2>5, Delivering
  <1>22. \A e, k : Stretch(e, k)' = Stretch(e, k)
    BY <1>3 DEF Stretch, Promise!Data
  <1>23. BuffersFit' /\ outq'.active = <<>> /\ outq.read_pos = 0
    <2>1. outq.read_pos = 0
      BY <1>2, <1>13 DEF BuffersFit
    <2> QED BY <1>1, <1>13, <2>1 DEF BuffersFit
  <1>24. DataStart \in Nat /\ DataEnd = DataStart + b.in /\ eaten = DataStart + direct.in
    BY <1>1, <1>2, <1>3, <1>6, PlacesOf DEF Placed
  <1>25. eaten' = DataStart + c.d.in
    BY <1>7, <1>10, <1>24
  <1>26. CASE c.ret = "DATA_ERROR" \/ (c.ret = "STREAM_END" /\ b.flaw = "record")
    <2>1. pc' = "app" /\ pending' = "Error" /\ ret' = "DATA_ERROR"
      BY <1>7, <1>26, ReturnsCall
    <2>2. File[block].flaw # "none" /\ ~Promise!BehindData(File[block].flaw)
      BY <1>6, <1>8, <1>26 DEF Promise!BehindData
    <2>3. Clean(block - 1) /\ d = block - 1
      BY <1>4, <1>15, <1>16
    <2>4. Promise!FlawShows
      BY <1>3, <1>4, <1>8, <1>15, <1>20, <2>2, <2>3, FlawReached
    <2>5. Promise!Ends
      BY <2>1, <2>4, EndsWithFlaw
    <2>6. DataInv'
      BY <1>11, <2>1 DEF DataInv, CallFits, Live
    <2> QED BY <1>1, <1>2, <1>21, <2>5, <2>6, PromiseSteps DEF Faithful
  <1>27. ASSUME Placed', Parsed', Handing', Drained', Faults',
                pc' \in {"app", "code"}, UNCHANGED <<pending, action>>
         PROVE  Faithful
    <2>1. CallFits'
      BY <1>1, <1>2, <1>11, <1>27, CallStays
    <2>2. SameOut
      BY <1>1, QueueUntouched
    <2>3. SameWorkers
      BY <1>1, <1>27 DEF SameWorkers, AtWork
    <2>4. WorkInv'
      BY <1>1, <1>2, <2>2, <2>3, WorkStays
    <2>5. DataInv'
      BY <1>23, <1>27, <2>1, <2>4 DEF DataInv, InputInv, OutputInv
    <2> QED BY <1>1, <1>2, <1>21, <1>27, <2>5, PromiseOpen DEF Faithful
  <1>28. CASE c.ret = "OK"
    <2>1. pc' = "app" /\ UNCHANGED <<pending, action>> /\ sequence' = sequence
      BY <1>7, <1>28, ReturnsCall
    <2>2. DataStart' = DataStart
      BY <1>1, SameFile
    <2>3. Placed'
      BY <1>1, <1>9, <1>25, <2>1, <2>2 DEF Placed
    <2>4. Parsed'
      BY <1>1, <1>2, <1>3, <2>1 DEF Parsed, BehindBlock, BeforeRecord
    <2>5. Handed(n)'
      BY <1>1, <1>3, <1>12, <2>1 DEF Handed, Fresh
    <2>6. Delivered(n)'
      <3>1. Position' = c.d.out
        BY <1>1, <1>9, <2>1 DEF Position
      <3> QED BY <1>3, <1>13, <1>14, <1>15, <1>16, <1>17, <1>20, <1>22, <1>23, <3>1 DEF Delivered
    <2>7. Drained'
      <3>1. direct'.out \in 0 .. Decoded(File'[block'], direct'.in)
        BY <1>1, <1>3, <1>6, <1>8, <1>9
      <3>2. Decoded(File[block], direct.in)' = Decoded(File'[block'], direct'.in)
        BY DEF Decoded
      <3> QED BY <1>1, <1>23, <2>1, <3>1, <3>2 DEF Drained
    <2>8. Handing'
      BY <2>5, <2>6 DEF Handing
    <2>9. Faults'
      <3>1. SameOut
        BY <1>1, QueueUntouched
      <3> QED BY <1>1, <1>2, <2>1, <3>1, FaultsStay
    <2> QED BY <1>27, <1>28, <2>1, <2>3, <2>4, <2>7, <2>8, <2>9
  <1>29. CASE c.ret = "STREAM_END" /\ b.flaw # "record"
    <2>1. pc' = "code" /\ UNCHANGED <<pending, action>> /\ sequence' = "BLOCK_HEADER"
      BY <1>7, <1>29, GoesCall
    <2>2. DataEnd' = DataEnd /\ NextStart' = NextStart /\ eaten' = DataEnd
      BY <1>1, <1>8, <1>24, <1>25, <1>29, SameFile
    <2>3. /\ (File[block].last => NextStart >= DataEnd + 3) /\ (~File[block].last => NextStart = DataEnd)
          /\ DataEnd \in Nat
      BY <1>3, PlacesOf
    <2>4. Placed'
      BY <1>1, <1>3, <2>1, <2>2, <2>3 DEF Placed
    <2>5. Parsed'
      <3>1. File[block].flaw \notin {"stream", "header", "record"}
        BY <1>1, <1>2, <1>3, <1>6, <1>29 DEF Parsed, BeforeRecord
      <3>2. BehindBlock' => ~File[block].last
        BY <2>1, <2>2, <2>3 DEF BehindBlock
      <3>3. /\ BehindBlock' => File[block].flaw \in {"none", "data"}
            /\ (BehindBlock' /\ block < Len(File)) => File[block + 1].flaw # "stream"
        BY <1>3, <1>4, <3>1, <3>2, FlawKnown, NextHeaderSound DEF Flaws
      <3>4. \A e \in 1 .. block - 1 : File[e].flaw \in {"none", "data"}
        BY <1>2 DEF Parsed, BeforeRecord
      <3> QED BY <1>1, <1>3, <2>1, <3>1, <3>3, <3>4 DEF Parsed, BehindBlock, BeforeRecord
    <2>6. Handed(block)' /\ block \in Nat
      BY <1>1, <1>4, <2>1 DEF Handed, Fresh
    <2>7. Delivered(block)'
      <3>1. Position' = 0
        BY <1>1, <1>23, <2>1 DEF Position
      <3>2. output' = Stretch(block, 0)
        <4>1. Stretch(d, File[d + 1].out) = Promise!Data(d + 1)
          BY <1>3, <1>15, <1>16, StretchFull
        <4>2. Stretch(block, 0) = Promise!Data(block)
          BY <1>3, <1>4, StretchNone
        <4> QED BY <1>6, <1>8, <1>16, <1>20, <1>29, <4>1, <4>2
      <3>3. \A e \in 1 .. block : File[e].flaw # "data"
        <4>1. ASSUME NEW e \in 1 .. block PROVE e = block \/ e \in 1 .. d
          BY <1>4, <1>15, <1>16
        <4> QED BY <1>6, <1>8, <1>17, <1>29, <4>1
      <3>4. Len(outq'.active) = 0 /\ DOMAIN outq'.active = {}
        BY <1>1, <1>13
      <3>5. block' - Len(outq'.active) = block
        BY <1>1, <1>4, <3>4
      <3> QED BY <1>1, <1>3, <1>22, <2>6, <3>1, <3>2, <3>3, <3>4, <3>5 DEF Delivered
    <2>8. Drained'
      BY <1>23, <2>1 DEF Drained
    <2>9. Handing'
      BY <1>1, <2>6, <2>7 DEF Handing
    <2>10. Faults'
      <3>1. SameOut
        BY <1>1, QueueUntouched
      <3>2. pending_error # "DATA_ERROR"
        BY <1>1, <1>2 DEF Faults
      <3> QED BY <1>1, <1>2, <3>1, <3>2, FaultsStay
    <2> QED BY <1>27, <1>29, <2>1, <2>4, <2>5, <2>8, <2>9, <2>10
  <1> QED BY <1>8, <1>26, <1>28, <1>29

LEMMA UndeliveredData ==
  ASSUME IInv, DataInv, Live, UNCHANGED <<setup, output>>, gave_up => gave_up',
         pending \in {"RUN", "FINISH"}, pending' \in {"RUN", "FINISH"},
         CallFits', Placed', Parsed', OutputInv', WorkInv', Faults'
  PROVE  Faithful
  <1>1. InputInv /\ OutputInv
    BY DEF DataInv
  <1>2. DataInv'
    BY DEF DataInv, InputInv
  <1>3. Promise!Delivers
    BY <1>1, DeliversNothing
  <1> QED BY <1>2, <1>3, PromiseOpen DEF Faithful

LEMMA JoinDirectData == ASSUME IInv, DataInv, JoinDirect PROVE Faithful
  <1>1. /\ UNCHANGED <<setup, gave_up, outq, thr, block, thread_error, pending_error>> /\ pc = "joindirect"
        /\ ws' = [w \in Worker |-> IdleWorker] /\ wl' = [w \in Worker |-> IdleThread]
        /\ direct' = [NoDirect EXCEPT !.mem = File[block].filters] /\ UNCHANGED flow
        /\ \/ sequence' = "BLOCK_DIRECT_RUN" /\ GoTo("code")
           \/ sequence' = sequence /\ Return("MEM_ERROR")
    BY DEF JoinDirect, hist
  <1>2. UNCHANGED <<output, eaten, avail, space>> /\ Flows
    BY <1>1, Stays DEF flow, IInv
  <1>3. /\ Live /\ pending \in {"RUN", "FINISH"} /\ Placed /\ Parsed /\ Drained /\ Faults /\ space \in Nat
        /\ OutputInv /\ BuffersFit
    BY <1>1, LiveHere DEF DataInv, InputInv, OutputInv, CallFits
  <1>4. sequence = "BLOCK_DIRECT_INIT" /\ outq.active = <<>> /\ block # 0 /\ Fresh /\ File' = File
    BY <1>1 DEF IInv, Where, InputFits, AtBlock, Fresh, File
  <1>5. CASE sequence' = sequence /\ Return("MEM_ERROR")
    <2>1. pc' = "app" /\ pending' = "Error" /\ ret' = "MEM_ERROR"
      BY <1>5, ReturnsCall
    <2>2. Promise!Ends
      BY <2>1 DEF Promise!Ends
    <2> QED BY <1>1, <1>2, <1>3, <2>1, <2>2, FailsData
  <1>6. CASE sequence' = "BLOCK_DIRECT_RUN" /\ GoTo("code")
    <2>1. pc' = "code" /\ UNCHANGED <<pending, action>>
      BY <1>6, GoesCall
    <2>2. CallFits'
      BY <1>1, <1>2, <1>3, <2>1, CallStays
    <2>3. direct'.in = 0 /\ direct'.out = 0
      <3>1. PICK m, zero : m = File[block].filters /\ zero = 0
        OBVIOUS
      <3>2. PICK d : d = [in |-> zero, out |-> zero, mem |-> zero]
        OBVIOUS
      <3>3. direct' = [d EXCEPT !.mem = m]
        BY <1>1, <3>1, <3>2 DEF NoDirect
      <3>4. direct' = [in |-> zero, out |-> zero, mem |-> m]
        BY <3>2, <3>3
      <3> QED BY <3>1, <3>4
    <2>4. DataStart' = DataStart /\ DataStart \in Nat
      BY <1>1, <1>4, SameFile, PlacesOf
    <2>5. Placed'
      BY <1>1, <1>2, <1>3, <1>4, <1>6, <2>1, <2>3, <2>4 DEF Placed
    <2>6. Parsed'
      BY <1>1, <1>3, <1>4, <1>6 DEF Parsed, BehindBlock, BeforeRecord
    <2>7. SameOut /\ Position' = Position
      <3>1. outq.read_pos = 0
        BY <1>3, <1>4 DEF BuffersFit
      <3> QED BY <1>1, <1>4, <1>6, <2>3, <3>1, QueueUntouched DEF Position
    <2>8. ASSUME NEW n \in Nat PROVE Handed(n) => Handed(n)'
      BY <1>1, <1>4, <1>6 DEF Handed
    <2>9. Drained'
      <3>1. File[block].in \in Nat \ {0} /\ File[block].out \in Nat
        BY <1>4, PlacesOf, FileType DEF IInv, InputFits
      <3>2. 0 \in 0 .. Decoded(File[block], 0)
        BY <3>1, DecodedAll
      <3>3. Decoded(File[block], direct.in)' = Decoded(File[block], 0)
        BY <1>1, <1>4, <2>3 DEF Decoded
      <3> QED BY <1>1, <1>4, <2>3, <3>2, <3>3 DEF Drained
    <2>10. OutputInv'
      BY <1>1, <1>2, <1>3, <2>7, <2>8, <2>9, OutputStays
    <2>11. WorkInv'
      <3>1. IdleThread.pc = "idle" /\ IdleThread.d.out = 0 /\ IdleWorker.state = "IDLE"
        BY DEF IdleThread, FreshDecoder, IdleWorker
      <3>2. ASSUME NEW w \in Worker PROVE ~AtWork(w)' /\ wl'[w].d.out = 0
        BY <1>1, <2>1, <3>1 DEF AtWork
      <3> QED BY <3>2 DEF WorkInv, WorkFits, Alone
    <2>12. Faults'
      <3>1. pending_error # "DATA_ERROR"
        BY <1>3, <1>4 DEF Faults
      <3> QED BY <1>1, <1>3, <2>7, <3>1, FaultsStay
    <2> QED BY <1>1, <1>2, <1>3, <2>1, <2>2, <2>5, <2>6, <2>10, <2>11, <2>12, UndeliveredData
  <1> QED BY <1>1, <1>5, <1>6

(* The buffer that get_thread puts at the end of the queue.                *)
LEMMA BufferAdded ==
  ASSUME IInv, GetThread, ~StopAndFail("MEM_ERROR")
  PROVE  \E w \in Worker, b \in Buffer :
           /\ thr' = w /\ ~Given(w) /\ pc' = "start" /\ UNCHANGED <<action, pending>>
           /\ ws'[w].state = "IDLE" /\ ws'[w].in_filled = 0 /\ ws'[w].job = block
           /\ \A v \in Worker : v # w => ws'[v] = ws[v]
           /\ b.job = block /\ b.pos = 0 /\ ~b.finished
           /\ outq'.active = Append(outq.active, b) /\ outq'.read_pos = outq.read_pos
  <1>1. PICK w :
           /\ w = Next1 /\ thr' = w /\ Taking(w)
           /\ ws' = [ws EXCEPT ![w] = [IdleWorker EXCEPT !.job = block, !.alive = TRUE,
                                         !.mem_filters = File[block].filters]]
           /\ outq' = GetBuf(PreallocBuf(outq, File[block].out), block, w)
           /\ pc' = "start" /\ UNCHANGED <<action, pending>>
    BY DEF GetThread, Next1, Taking, GoTo, call
  <1>2. pc = "get" /\ sequence = "BLOCK_THR_INIT" /\ block # 0 /\ block \in Nat
    BY DEF GetThread, IInv, Where, InputFits, AtBlock
  <1>3. w \in Worker /\ ~Given(w)
    BY <1>1, <1>2, ThreadTaken
  <1>4. PICK out \in Nat, filters \in Nat : out = File[block].out /\ filters = File[block].filters
    BY <1>2, NextType DEF IInv
  <1>5. PICK y \in WorkerRecord :
           ws' = [ws EXCEPT ![w] = y] /\ y.state = "IDLE" /\ y.in_filled = 0 /\ y.job = block
    <2>1. PICK n \in Nat : n = block
      BY <1>2
    <2>2. PICK x \in WorkerRecord : x = IdleWorker
      BY DEF IdleWorker, WorkerRecord, Partials, None
    <2>3. PICK y : y = [x EXCEPT !.job = n, !.alive = TRUE, !.mem_filters = filters]
      OBVIOUS
    <2>4. y \in WorkerRecord
      BY <2>3 DEF WorkerRecord
    <2>5. x.state = "IDLE" /\ x.in_filled = 0
      BY <2>2 DEF IdleWorker
    <2>6. y.state = x.state /\ y.in_filled = x.in_filled /\ y.job = n
      BY <2>3 DEF WorkerRecord
    <2>7. ws' = [ws EXCEPT ![w] = y]
      BY <1>1, <1>4, <2>1, <2>2, <2>3
    <2> QED BY <2>1, <2>4, <2>5, <2>6, <2>7
  <1>6. ws'[w] = y /\ \A v \in Worker : v # w => ws'[v] = ws[v]
    BY <1>3, <1>5 DEF IInv, Types
  <1>7. PICK p : p = PreallocBuf(outq, out)
    OBVIOUS
  <1>8. IsQueue(outq, Buffer, Nat) /\ Shaped(outq)
    BY QueueShaped
  <1>9. p.active = outq.active /\ Last(p.cache) = out
    <2>1. /\ p.active = outq.active
          /\ p.cache = <<out>> \/ (p.cache = outq.cache /\ Len(outq.cache) > 0 /\ Last(outq.cache) = out)
      BY <1>4, <1>7, <1>8, Preallocated
    <2>2. Last(<<out>>) = out
      BY DEF Last
    <2> QED BY <2>1, <2>2
  <1>10. Shaped(p) /\ p.read_pos = outq.read_pos
    BY <1>7, <1>8, PreallocPos
  <1>11. PICK g : g = GetBuf(p, block, w)
    OBVIOUS
  <1>12. g.read_pos = p.read_pos /\ g.active = Append(p.active, FreshBuf(block, Last(p.cache), w))
    BY <1>10, <1>11, GetPos
  <1>13. PICK b \in Buffer : b = FreshBuf(block, out, w) /\ b.job = block /\ b.pos = 0 /\ b.finished = FALSE
    <2>1. PICK n \in Nat, zero \in Int : n = block /\ zero = 0
      BY <1>2
    <2>2. PICK b : b = [job |-> n, size |-> out, worker |-> w, pos |-> zero, in_pos |-> zero,
                        finished |-> FALSE, ret |-> "STREAM_END"]
      OBVIOUS
    <2>3. PICK who \in Worker \cup {NoWorker} : who = w
      BY <1>3
    <2>4. PICK ret0 \in Rets : ret0 = "STREAM_END"
      BY DEF Rets
    <2>5. b = [job |-> n, size |-> out, worker |-> who, pos |-> zero, in_pos |-> zero,
               finished |-> FALSE, ret |-> ret0]
      BY <2>2, <2>3, <2>4
    <2>6. b \in Buffer
      BY <2>5 DEF Buffer
    <2>7. b = FreshBuf(block, out, w)
      BY <2>1, <2>2 DEF FreshBuf
    <2>8. b.job = n /\ b.pos = zero /\ b.finished = FALSE
      BY <2>2
    <2> QED BY <2>1, <2>6, <2>7, <2>8
  <1>14. outq'.active = Append(outq.active, b) /\ outq'.read_pos = outq.read_pos
    <2>1. outq' = g
      BY <1>1, <1>4, <1>7, <1>11
    <2> QED BY <1>9, <1>10, <1>12, <1>13, <2>1
  <1> QED BY <1>1, <1>3, <1>5, <1>6, <1>13, <1>14

LEMMA GetThreadData == ASSUME IInv, DataInv, GetThread PROVE Faithful
  <1>1. /\ UNCHANGED <<setup, gave_up, wl, sequence, block, direct, thread_error, pending_error>> /\ pc = "get"
        /\ UNCHANGED <<output, eaten, avail, space>> /\ UNCHANGED flow
    BY DEF GetThread, locals, flow
  <1>2. /\ Live /\ pending \in {"RUN", "FINISH"} /\ Placed /\ Parsed /\ Drained /\ Faults /\ space \in Nat
        /\ OutputInv /\ BuffersFit /\ WorkInv
    BY <1>1, LiveHere DEF DataInv, InputInv, OutputInv, CallFits
  <1>3. CASE StopAndFail("MEM_ERROR")
    <2>1. pc' = "app" /\ pending' = "Error" /\ ret' = "MEM_ERROR"
      BY <1>3, ReturnsCall DEF StopAndFail
    <2>2. Promise!Ends
      BY <2>1 DEF Promise!Ends
    <2> QED BY <1>1, <1>2, <2>1, <2>2, FailsData
  <1>4. CASE ~StopAndFail("MEM_ERROR")
    <2>1. PICK w \in Worker, b \in Buffer :
           /\ thr' = w /\ ~Given(w) /\ pc' = "start" /\ UNCHANGED <<action, pending>>
           /\ ws'[w].state = "IDLE" /\ ws'[w].in_filled = 0 /\ ws'[w].job = block
           /\ \A v \in Worker : v # w => ws'[v] = ws[v]
           /\ b.job = block /\ b.pos = 0 /\ ~b.finished
           /\ outq'.active = Append(outq.active, b) /\ outq'.read_pos = outq.read_pos
      BY <1>4, BufferAdded
    <2>2. /\ sequence = "BLOCK_THR_INIT" /\ block # 0 /\ block \in Nat /\ File' = File /\ Fresh
      BY <1>1 DEF IInv, Where, InputFits, AtBlock, Fresh, File
    <2>3. Flows
      BY <1>1, Stays DEF IInv
    <2>4. CallFits'
      BY <1>1, <1>2, <2>1, <2>3, CallStays
    <2>5. DataStart' = DataStart /\ File[block].in \in Nat \ {0} /\ File[block].out \in Nat
      BY <1>1, <2>2, SameFile, PlacesOf, FileType DEF IInv, InputFits
    <2>6. Placed'
      BY <1>1, <1>2, <2>1, <2>2, <2>5 DEF Placed
    <2>7. Parsed'
      BY <1>1, <1>2, <2>2 DEF Parsed, BehindBlock, BeforeRecord
    <2>8. Drained' /\ Position' = Position /\ Position = outq.read_pos
      BY <1>1, <2>1, <2>2 DEF Drained, Position
    <2>9. PICK a \in Seq(Buffer), k \in Nat :
            /\ a = outq.active /\ k = Len(a) /\ DOMAIN a = 1 .. k
            /\ Len(Append(a, b)) = k + 1 /\ Append(a, b)[k + 1] = b
            /\ \A i \in 1 .. k : Append(a, b)[i] = a[i] /\ a[i] \in Buffer
      <3>1. PICK a \in Seq(Buffer) : a = outq.active
        BY QueueShaped
      <3>2. Len(a) \in Nat
        OBVIOUS
      <3>3. PICK k \in Nat : k = Len(a)
        BY <3>2
      <3>4. /\ DOMAIN a = 1 .. k /\ Len(Append(a, b)) = k + 1 /\ Append(a, b)[k + 1] = b
            /\ \A i \in 1 .. k : Append(a, b)[i] = a[i] /\ a[i] \in Buffer
        BY <3>3
      <3> QED BY <3>1, <3>3, <3>4
    <2>10. PICK h \in Seq(Buffer) :
             /\ h = outq'.active /\ Len(h) = k + 1 /\ DOMAIN h = 1 .. k + 1 /\ h[k + 1] = b
             /\ \A i \in 1 .. k : h[i] = a[i]
      <3>1. Append(a, b) \in Seq(Buffer) /\ DOMAIN Append(a, b) = 1 .. k + 1
        BY <2>9
      <3> QED BY <2>1, <2>9, <3>1
    <2>11. \A i \in 1 .. k + 1 : i \in 1 .. k \/ i = k + 1
      OBVIOUS
    <2>12. \A i \in 1 .. k : i \in 1 .. k + 1
      OBVIOUS
    <2>13. Handing'
      <3>1. PICK n \in Nat : Handed(n) /\ Delivered(n)
        BY <1>2 DEF OutputInv, Handing
      <3>2. n + 1 = block
        BY <2>2, <3>1 DEF Handed
      <3>3. PICK d \in Nat : d = n - k
        BY <2>9, <3>1 DEF Delivered
      <3>4. /\ \A i \in 1 .. k : a[i].job = d + i
            /\ \A e \in 1 .. d : File[e].flaw # "data"
            /\ output = Stretch(d, Position)
        BY <2>9, <3>1, <3>3 DEF Delivered
      <3>5. Handed(block)'
        BY <1>1, <2>1, <2>2 DEF Handed, Fresh
      <3>6. block - (k + 1) = d /\ d + (k + 1) = block
        BY <2>2, <3>2, <3>3
      <3>7. \A i \in 1 .. k + 1 : h[i].job = d + i
        BY <2>1, <2>10, <2>11, <3>4, <3>6
      <3>8. Stretch(d, Position)' = Stretch(d, Position')
        BY <2>2 DEF Stretch, Promise!Data
      <3>9. output' = Stretch(d, Position)'
        BY <1>1, <2>2, <2>8, <3>4 DEF Stretch, Promise!Data
      <3>10. Delivered(block)'
        BY <1>1, <2>2, <2>10, <3>4, <3>6, <3>7, <3>9 DEF Delivered
      <3>11. block' = block /\ block \in Nat
        BY <1>1, <2>2
      <3> QED BY <3>5, <3>10, <3>11 DEF Handing
    <2>14. BuffersFit'
      <3>1. ASSUME NEW i \in 1 .. k PROVE BufferFits(a[i])
        BY <1>2, <2>9 DEF BuffersFit
      <3>2. ASSUME NEW i \in 1 .. k + 1 PROVE BufferFits(outq.active[i])'
        <4>1. PICK c : c = h[i]
          OBVIOUS
        <4>2. CASE i \in 1 .. k
          <5>1. BufferFits(c)
            BY <2>10, <3>1, <4>1, <4>2
          <5>2. BufferFits(c)'
            BY <2>2, <5>1 DEF BufferFits
          <5> QED BY <2>10, <4>1, <5>2
        <4>3. CASE i = k + 1
          <5>1. c.job = block /\ c.pos = 0 /\ ~c.finished
            BY <2>1, <2>10, <4>1, <4>3
          <5>2. BufferFits(c)'
            BY <2>2, <2>5, <5>1 DEF BufferFits
          <5> QED BY <2>10, <4>1, <5>2
        <4> QED BY <2>11, <4>2, <4>3
      <3>3. outq'.read_pos \in 0 .. h[1].pos /\ h # <<>>
        <4>1. CASE k = 0
          <5>1. outq.read_pos = 0
            BY <1>2, <2>9, <4>1 DEF BuffersFit
          <5> QED BY <2>1, <2>10, <4>1, <5>1
        <4>2. CASE k # 0
          <5>1. a # <<>> /\ 1 \in 1 .. k
            BY <2>9, <4>2
          <5>2. outq.read_pos \in 0 .. a[1].pos
            BY <1>2, <2>9, <5>1 DEF BuffersFit
          <5> QED BY <2>1, <2>10, <5>1, <5>2
        <4> QED BY <4>1, <4>2
      <3> QED BY <2>10, <3>2, <3>3 DEF BuffersFit
    <2>15. OutputInv'
      BY <2>8, <2>13, <2>14 DEF OutputInv
    <2>16. Rests(w) /\ ~AtWork(w)
      <3>1. Rests(w)
        BY <2>1 DEF IInv, ThreadInv, ThreadsSound, ThreadSound
      <3> QED BY <1>1, <3>1 DEF Rests, AtWork
    <2>17. \A v \in Worker : v # w => (AtWork(v)' <=> AtWork(v))
      BY <1>1, <2>1 DEF AtWork
    <2>18. ASSUME NEW v \in Worker PROVE WorkFits(v)'
      <3>1. CASE v = w
        <4>1. wl[w].d.out = 0 /\ wl[w].d.in = 0 /\ wl[w].pc \notin {"settle", "report"}
          BY <1>2, <2>16 DEF WorkInv, WorkFits, Rests
        <4>2. AtWork(w)'
          BY <2>1 DEF AtWork
        <4>3. Decoded(File[block], 0) = 0
          BY <2>5, DecodedAll
        <4>4. Fills(w, outq.active[k + 1])'
          BY <1>1, <2>1, <2>10, <4>1 DEF Fills
        <4>5. (wl[w].d.out \in 0 .. Decoded(File[ws[w].job], wl[w].d.in))'
          <5>1. Decoded(File[block], 0) = Decoded(File[ws[w].job], wl[w].d.in)'
            BY <1>1, <2>1, <2>2, <4>1 DEF Decoded
          <5> QED BY <1>1, <4>1, <4>3, <5>1
        <4>6. k + 1 \in DOMAIN outq'.active
          BY <2>10
        <4> QED BY <1>1, <3>1, <4>1, <4>2, <4>4, <4>5, <4>6 DEF WorkFits
      <3>2. CASE v # w
        <4>1. ws'[v] = ws[v] /\ (AtWork(v)' <=> AtWork(v)) /\ WorkFits(v)
          BY <1>2, <2>1, <2>17, <3>2 DEF WorkInv
        <4>2. AtWork(v) => \E i \in DOMAIN outq'.active : Fills(v, outq.active[i])'
          <5> SUFFICES ASSUME AtWork(v) PROVE \E i \in DOMAIN outq'.active : Fills(v, outq.active[i])'
            OBVIOUS
          <5>1. PICK i \in 1 .. k : Fills(v, a[i])
            BY <2>9, <4>1 DEF WorkFits
          <5>2. PICK c : c = a[i]
            OBVIOUS
          <5>3. h[i] = c /\ Fills(v, c) /\ i \in 1 .. k + 1
            BY <2>10, <2>12, <5>1, <5>2
          <5>4. Fills(v, c)'
            BY <1>1, <4>1, <5>3 DEF Fills
          <5> QED BY <2>10, <5>3, <5>4
        <4> QED BY <1>1, <2>2, <4>1, <4>2 DEF WorkFits, Decoded
      <3> QED BY <3>1, <3>2
    <2>19. Alone'
      <3>1. ASSUME NEW v \in Worker, v # w, AtWork(v) PROVE ws[v].job # block
        <4>1. PICK i \in DOMAIN outq.active : ws[v].job = outq.active[i].job
          BY <1>2, <3>1 DEF WorkInv, WorkFits, Fills
        <4>2. PICK j \in Nat : j = outq.active[i].job
          BY <2>9 DEF Buffer
        <4>3. j < block
          BY <2>2, <4>2 DEF IInv, QueueInv, QueueOrdered
        <4> QED BY <2>2, <4>1, <4>2, <4>3
      <3>2. ASSUME NEW v \in Worker, NEW u \in Worker, AtWork(v)', AtWork(u)', ws'[v].job = ws'[u].job
            PROVE  v = u
        <4>1. CASE v = w \/ u = w
          BY <2>1, <2>17, <3>1, <3>2, <4>1
        <4>2. CASE v # w /\ u # w
          BY <1>2, <2>1, <2>17, <3>2, <4>2 DEF WorkInv, Alone
        <4> QED BY <4>1, <4>2
      <3> QED BY <3>2 DEF Alone
    <2>20. Faults'
      <3>1. pending_error # "DATA_ERROR"
        BY <1>2, <2>2 DEF Faults
      <3>2. (\E i \in DOMAIN outq.active : FailedBuffer(outq.active[i]))
              => \E i \in DOMAIN outq'.active : FailedBuffer(outq.active[i])'
        <4> SUFFICES ASSUME NEW i \in 1 .. k, FailedBuffer(a[i])
                     PROVE  \E j \in DOMAIN outq'.active : FailedBuffer(outq.active[j])'
          BY <2>9
        <4>1. PICK c : c = a[i]
          OBVIOUS
        <4>2. h[i] = c /\ FailedBuffer(c)' /\ i \in 1 .. k + 1
          BY <2>10, <2>12, <4>1 DEF FailedBuffer
        <4> QED BY <2>10, <4>2
      <3> QED BY <1>1, <1>2, <3>1, <3>2 DEF Faults
    <2> QED BY <1>1, <1>2, <2>1, <2>4, <2>6, <2>7, <2>15, <2>18, <2>19, <2>20, UndeliveredData DEF WorkInv
  <1> QED BY <1>3, <1>4

(* What is read of the Block at the head, and where it goes.               *)
LEMMA HeadRead ==
  ASSUME IInv, InputInv, OutputInv, outq.active # <<>>, space \in Nat,
         NEW m \in Nat, Handed(m), Delivered(m), NEW d, d = m - Len(outq.active)
  PROVE  /\ d \in Nat /\ d \in 0 .. Len(File) /\ d < Len(File) /\ Clean(d) /\ d + 1 \in 1 .. Len(File)
         /\ Head(outq.active) = outq.active[1] /\ outq.active[1] \in Buffer /\ outq.active[1].job = d + 1
         /\ BufferFits(outq.active[1])
         /\ Available(outq, space) \in Nat /\ Available(outq, space) <= space
         /\ outq.read_pos \in Nat /\ outq.read_pos + Available(outq, space) <= outq.active[1].pos
         /\ outq.active[1].pos \in Nat /\ outq.active[1].pos <= File[d + 1].out /\ File[d + 1].out \in Nat
         /\ sequence # "BLOCK_DIRECT_RUN" /\ output = Stretch(d, outq.read_pos)
         /\ output \o Copied(outq, space) = Stretch(d, outq.read_pos + Available(outq, space))
         /\ \A e \in 1 .. d : File[e].flaw # "data"
         /\ Len(output) \in Nat
  <1>1. InputFits /\ setup \in Setups /\ Parsed /\ BuffersFit /\ Drained
    BY DEF IInv, InputFits, InputInv, OutputInv
  <1>2. /\ d \in Nat /\ d <= m /\ m <= block /\ block \in Nat /\ block <= Len(File) /\ block <= m + 1
        /\ d \in 0 .. Len(File) /\ Clean(d - 1) /\ (d < block => Clean(d))
        /\ (d >= block - 1 => Clean(block - 1))
        /\ output = Stretch(d, Position)
        /\ \A i \in DOMAIN outq.active : outq.active[i].job = d + i
    BY <1>1, DeliveredClean
  <1>3. 1 \in DOMAIN outq.active /\ Head(outq.active) = outq.active[1]
    BY QueueShaped
  <1>4. PICK b \in Buffer : b = outq.active[1]
    BY <1>3, QueueShaped
  <1>5. b.job = d + 1 /\ BufferFits(b) /\ outq.read_pos \in 0 .. b.pos
    BY <1>1, <1>2, <1>3, <1>4 DEF BuffersFit
  <1>6. b.job \in 1 .. Len(File) /\ File[b.job].out \in Nat /\ b.job <= block
    BY <1>3, <1>4, BufferKnown DEF OutputInv
  <1>7. PICK o \in Nat : o = File[d + 1].out
    BY <1>5, <1>6
  <1>8. PICK p \in Nat : p = b.pos /\ p <= o
    <2>1. File[b.job].out = o
      BY <1>5, <1>7
    <2>2. b.pos \in 0 .. o
      BY <1>5, <2>1 DEF BufferFits
    <2>3. b.pos \in Nat /\ b.pos <= o
      BY <2>2
    <2> QED BY <2>3
  <1>9. PICK r \in Nat : r = outq.read_pos /\ r <= p
    BY <1>5, <1>8
  <1>10. PICK n \in Nat : n = Available(outq, space) /\ n <= space /\ r + n <= p
    <2>1. Available(outq, space) = SmallerOf(p - r, space)
      BY <1>3, <1>4, <1>8, <1>9 DEF Available
    <2>2. SmallerOf(p - r, space) \in Nat /\ SmallerOf(p - r, space) <= space /\ r + SmallerOf(p - r, space) <= p
      BY <1>9 DEF SmallerOf
    <2> QED BY <2>1, <2>2
  <1>11. sequence # "BLOCK_DIRECT_RUN" /\ output = Stretch(d, r)
    BY <1>1, <1>2, <1>9 DEF Drained, Position
  <1>12. d < Len(File) /\ Clean(d)
    <2>1. d < block
      BY <1>2, <1>5, <1>6
    <2> QED BY <1>2, <1>6, <2>1, FileType, <1>1
  <1>13. output \o Copied(outq, space) = Stretch(d, r + n)
    <2>1. Copied(outq, space) = Run(d + 1, r, n)
      BY <1>3, <1>4, <1>5, <1>9, <1>10 DEF Copied, Run
    <2>2. Stretch(d, r) \o Run(d + 1, r, n) = Stretch(d, r + n)
      BY <1>1, <1>2, StretchMore
    <2> QED BY <1>11, <2>1, <2>2
  <1>14. Len(output) \in Nat
    BY Covered
  <1>15. \A e \in 1 .. d : File[e].flaw # "data"
    BY DEF Delivered
  <1>16. d + 1 \in 1 .. Len(File)
    BY <1>5, <1>6
  <1> QED BY <1>2, <1>3, <1>4, <1>5, <1>7, <1>8, <1>9, <1>10, <1>11, <1>12, <1>13, <1>14, <1>15, <1>16

(* It is what is promised.                                                 *)
LEMMA ReadDelivers ==
  ASSUME setup \in Setups, NEW d \in 0 .. Len(File), d < Len(File), Clean(d), NEW k \in Nat, NEW n \in Nat,
         k + n <= File[d + 1].out, File[d + 1].out \in Nat,
         output = Stretch(d, k), output' = Stretch(d, k + n)
  PROVE  Promise!Delivers
  <1>1. Clean(d - 1)
    <2>1. \A b \in 1 .. d - 1 : b \in 1 .. d
      OBVIOUS
    <2> QED BY <2>1 DEF Clean
  <1>2. Reachable(d, k + n)
    BY <1>1 DEF Reachable
  <1>3. /\ Len(Stretch(d, k)) = Len(Promise!Data(d)) + k
        /\ Len(Stretch(d, k + n)) = Len(Promise!Data(d)) + (k + n)
    <2>1. k + n \in Nat
      OBVIOUS
    <2> QED BY <2>1, StretchType
  <1>4. Len(Promise!Data(d)) \in Nat
    BY DataLonger
  <1>5. Len(output) \in Nat /\ Len(output) <= Len(output')
    BY <1>3, <1>4
  <1> QED BY <1>2, <1>5, Delivering

(* A step of read_output_and_wait leaves alone all but the queue, and what *)
(* threads do.                                                             *)
LEMMA WaitStays ==
  ASSUME IInv, DataInv, ReadQueue
  PROVE  /\ UNCHANGED <<setup, gave_up, wl, sequence, block, thr, direct, thread_error, avail, eaten>>
         /\ pc \in {"read", "reread"} /\ Live /\ pending \in {"RUN", "FINISH"} /\ space \in Nat
         /\ InputInv /\ OutputInv /\ WorkInv /\ Faults /\ Placed /\ Parsed /\ Drained /\ BuffersFit
         /\ InputFits /\ setup \in Setups /\ File' = File /\ Flows
         /\ space' = space - Available(outq, space) /\ output' = output \o Copied(outq, space)
  <1>1. /\ UNCHANGED <<setup, gave_up, wl, sequence, block, thr, direct, thread_error, avail, eaten>>
        /\ pc \in {"read", "reread"}
        /\ space' = space - Available(outq, space) /\ output' = output \o Copied(outq, space)
    BY DEF ReadQueue, kept, hist
  <1>2. Live /\ pending \in {"RUN", "FINISH"} /\ space \in Nat
    BY <1>1, LiveHere DEF DataInv, CallFits
  <1>3. /\ InputInv /\ OutputInv /\ WorkInv /\ Faults /\ Placed /\ Parsed /\ Drained /\ BuffersFit
    BY <1>2 DEF DataInv, InputInv, OutputInv
  <1>4. InputFits /\ setup \in Setups /\ File' = File
    BY <1>1 DEF IInv, InputFits, File
  <1>5. Flows
    BY <1>1, <1>4 DEF Flows, InputFits
  <1> QED BY <1>1, <1>2, <1>3, <1>4, <1>5

LEMMA NothingLeft ==
  ASSUME IInv, DataInv, ReadQueue, outq.active = <<>>
  PROVE  output' = output /\ space' = space /\ Available(outq, space) = 0
  <1>1. InputInv /\ OutputInv /\ space \in Nat /\ output' = output \o Copied(outq, space)
        /\ space' = space - Available(outq, space) /\ setup \in Setups
    BY WaitStays
  <1>2. Available(outq, space) = 0
    BY DEF Available
  <1>3. PICK m \in Nat : Handed(m) /\ Delivered(m)
    BY <1>1 DEF OutputInv, Handing
  <1>4. PICK d : d = m - Len(outq.active)
    OBVIOUS
  <1>5. Reachable(d, Position) /\ output = Stretch(d, Position)
    BY <1>1, <1>3, <1>4, Covered
  <1>6. output \in Seq(Unit)
    BY <1>1, <1>5, StretchType DEF Reachable
  <1>7. Copied(outq, space) = <<>>
    BY <1>2 DEF Copied
  <1>8. output \o <<>> = output
    BY <1>6
  <1> QED BY <1>1, <1>2, <1>7, <1>8

(* The head has more, or lacks some of its data.                           *)
LEMMA ReadOnData == ASSUME IInv, DataInv, ReadQueue, ~Drains(outq, space) PROVE Faithful
  <1>1. /\ UNCHANGED <<setup, gave_up, wl, sequence, block, thr, direct, thread_error, avail, eaten>>
        /\ pc \in {"read", "reread"} /\ Live /\ pending \in {"RUN", "FINISH"} /\ space \in Nat
        /\ InputInv /\ OutputInv /\ WorkInv /\ Faults /\ Placed /\ Parsed /\ Drained /\ BuffersFit
        /\ InputFits /\ setup \in Setups /\ File' = File /\ Flows
        /\ space' = space - Available(outq, space) /\ output' = output \o Copied(outq, space)
    BY WaitStays
  <1>2. PICK q : q = Read(outq, space)
    OBVIOUS
  <1>3. q.active = outq.active /\ q.read_pos = outq.read_pos + Available(outq, space)
    BY <1>2, QueueShaped, ReadOn, ReadOnPos
  <1>4. \/ FailFastError /\ outq' = q /\ StopAndFail(thread_error)
        \/ /\ ~FailFastError /\ outq' = q /\ ws' = ws
           /\ pending_error' = (IF thread_error # "OK" THEN "PROG_ERROR" ELSE pending_error)
           /\ GoTo(IF KeepsWaiting(q) THEN "sleep" ELSE "after")
    <2>1. ReadRet(outq, space) = "OK"
      BY DEF ReadRet
    <2> QED BY <1>2, <2>1 DEF ReadQueue
  <1>5. PICK m \in Nat : Handed(m) /\ Delivered(m)
    BY <1>1 DEF OutputInv, Handing
  <1>6. PICK d \in Nat : d = m - Len(outq.active)
    BY <1>5 DEF Delivered
  <1>7. /\ outq'.active = outq.active /\ outq'.read_pos = outq.read_pos + Available(outq, space)
    BY <1>3, <1>4
  <1>8. /\ outq'.read_pos \in 0 .. (IF outq.active = <<>> THEN 0 ELSE outq.active[1].pos)
        /\ space' \in Nat /\ Promise!Delivers /\ output' = Stretch(d, Position')
    <2>1. CASE outq.active = <<>>
      <3>1. output' = output /\ space' = space /\ Available(outq, space) = 0
        BY <2>1, NothingLeft
      <3>2. outq.read_pos = 0 /\ outq'.read_pos = outq.read_pos
        BY <1>1, <1>7, <2>1, <3>1 DEF BuffersFit
      <3>3. Position' = Position
        BY <1>1, <3>2 DEF Position
      <3>4. Promise!Delivers
        BY <1>1, <3>1, DeliversNothing
      <3>5. output = Stretch(d, Position)
        BY <1>1, <1>5, <1>6, Covered
      <3> QED BY <1>1, <2>1, <3>1, <3>2, <3>3, <3>4, <3>5
    <2>2. CASE outq.active # <<>>
      <3>1. /\ d \in 0 .. Len(File) /\ d < Len(File) /\ Clean(d)
            /\ Available(outq, space) \in Nat /\ Available(outq, space) <= space
            /\ outq.read_pos \in Nat /\ outq.read_pos + Available(outq, space) <= outq.active[1].pos
            /\ outq.active[1].pos \in Nat /\ outq.active[1].pos <= File[d + 1].out /\ File[d + 1].out \in Nat
            /\ sequence # "BLOCK_DIRECT_RUN" /\ output = Stretch(d, outq.read_pos)
            /\ output \o Copied(outq, space) = Stretch(d, outq.read_pos + Available(outq, space))
        BY <1>1, <1>5, <1>6, <2>2, HeadRead
      <3>2. PICK n \in Nat, k \in Nat, p \in Nat, o \in Nat :
              n = Available(outq, space) /\ k = outq.read_pos /\ p = outq.active[1].pos /\ o = File[d + 1].out
        BY <3>1
      <3>3. n <= space /\ k + n <= p /\ p <= o /\ output = Stretch(d, k) /\ output' = Stretch(d, k + n)
        BY <1>1, <3>1, <3>2
      <3>4. k + n <= o
        BY <3>3
      <3>5. Promise!Delivers
        BY <1>1, <3>1, <3>2, <3>3, <3>4, ReadDelivers
      <3>6. Position' = k + n /\ outq'.read_pos = k + n
        BY <1>1, <1>7, <3>1, <3>2 DEF Position
      <3>7. space' \in Nat
        BY <1>1, <3>2, <3>3
      <3> QED BY <2>2, <3>2, <3>3, <3>5, <3>6, <3>7
    <2> QED BY <2>1, <2>2
  <1>9. CASE FailFastError /\ outq' = q /\ StopAndFail(thread_error)
    <2>1. thread_error = "DATA_ERROR" /\ setup.fail_fast
      BY <1>1, <1>9 DEF FailFastError, Faults
    <2>2. pc' = "app" /\ pending' = "Error" /\ ret' = "DATA_ERROR"
      BY <1>9, <2>1, ReturnsCall DEF StopAndFail
    <2>3. PICK i \in DOMAIN outq.active : FailedBuffer(outq.active[i])
      BY <1>1, <2>1 DEF Faults
    <2>4. PICK b : b = outq.active[i]
      OBVIOUS
    <2>5. BufferFits(b) /\ FailedBuffer(b) /\ b.job \in 1 .. Len(File)
      BY <1>1, <2>3, <2>4, BufferKnown DEF BuffersFit, OutputInv
    <2>6. File[b.job].flaw # "none"
      BY <2>5 DEF BufferFits, FailedBuffer
    <2>7. Promise!FlawShows
      BY <1>1, <2>1, <2>5, <2>6, FlawFast
    <2>8. Promise!Ends
      BY <2>2, <2>7, EndsWithFlaw
    <2>9. DataInv'
      BY <1>8, <2>2 DEF DataInv, CallFits, Live
    <2> QED BY <1>1, <1>8, <2>8, <2>9, PromiseSteps DEF Faithful
  <1>10. CASE /\ ~FailFastError /\ outq' = q /\ ws' = ws
              /\ pending_error' = (IF thread_error # "OK" THEN "PROG_ERROR" ELSE pending_error)
              /\ GoTo(IF KeepsWaiting(q) THEN "sleep" ELSE "after")
    <2>1. pc' \in {"sleep", "after"} /\ UNCHANGED <<action, pending>>
      BY <1>10, GoesCall
    <2>2. CallFits'
      BY <1>1, <1>8, <2>1, CallStays
    <2>3. Placed'
      <3>1. DataStart' = DataStart /\ DataEnd' = DataEnd /\ NextStart' = NextStart
        BY <1>1, SameFile
      <3> QED BY <1>1, <1>10, <2>1, <3>1 DEF Placed
    <2>4. Parsed'
      <3>1. NextStart' = NextStart
        BY <1>1, SameFile
      <3>2. sequence = "ERROR" => pending_error' # "OK"
        BY <1>1, <1>10 DEF Parsed, BeforeRecord
      <3> QED BY <1>1, <3>1, <3>2 DEF Parsed, BehindBlock, BeforeRecord
    <2>5. Handed(m)'
      BY <1>1, <1>5, <2>1 DEF Handed, Fresh
    <2>6. Delivered(m)'
      <3>1. \A e, k : Stretch(e, k)' = Stretch(e, k)
        BY <1>1 DEF Stretch, Promise!Data
      <3>2. output' = Stretch(d, Position)'
        BY <1>1, <1>8 DEF Stretch, Promise!Data
      <3> QED BY <1>1, <1>5, <1>6, <1>7, <3>2 DEF Delivered
    <2>7. Handing' /\ Drained'
      BY <1>1, <1>7, <2>5, <2>6 DEF Handing, Drained, Decoded
    <2>8. BuffersFit'
      <3>1. ASSUME NEW i \in DOMAIN outq.active PROVE BufferFits(outq.active[i])'
        BY <1>1, <1>7 DEF BuffersFit, BufferFits
      <3> QED BY <1>7, <1>8, <3>1 DEF BuffersFit
    <2>9. WorkInv'
      <3>1. ASSUME NEW w \in Worker PROVE AtWork(w)' <=> AtWork(w)
        BY <1>1, <1>10, <2>1 DEF AtWork
      <3>2. ASSUME NEW w \in Worker PROVE WorkFits(w)'
        <4>1. WorkFits(w)
          BY <1>1 DEF WorkInv
        <4> QED BY <1>1, <1>7, <1>10, <3>1, <4>1 DEF WorkFits, Fills, Decoded
      <3> QED BY <1>1, <1>10, <3>1, <3>2 DEF WorkInv, Alone
    <2>10. Faults'
      <3>1. (\E i \in DOMAIN outq.active : FailedBuffer(outq.active[i]))
               => \E i \in DOMAIN outq'.active : FailedBuffer(outq.active[i])'
        BY <1>7 DEF FailedBuffer
      <3>2. thread_error # "OK" => ~setup.fail_fast
        BY <1>10 DEF FailFastError
      <3> QED BY <1>1, <1>10, <3>1, <3>2 DEF Faults
    <2>11. DataInv'
      BY <2>2, <2>3, <2>4, <2>7, <2>8, <2>9, <2>10 DEF DataInv, InputInv, OutputInv
    <2> QED BY <1>1, <1>8, <2>1, <2>11, PromiseOpen DEF Faithful
  <1> QED BY <1>4, <1>9, <1>10

(* A finished head is read to its end and leaves the queue.                *)
LEMMA HeadLeaves ==
  ASSUME IInv, Drains(outq, space), NEW q, q = Read(outq, space),
         outq' = q \/ outq' = TakeHeadWorker(q)
  PROVE  /\ outq.active \in Seq(Buffer) /\ Len(outq.active) \in Nat \ {0} /\ outq'.read_pos = 0
         /\ outq'.active \in Seq(Buffer) /\ Len(outq'.active) = Len(outq.active) - 1
         /\ \A i \in 1 .. Len(outq.active) - 1 : Alike(outq'.active[i], outq.active[i + 1])
  <1>1. PICK a \in Seq(Buffer) : a = outq.active
    BY QueueShaped
  <1>2. a # <<>> /\ Head(outq.active) \in Buffer
    BY <1>1 DEF Drains
  <1>3. PICK k \in Nat : k = Len(a) /\ k # 0
    BY <1>2
  <1>4. Head(outq.active).size \in Nat
    BY <1>2 DEF Buffer
  <1>5. IsQueue(q, Buffer, Nat) /\ q.active = Tail(a)
    BY <1>1, <1>4, QueueShaped, ReadOut
  <1>6. q.read_pos = 0
    BY QueueShaped, ReadOutPos
  <1>7. PICK t \in Seq(Buffer) : t = q.active
    BY <1>5 DEF IsQueue
  <1>8. Len(t) = k - 1 /\ \A i \in 1 .. k - 1 : t[i] = a[i + 1]
    BY <1>2, <1>3, <1>5, <1>7
  <1>9. CASE outq' = q
    <2>1. \A i \in 1 .. k - 1 : Alike(t[i], a[i + 1])
      BY <1>8 DEF Alike
    <2> QED BY <1>1, <1>3, <1>6, <1>7, <1>8, <1>9, <2>1
  <1>10. CASE outq' = TakeHeadWorker(q)
    <2>1. /\ outq'.active \in Seq(Buffer) /\ Len(outq'.active) = Len(t)
          /\ \A i \in DOMAIN t : Alike(outq'.active[i], t[i])
          /\ outq'.read_pos = q.read_pos
      BY <1>5, <1>7, <1>10, HeadForgotten
    <2>2. \A i \in 1 .. k - 1 : Alike(outq'.active[i], a[i + 1])
      BY <1>3, <1>8, <2>1
    <2> QED BY <1>1, <1>3, <1>6, <1>8, <2>1, <2>2
  <1> QED BY <1>9, <1>10

LEMMA ReadOutData == ASSUME IInv, DataInv, ReadQueue, Drains(outq, space) PROVE Faithful
  <1>1. /\ UNCHANGED <<setup, gave_up, wl, sequence, block, thr, direct, thread_error, avail, eaten>>
        /\ pc \in {"read", "reread"} /\ Live /\ pending \in {"RUN", "FINISH"} /\ space \in Nat
        /\ InputInv /\ OutputInv /\ WorkInv /\ Faults /\ Placed /\ Parsed /\ Drained /\ BuffersFit
        /\ InputFits /\ setup \in Setups /\ File' = File /\ Flows
        /\ space' = space - Available(outq, space) /\ output' = output \o Copied(outq, space)
    BY WaitStays
  <1>2. PICK q : q = Read(outq, space)
    OBVIOUS
  <1>3. outq.active # <<>> /\ Head(outq.active).finished
        /\ outq.read_pos + Available(outq, space) = Head(outq.active).pos
    BY DEF Drains
  <1>4. PICK m \in Nat : Handed(m) /\ Delivered(m)
    BY <1>1 DEF OutputInv, Handing
  <1>5. PICK d \in Nat : d = m - Len(outq.active)
    BY <1>4 DEF Delivered
  <1>6. /\ d \in 0 .. Len(File) /\ d < Len(File) /\ Clean(d) /\ d + 1 \in 1 .. Len(File)
        /\ Head(outq.active) = outq.active[1] /\ outq.active[1] \in Buffer /\ outq.active[1].job = d + 1
        /\ BufferFits(outq.active[1])
        /\ Available(outq, space) \in Nat /\ Available(outq, space) <= space
        /\ outq.read_pos \in Nat /\ outq.read_pos + Available(outq, space) <= outq.active[1].pos
        /\ outq.active[1].pos \in Nat /\ outq.active[1].pos <= File[d + 1].out /\ File[d + 1].out \in Nat
        /\ sequence # "BLOCK_DIRECT_RUN" /\ output = Stretch(d, outq.read_pos)
        /\ output \o Copied(outq, space) = Stretch(d, outq.read_pos + Available(outq, space))
        /\ \A e \in 1 .. d : File[e].flaw # "data"
    BY <1>1, <1>3, <1>4, <1>5, HeadRead
  <1>7. PICK head \in Buffer :
          /\ head = outq.active[1] /\ head.finished /\ head.job = d + 1 /\ head.pos \in Nat
          /\ BufferFits(head) /\ output' = Stretch(d, head.pos)
    BY <1>1, <1>3, <1>6
  <1>8. space' \in Nat
    <2>1. PICK n \in Nat : n = Available(outq, space) /\ n <= space
      BY <1>6
    <2> QED BY <1>1, <2>1
  <1>9. Promise!Delivers
    <2>1. PICK n \in Nat, k \in Nat, o \in Nat :
            n = Available(outq, space) /\ k = outq.read_pos /\ o = File[d + 1].out
      BY <1>6
    <2>2. k + n <= o /\ output = Stretch(d, k) /\ output' = Stretch(d, k + n)
      <3>1. PICK p \in Nat : p = outq.active[1].pos /\ p <= o /\ k + n <= p
        BY <1>6, <2>1
      <3>2. k + n <= o
        BY <3>1
      <3> QED BY <1>1, <1>6, <2>1, <3>2
    <2> QED BY <1>1, <1>6, <2>1, <2>2, ReadDelivers
  <1>10. ReadRet(outq, space) = head.ret
    BY <1>6, <1>7 DEF ReadRet
  <1>11. CASE head.ret # "STREAM_END"
    <2>1. head.ret = "DATA_ERROR" /\ File[d + 1].flaw = "data"
      BY <1>7, <1>11 DEF BufferFits
    <2>2. StopAndFail("DATA_ERROR")
      BY <1>10, <2>1 DEF ReadQueue
    <2>3. pc' = "app" /\ pending' = "Error" /\ ret' = "DATA_ERROR"
      BY <2>2, ReturnsCall DEF StopAndFail
    <2>4. PICK b \in 1 .. Len(File) : b = d + 1
      BY <1>6
    <2>5. File[b].flaw # "none" /\ ~Promise!BehindData(File[b].flaw) /\ d = b - 1 /\ Clean(b - 1)
      BY <1>6, <2>1, <2>4 DEF Promise!BehindData
    <2>6. Promise!FlawShows
      BY <1>1, <1>6, <1>7, <2>5, FlawReached
    <2>7. Promise!Ends
      BY <2>3, <2>6, EndsWithFlaw
    <2>8. DataInv'
      BY <1>8, <2>3 DEF DataInv, CallFits, Live
    <2> QED BY <1>1, <1>9, <2>7, <2>8, PromiseSteps DEF Faithful
  <1>12. CASE head.ret = "STREAM_END"
    <2>1. /\ outq' = TakeHeadWorker(q) /\ ws' = AskedForPartial(q) /\ GoTo("reread")
          /\ UNCHANGED pending_error
      BY <1>2, <1>10, <1>12 DEF ReadQueue
    <2>2. pc' = "reread" /\ UNCHANGED <<action, pending>>
      BY <2>1, GoesCall
    <2>3. CallFits'
      BY <1>1, <1>8, <2>2, CallStays
    <2>4. \A w \in Worker : /\ ws'[w].job = ws[w].job /\ ws'[w].state = ws[w].state
                            /\ ws'[w].in_filled = ws[w].in_filled
      BY <2>1, AskedWork
    <2>5. Placed'
      <3>1. DataStart' = DataStart /\ DataEnd' = DataEnd /\ NextStart' = NextStart
        BY <1>1, SameFile
      <3>2. sequence = "BLOCK_THR_RUN" => thr \in Worker
        BY FedTyped DEF Fed
      <3> QED BY <1>1, <2>1, <2>2, <2>4, <3>1, <3>2 DEF Placed
    <2>6. Parsed'
      <3>1. NextStart' = NextStart
        BY <1>1, SameFile
      <3> QED BY <1>1, <2>1, <3>1 DEF Parsed, BehindBlock, BeforeRecord
    <2>7. PICK a \in Seq(Buffer), h \in Seq(Buffer), k \in Nat :
            /\ a = outq.active /\ h = outq'.active /\ k = Len(h) /\ Len(a) = k + 1
            /\ \A i \in 1 .. k : Alike(h[i], a[i + 1])
            /\ outq'.read_pos = 0
      <3>1. /\ outq.active \in Seq(Buffer) /\ Len(outq.active) \in Nat \ {0} /\ outq'.read_pos = 0
            /\ outq'.active \in Seq(Buffer) /\ Len(outq'.active) = Len(outq.active) - 1
            /\ \A i \in 1 .. Len(outq.active) - 1 : Alike(outq'.active[i], outq.active[i + 1])
        BY <1>2, <2>1, HeadLeaves
      <3>2. PICK l \in Nat \ {0} : l = Len(outq.active)
        BY <3>1
      <3>3. PICK k \in Nat : k = l - 1
        BY <3>2
      <3>4. Len(outq'.active) = k /\ Len(outq.active) = k + 1
            /\ \A i \in 1 .. k : Alike(outq'.active[i], outq.active[i + 1])
        BY <3>1, <3>2, <3>3
      <3> QED BY <3>1, <3>4
    <2>8. DOMAIN a = 1 .. k + 1 /\ DOMAIN h = 1 .. k /\ \A i \in 1 .. k : i + 1 \in 1 .. k + 1
      BY <2>7
    <2>9. Handed(m)'
      BY <1>1, <1>4, <2>1, <2>2 DEF Handed, Fresh
    <2>10. Delivered(m)'
      <3>1. PICK e \in Nat : e = d + 1
        OBVIOUS
      <3>2. m - k = e
        <4>1. Len(outq.active) = k + 1
          BY <2>7
        <4>2. d = m - (k + 1)
          BY <1>5, <4>1
        <4> QED BY <3>1, <4>2
      <3>3. \A i \in 1 .. k : h[i].job = e + i
        <4>1. ASSUME NEW i \in 1 .. k PROVE h[i].job = e + i
          <5>1. a[i + 1].job = d + (i + 1)
            BY <1>4, <1>5, <2>7, <2>8 DEF Delivered
          <5>2. h[i].job = a[i + 1].job
            BY <2>7 DEF Alike
          <5> QED BY <3>1, <5>1, <5>2
        <4> QED BY <4>1
      <3>4. File[e].flaw # "data" /\ head.pos = File[e].out
        BY <1>7, <1>12, <3>1 DEF BufferFits
      <3>5. \A b \in 1 .. e : File[b].flaw # "data"
        <4>1. ASSUME NEW b \in 1 .. e PROVE b = e \/ b \in 1 .. d
          BY <3>1
        <4> QED BY <1>6, <3>4, <4>1
      <3>6. output' = Stretch(e, 0)
        <4>1. Stretch(d, File[d + 1].out) = Promise!Data(d + 1)
          BY <1>1, <1>6, StretchFull
        <4>2. Stretch(e, 0) = Promise!Data(e)
          BY <1>1, <1>6, <3>1, StretchNone
        <4> QED BY <1>7, <3>1, <3>4, <4>1, <4>2
      <3>7. Position' = 0
        BY <1>1, <1>6, <2>7 DEF Position
      <3>8. output' = Stretch(e, Position)'
        BY <1>1, <3>6, <3>7 DEF Stretch, Promise!Data
      <3> QED BY <1>1, <2>7, <2>8, <3>2, <3>3, <3>5, <3>8 DEF Delivered
    <2>11. Drained'
      <3>1. sequence \notin {"BLOCK_DIRECT_RUN", "INDEX_DECODE", "STREAM_FOOTER", "STREAM_PADDING", "STREAM_HEADER"}
        BY <1>1, <1>3 DEF Drained
      <3> QED BY <1>1, <3>1 DEF Drained
    <2>12. BuffersFit'
      <3>1. ASSUME NEW i \in 1 .. k PROVE BufferFits(outq.active[i])' /\ h[i].pos \in Nat
        <4>1. PICK b : b = a[i + 1]
          OBVIOUS
        <4>2. PICK c : c = h[i]
          OBVIOUS
        <4>3. BufferFits(b) /\ Alike(c, b)
          BY <1>1, <2>7, <2>8, <4>1, <4>2 DEF BuffersFit
        <4>4. BufferFits(c)'
          BY <1>1, <4>3 DEF BufferFits, Alike
        <4>5. c.pos \in Nat
          <5>1. i + 1 \in DOMAIN outq.active
            BY <2>7, <2>8
          <5>2. File[b.job].out \in Nat
            BY <1>1, <2>7, <4>1, <5>1, BufferKnown DEF OutputInv
          <5> QED BY <4>3, <5>2 DEF BufferFits, Alike
        <4> QED BY <2>7, <4>2, <4>4, <4>5
      <3>2. outq'.read_pos \in 0 .. (IF outq'.active = <<>> THEN 0 ELSE outq'.active[1].pos)
        <4>1. CASE h = <<>>
          BY <2>7, <4>1
        <4>2. CASE h # <<>>
          <5>1. 1 \in 1 .. k
            BY <2>7, <4>2
          <5> QED BY <2>7, <3>1, <4>2, <5>1
        <4> QED BY <4>1, <4>2
      <3> QED BY <2>7, <2>8, <3>1, <3>2 DEF BuffersFit
    <2>13. WorkInv'
      <3>1. ASSUME NEW w \in Worker PROVE AtWork(w)' <=> AtWork(w)
        BY <1>1, <2>2, <2>4 DEF AtWork
      <3>2. ASSUME NEW w \in Worker PROVE WorkFits(w)'
        <4>1. WorkFits(w) /\ ws'[w].job = ws[w].job
          BY <1>1, <2>4 DEF WorkInv
        <4>2. AtWork(w) => \E i \in DOMAIN outq'.active : Fills(w, outq.active[i])'
          <5> SUFFICES ASSUME AtWork(w) PROVE \E i \in DOMAIN outq'.active : Fills(w, outq.active[i])'
            OBVIOUS
          <5>1. PICK j \in 1 .. k + 1 : Fills(w, a[j])
            BY <2>7, <2>8, <4>1 DEF WorkFits
          <5>2. j # 1
            BY <1>7, <2>7, <5>1 DEF Fills
          <5>3. PICK i \in 1 .. k : j = i + 1
            BY <5>1, <5>2
          <5>4. PICK b : b = a[j]
            OBVIOUS
          <5>5. PICK c : c = h[i]
            OBVIOUS
          <5>6. Fills(w, b) /\ Alike(c, b)
            BY <2>7, <5>1, <5>3, <5>4, <5>5
          <5>7. Fills(w, c)'
            BY <1>1, <4>1, <5>6 DEF Fills, Alike
          <5> QED BY <2>7, <2>8, <5>5, <5>7
        <4> QED BY <1>1, <3>1, <4>1, <4>2 DEF WorkFits, Decoded
      <3> QED BY <1>1, <2>4, <3>1, <3>2 DEF WorkInv, Alone
    <2>14. Faults'
      <3>1. (\E i \in DOMAIN outq.active : FailedBuffer(outq.active[i]))
               => \E i \in DOMAIN outq'.active : FailedBuffer(outq.active[i])'
        <4> SUFFICES ASSUME NEW j \in 1 .. k + 1, FailedBuffer(a[j])
                     PROVE  \E i \in DOMAIN outq'.active : FailedBuffer(outq.active[i])'
          BY <2>7, <2>8
        <4>1. j # 1
          BY <1>7, <1>12, <2>7 DEF FailedBuffer
        <4>2. PICK i \in 1 .. k : j = i + 1
          BY <4>1
        <4>3. PICK c : c = h[i]
          OBVIOUS
        <4>4. Alike(c, a[j])
          BY <2>7, <4>2, <4>3
        <4>5. FailedBuffer(c)'
          BY <4>4 DEF FailedBuffer, Alike
        <4> QED BY <2>7, <2>8, <4>3, <4>5
      <3> QED BY <1>1, <2>1, <3>1 DEF Faults
    <2>15. DataInv'
      <3>1. Handing'
        BY <2>9, <2>10 DEF Handing
      <3> QED BY <2>3, <2>5, <2>6, <2>11, <2>12, <2>13, <2>14, <3>1 DEF DataInv, InputInv, OutputInv
    <2> QED BY <1>1, <1>9, <2>2, <2>15, PromiseOpen DEF Faithful
  <1> QED BY <1>11, <1>12

LEMMA ReadQueueData == ASSUME IInv, DataInv, ReadQueue PROVE Faithful
  BY ReadOnData, ReadOutData

-----------------------------------------------------------------------------
(* The workers' threads: what a thread decodes, shows and finishes.        *)

(* A thread that is decoding has not been told to stop.                    *)
Running == Live => \A w \in Worker : wl[w].pc \in {"decode", "publish", "settle"} => ws[w].state = "RUN"

(* A step of a thread leaves the application's thread where it is, or      *)
(* wakes it up.                                                            *)
Unseen ==
  /\ pc' = pc \/ (pc = "sleep" /\ pc' = "read")
  /\ UNCHANGED <<setup, gave_up, action, pending, ret, sequence, pending_error, thr, block, direct,
                 avail, space, eaten, output>>

LEMMA UnseenData ==
  ASSUME IInv, DataInv, Unseen, \A w \in Worker : ws'[w].in_filled = ws[w].in_filled,
         Live => /\ (outq.active = <<>> => outq'.active = <<>>)
                 /\ \A n \in Nat : Delivered(n) => Delivered(n)'
                 /\ BuffersFit' /\ WorkInv' /\ Faults'
  PROVE  Faithful
  <1>1. [Promise!Next]_(Promise!vars)
    BY PromiseStutters DEF Unseen
  <1>2. File' = File /\ DataStart' = DataStart /\ DataEnd' = DataEnd /\ NextStart' = NextStart
        /\ FileSize' = FileSize
    BY SameFile DEF Unseen
  <1>3. CallFits' /\ (Live' => Live)
    BY <1>2 DEF DataInv, CallFits, Live, Unseen
  <1>4. ASSUME Live PROVE InputInv' /\ OutputInv'
    <2>1. InputInv /\ OutputInv
      BY <1>4 DEF DataInv
    <2>2. Placed'
      <3>1. (sequence = "BLOCK_THR_RUN" \/ pc \in {"start", "partial"}) => thr \in Worker
        BY FedTyped DEF Fed
      <3>2. Placed
        BY <2>1 DEF InputInv
      <3> QED BY <1>2, <3>1, <3>2 DEF Placed, Unseen
    <2>3. Parsed'
      BY <1>2, <2>1 DEF InputInv, Parsed, BehindBlock, BeforeRecord, Unseen
    <2>4. Handing'
      <3>1. PICK n \in Nat : Handed(n) /\ Delivered(n)
        BY <2>1 DEF OutputInv, Handing
      <3>2. Handed(n)'
        BY <1>2, <3>1 DEF Handed, Fresh, Unseen
      <3> QED BY <1>4, <3>1, <3>2 DEF Handing
    <2>5. Drained'
      <3>1. Decoded(File[block], direct.in)' = Decoded(File[block], direct.in)
        BY <1>2 DEF Decoded, Unseen
      <3> QED BY <1>2, <1>4, <2>1, <3>1 DEF OutputInv, Drained, Unseen
    <2> QED BY <1>4, <2>2, <2>3, <2>4, <2>5 DEF InputInv, OutputInv
  <1>5. DataInv'
    BY <1>3, <1>4 DEF DataInv
  <1> QED BY <1>1, <1>5 DEF Faithful

LEMMA DeliveredStays ==
  ASSUME Unseen, DOMAIN outq'.active = DOMAIN outq.active, Len(outq'.active) = Len(outq.active),
         outq'.read_pos = outq.read_pos, \A i \in DOMAIN outq.active : outq'.active[i].job = outq.active[i].job
  PROVE  \A n \in Nat : Delivered(n) => Delivered(n)'
  <1>1. File' = File /\ output' = output /\ Position' = Position
    BY DEF File, Position, Unseen
  <1>2. \A d, k : Stretch(d, k)' = Stretch(d, k)
    BY <1>1 DEF Stretch, Promise!Data
  <1> QED BY <1>1, <1>2 DEF Delivered

(* What one thread does to nothing but its own fields.                     *)
OneThread(w) ==
  /\ ws'[w].job = ws[w].job /\ ws'[w].in_filled = ws[w].in_filled
  /\ \A v \in Worker : v # w => ws'[v] = ws[v] /\ wl'[v] = wl[v]

LEMMA OwnData ==
  ASSUME IInv, DataInv, Unseen, NEW w \in Worker, OneThread(w), UNCHANGED <<outq, thread_error>>,
         Live => WorkFits(w)' /\ (AtWork(w)' => AtWork(w))
  PROVE  Faithful
  <1>1. ASSUME Live PROVE WorkInv'
    <2>1. WorkInv /\ File' = File
      BY <1>1 DEF DataInv, Unseen, File
    <2>2. ASSUME NEW v \in Worker, v # w PROVE WorkFits(v)' /\ (AtWork(v)' <=> AtWork(v))
      <3>1. WorkFits(v) /\ ws'[v] = ws[v] /\ wl'[v] = wl[v] /\ (AtWork(v)' <=> AtWork(v))
        BY <2>1, <2>2 DEF WorkInv, OneThread, AtWork, Unseen
      <3> QED BY <2>1, <3>1 DEF WorkFits, Fills, Decoded
    <2>3. Alone'
      BY <1>1, <2>1, <2>2 DEF WorkInv, Alone, OneThread
    <2> QED BY <1>1, <2>2, <2>3 DEF WorkInv
  <1>2. ASSUME Live PROVE BuffersFit' /\ Faults'
    BY <1>2 DEF DataInv, OutputInv, BuffersFit, BufferFits, Faults, FailedBuffer, Unseen, File
  <1>3. \A n \in Nat : Delivered(n) => Delivered(n)'
    BY DeliveredStays
  <1>4. \A v \in Worker : ws'[v].in_filled = ws[v].in_filled
    BY DEF OneThread
  <1> QED BY <1>1, <1>2, <1>3, <1>4, UnseenData

LEMMA LookData == ASSUME IInv, DataInv, NEW w \in Worker, Look(w) PROVE Faithful
  <1>1. /\ Unseen /\ UNCHANGED <<outq, ws, thread_error>> /\ wl[w].pc = "idle"
        /\ \/ ws[w].state = "EXIT" /\ wl' = [wl EXCEPT ![w] = [IdleThread EXCEPT !.pc = "exited"]]
           \/ /\ ws[w].state = "RUN"
              /\ wl' = [wl EXCEPT ![w].pc = "decode", ![w].seen = ws[w].in_filled,
                            ![w].partial = ws[w].partial]
    BY DEF Look, Unseen, call, coder, kept, locals, shared, flow, hist
  <1>2. wl \in [Worker -> ThreadRecord] /\ File' = File
    BY <1>1 DEF IInv, Types, Unseen, File
  <1>3. OneThread(w)
    BY <1>1, <1>2 DEF OneThread
  <1>4. ASSUME Live PROVE WorkFits(w)' /\ (AtWork(w)' => AtWork(w))
    <2>1. WorkFits(w)
      BY <1>4 DEF DataInv, WorkInv
    <2>2. CASE ws[w].state = "EXIT" /\ wl' = [wl EXCEPT ![w] = [IdleThread EXCEPT !.pc = "exited"]]
      <3>1. wl'[w].pc = "exited" /\ wl'[w].d.out = 0
        <4>1. PICK t : t = [IdleThread EXCEPT !.pc = "exited"]
          OBVIOUS
        <4>2. t.pc = "exited" /\ t.d.out = 0
          BY <4>1 DEF IdleThread, FreshDecoder
        <4> QED BY <1>2, <2>2, <4>1, <4>2
      <3>2. (pc = "start" /\ thr = w) => ws[w].state = "IDLE"
        BY DEF IInv, ThreadInv, FedSound, Fed
      <3>3. ~AtWork(w)'
        BY <1>1, <2>2, <3>1, <3>2 DEF AtWork, Unseen
      <3> QED BY <3>1, <3>3 DEF WorkFits
    <2>3. CASE /\ ws[w].state = "RUN"
               /\ wl' = [wl EXCEPT ![w].pc = "decode", ![w].seen = ws[w].in_filled,
                             ![w].partial = ws[w].partial]
      <3>1. wl'[w].pc = "decode" /\ wl'[w].d = wl[w].d
        <4>1. PICK t, s, p : t \in ThreadRecord /\ t = wl[w] /\ s = ws[w].in_filled /\ p = ws[w].partial
          BY <1>2
        <4>2. PICK u : u = [t EXCEPT !.pc = "decode", !.seen = s, !.partial = p]
          OBVIOUS
        <4>3. u.pc = "decode" /\ u.d = t.d
          BY <4>2 DEF ThreadRecord
        <4>4. wl' = [wl EXCEPT ![w] = u]
          BY <1>2, <2>3, <4>1, <4>2
        <4> QED BY <1>2, <4>1, <4>3, <4>4
      <3>2. AtWork(w) /\ AtWork(w)'
        BY <2>3, <3>1 DEF AtWork
      <3> QED BY <1>1, <1>2, <2>1, <3>1, <3>2 DEF WorkFits, Fills, Decoded
    <2> QED BY <1>1, <2>2, <2>3
  <1> QED BY <1>1, <1>3, <1>4, OwnData

LEMMA SettleData == ASSUME IInv, DataInv, NEW w \in Worker, Settle(w) PROVE Faithful
  <1>1. /\ Unseen /\ UNCHANGED <<outq, thread_error>> /\ wl[w].pc = "settle"
        /\ ws' = [ws EXCEPT ![w].state = StateAfterBlock(@), ![w].alive = AliveAfter(w)]
        /\ wl' = [wl EXCEPT ![w].pc = "report"]
    BY DEF Settle, Unseen, call, coder, kept, locals, shared, flow, hist
  <1>2. wl \in [Worker -> ThreadRecord] /\ ws \in [Worker -> WorkerRecord] /\ File' = File
    BY <1>1 DEF IInv, Types, Unseen, File
  <1>3. wl'[w].pc = "report" /\ wl'[w].d = wl[w].d /\ wl'[w].ret = wl[w].ret
        /\ \A v \in Worker : v # w => wl'[v] = wl[v]
    <2>1. PICK t \in ThreadRecord : t = wl[w]
      BY <1>2
    <2>2. PICK u : u = [t EXCEPT !.pc = "report"]
      OBVIOUS
    <2>3. u.pc = "report" /\ u.d = t.d /\ u.ret = t.ret
      BY <2>2 DEF ThreadRecord
    <2>4. wl' = [wl EXCEPT ![w] = u]
      BY <1>1, <1>2, <2>1, <2>2
    <2> QED BY <1>2, <2>1, <2>3, <2>4
  <1>4. OneThread(w)
    <2>1. PICK x, st, al : x \in WorkerRecord /\ x = ws[w] /\ st = StateAfterBlock(x.state) /\ al = AliveAfter(w)
      BY <1>2
    <2>2. PICK y : y = [x EXCEPT !.state = st, !.alive = al]
      OBVIOUS
    <2>3. y.job = x.job /\ y.in_filled = x.in_filled
      BY <2>2 DEF WorkerRecord
    <2>4. ws' = [ws EXCEPT ![w] = y]
      BY <1>1, <1>2, <2>1, <2>2
    <2> QED BY <1>2, <1>3, <2>1, <2>3, <2>4 DEF OneThread
  <1>5. ASSUME Live PROVE WorkFits(w)' /\ (AtWork(w)' => AtWork(w))
    <2>1. WorkFits(w) /\ AtWork(w) /\ AtWork(w)'
      BY <1>1, <1>3, <1>5 DEF DataInv, WorkInv, AtWork
    <2> QED BY <1>1, <1>2, <1>3, <1>4, <2>1 DEF WorkFits, Fills, Decoded, OneThread
  <1> QED BY <1>1, <1>4, <1>5, OwnData

LEMMA DecodeData == ASSUME IInv, DataInv, Running, NEW w \in Worker, Decode(w) PROVE Faithful
  <1>1. /\ Unseen /\ UNCHANGED <<outq, ws, thread_error>> /\ wl[w].pc = "decode"
    BY DEF Decode, Unseen, call, coder, kept, locals, shared, flow, hist
  <1>2. /\ wl \in [Worker -> ThreadRecord] /\ File' = File
        /\ wl[w] \in ThreadRecord /\ ThreadSound(w) /\ ws[w].in_filled \in Nat
        /\ Given(w) /\ ws[w].job \in DOMAIN File /\ File[ws[w].job].in \in Nat \ {0}
        /\ File[ws[w].job].out \in Nat /\ wl[w].d \in [in : Int, out : Int]
    BY <1>1, ThreadTyped DEF IInv, Types, Unseen, File
  <1>3. PICK b, d, s :
          b = File[ws[w].job] /\ d = wl[w].d /\ s = File[ws[w].job].out /\ s \in Nat
    BY <1>2
  <1>4. PICK seen \in Int, partial \in Partials : seen = wl[w].seen /\ partial = wl[w].partial
    BY <1>2 DEF ThreadRecord
  <1>5. PICK a : a = SmallerOf(seen - d.in, ChunkMax)
    OBVIOUS
  <1>6. PICK c \in Coded(b, d, a, s) :
          wl' = [wl EXCEPT ![w].d = c.d, ![w].ret = c.ret, ![w].seen = 0, ![w].partial = "DISABLED",
                   ![w].pc = IF c.ret # "OK" THEN "settle"
                             ELSE IF partial # "DISABLED" THEN "publish" ELSE "idle"]
    <2>1. PICK c \in Coded(File[ws[w].job], wl[w].d, SmallerOf(wl[w].seen - wl[w].d.in, ChunkMax),
                           File[ws[w].job].out) :
            wl' = [wl EXCEPT ![w].d = c.d, ![w].ret = c.ret, ![w].seen = 0, ![w].partial = "DISABLED",
                     ![w].pc = IF c.ret # "OK" THEN "settle"
                               ELSE IF wl[w].partial # "DISABLED" THEN "publish" ELSE "idle"]
      BY Zenon DEF Decode
    <2>2. c \in Coded(b, d, a, s)
      BY <1>3, <1>4, <1>5, <2>1
    <2> QED BY <1>4, <2>1, <2>2
  <1>7. /\ d.in <= seen /\ seen <= ws[w].in_filled /\ ws[w].in_filled <= b.in /\ 0 <= d.in
        /\ d.in \in Int /\ d.out \in Int
    BY <1>1, <1>2, <1>3, <1>4 DEF ThreadSound, Works
  <1>8. a \in Nat /\ d.in \in 0 .. b.in
    <2>1. PICK n \in Nat : n = seen - d.in
      <3>1. seen - d.in \in Nat
        BY <1>4, <1>7
      <3> QED BY <3>1
    <2>2. a \in Nat
      BY <1>5, <2>1, StreamDecoderAssumption DEF SmallerOf
    <2>3. d.in \in 0 .. b.in
      BY <1>2, <1>3, <1>4, <1>7
    <2> QED BY <2>2, <2>3
  <1>9. PICK p : p = IF c.ret # "OK" THEN "settle" ELSE IF partial # "DISABLED" THEN "publish" ELSE "idle"
    OBVIOUS
  <1>10. /\ wl'[w].d = c.d /\ wl'[w].ret = c.ret /\ wl'[w].pc = p
         /\ \A v \in Worker : v # w => wl'[v] = wl[v]
    <2>1. PICK x, e, r : x \in ThreadRecord /\ x = wl[w] /\ e = c.d /\ r = c.ret
      BY <1>2
    <2>2. PICK t : t = [x EXCEPT !.d = e, !.ret = r, !.seen = 0, !.partial = "DISABLED", !.pc = p]
      OBVIOUS
    <2>3. t.d = e /\ t.ret = r /\ t.pc = p
      BY <2>2 DEF ThreadRecord
    <2>4. wl' = [wl EXCEPT ![w] = t]
      BY <1>2, <1>6, <1>9, <2>1, <2>2
    <2> QED BY <1>2, <2>1, <2>3, <2>4
  <1>11. OneThread(w)
    BY <1>1, <1>10 DEF OneThread
  <1>12. ASSUME Live PROVE WorkFits(w)' /\ (AtWork(w)' => AtWork(w))
    <2>1. WorkFits(w) /\ AtWork(w) /\ ws[w].state = "RUN"
      BY <1>1, <1>12 DEF DataInv, WorkInv, AtWork, Running
    <2>2. d.out \in 0 .. Decoded(b, d.in)
      BY <1>3, <2>1 DEF WorkFits
    <2>3. /\ c.d.in \in d.in .. b.in /\ c.d.in <= d.in + a
          /\ c.d.out \in Nat /\ d.out <= c.d.out /\ c.d.out <= Decoded(b, c.d.in) /\ c.d.out <= d.out + s
          /\ Decoded(b, c.d.in) \in 0 .. b.out /\ c.d.out <= b.out
          /\ c.ret \in {"OK", "STREAM_END", "DATA_ERROR"}
          /\ c.ret = "STREAM_END" => c.d.in = b.in /\ c.d.out = b.out /\ b.flaw # "data"
          /\ c.ret = "DATA_ERROR" => b.flaw = "data"
      <3>1. b.in \in Nat \ {0} /\ b.out \in Nat /\ s \in Nat
        BY <1>2, <1>3
      <3>2. c \in Coded(b, d, a, s)
        BY <1>6
      <3> QED BY <1>8, <2>2, <3>1, <3>2, CodedFits
    <2>4. AtWork(w)'
      BY <1>1, <2>1 DEF AtWork
    <2>5. \E i \in DOMAIN outq.active : Fills(w, outq.active[i])'
      <3>1. PICK i \in DOMAIN outq.active : Fills(w, outq.active[i])
        BY <2>1 DEF WorkFits
      <3>2. outq.active[i] \in Buffer
        BY QueueShaped, <3>1
      <3>3. PICK m \in Nat, n \in Int : m = c.d.out /\ n = d.out /\ n <= m
        BY <1>7, <2>3
      <3>4. PICK q \in Buffer : q = outq.active[i]
        BY <3>2
      <3>5. q.pos \in Int
        BY DEF Buffer
      <3>6. q.pos <= m
        BY <1>3, <3>1, <3>3, <3>4, <3>5 DEF Fills
      <3>7. Fills(w, q)'
        BY <1>1, <1>10, <3>1, <3>3, <3>4, <3>6 DEF Fills
      <3> QED BY <1>1, <3>4, <3>7 DEF Fills
    <2>6. \E i \in DOMAIN outq'.active : Fills(w, outq.active[i])'
      BY <1>1, <2>5
    <2>7. wl'[w].d.out \in 0 .. Decoded(File[ws[w].job], wl[w].d.in)'
      <3>1. Decoded(File[ws[w].job], wl[w].d.in)' = Decoded(b, c.d.in)
        BY <1>1, <1>2, <1>3, <1>10 DEF Decoded
      <3> QED BY <1>10, <2>3, <3>1
    <2>8. p \in {"settle", "report"} =>
            \/ c.ret = "STREAM_END" /\ c.d.out = b.out /\ b.flaw # "data"
            \/ c.ret = "DATA_ERROR" /\ b.flaw = "data"
      BY <1>9, <2>3
    <2>9. File'[ws'[w].job] = b
      BY <1>1, <1>2, <1>3
    <2> QED BY <1>10, <2>1, <2>4, <2>6, <2>7, <2>8, <2>9 DEF WorkFits
  <1> QED BY <1>1, <1>11, <1>12, OwnData

(* A thread writes to the buffer it fills; the others are left alone.      *)
Writes(j) ==
  /\ j \in DOMAIN outq.active /\ DOMAIN outq'.active = DOMAIN outq.active
  /\ Len(outq'.active) = Len(outq.active) /\ outq'.read_pos = outq.read_pos
  /\ \A i \in DOMAIN outq.active : i # j => outq'.active[i] = outq.active[i]
  /\ ~outq.active[j].finished /\ outq'.active[j].job = outq.active[j].job
  /\ outq.active[j].pos <= outq'.active[j].pos

LEMMA WriteData ==
  ASSUME IInv, DataInv, Live, Unseen, NEW w \in Worker, OneThread(w), AtWork(w), NEW j, Writes(j),
         outq.active[j].job = ws[w].job, BufferFits(outq'.active[j]),
         WorkFits(w)', AtWork(w)' => AtWork(w),
         \/ thread_error' = thread_error
         \/ thread_error' = "DATA_ERROR" /\ FailedBuffer(outq'.active[j])
  PROVE  Faithful
  <1>1. PICK a \in Seq(Buffer) : a = outq.active
    BY QueueShaped
  <1>2. PICK h : h = outq'.active
    OBVIOUS
  <1>3. /\ j \in DOMAIN a /\ DOMAIN h = DOMAIN a /\ \A i \in DOMAIN a : i # j => h[i] = a[i]
        /\ ~a[j].finished /\ h[j].job = a[j].job /\ a[j].pos <= h[j].pos /\ a[j].job = ws[w].job
        /\ BufferFits(h[j]) /\ File' = File /\ outq'.read_pos = outq.read_pos
    BY <1>1, <1>2 DEF Writes, Unseen, File
  <1>4. WorkInv /\ Faults /\ BuffersFit
    BY DEF DataInv, OutputInv
  <1>5. BuffersFit'
    <2>1. ASSUME NEW i \in DOMAIN h PROVE BufferFits(h[i])'
      <3>1. PICK b : b = h[i]
        OBVIOUS
      <3>2. BufferFits(b)
        BY <1>1, <1>3, <1>4, <3>1 DEF BuffersFit
      <3>3. BufferFits(b)'
        BY <1>3, <3>2 DEF BufferFits
      <3>4. b = (outq'.active)[i]
        BY <1>2, <3>1
      <3> QED BY <1>2, <3>1, <3>3
    <2>2. outq.read_pos \in 0 .. (IF h = <<>> THEN 0 ELSE h[1].pos)
      <3>1. a = <<>> <=> h = <<>>
        BY <1>1, <1>3
      <3>2. CASE a = <<>>
        BY <1>1, <1>4, <3>1, <3>2 DEF BuffersFit
      <3>3. CASE a # <<>>
        <4>1. 1 \in DOMAIN a /\ outq.read_pos \in 0 .. a[1].pos
          BY <1>1, <1>4, <3>3 DEF BuffersFit
        <4>2. a[1].pos <= h[1].pos /\ a[1].pos \in Int /\ h[1].pos \in Int
          <5>1. a[1] \in Buffer /\ a[j] \in Buffer
            BY <1>3, <4>1
          <5>2. a[1].pos \in Int
            BY <5>1 DEF Buffer
          <5>3. File[h[j].job].out \in Nat
            BY <1>1, <1>3, <1>4, BufferKnown DEF DataInv, OutputInv
          <5>4. h[j].pos \in Int
            BY <1>3, <5>3 DEF BufferFits
          <5> QED BY <1>3, <4>1, <5>2, <5>4
        <4>3. PICK r, p \in Int, q \in Int : r = outq.read_pos /\ p = a[1].pos /\ q = h[1].pos /\ p <= q
          BY <4>1, <4>2
        <4>4. r \in 0 .. q
          BY <4>1, <4>3
        <4> QED BY <3>1, <3>3, <4>3, <4>4
      <3> QED BY <3>2, <3>3
    <2> QED BY <1>2, <1>3, <2>1, <2>2 DEF BuffersFit
  <1>6. WorkInv'
    <2>1. ASSUME NEW v \in Worker, v # w PROVE WorkFits(v)' /\ (AtWork(v)' <=> AtWork(v))
      <3>1. WorkFits(v) /\ ws'[v] = ws[v] /\ wl'[v] = wl[v] /\ (AtWork(v)' <=> AtWork(v))
        BY <1>4, <2>1 DEF WorkInv, OneThread, AtWork, Unseen
      <3>2. ASSUME AtWork(v) PROVE \E i \in DOMAIN outq'.active : Fills(v, outq.active[i])'
        <4>1. PICK i \in DOMAIN a : Fills(v, a[i])
          BY <1>1, <3>1, <3>2 DEF WorkFits
        <4>2. i # j
          BY <1>3, <1>4, <2>1, <3>2, <4>1 DEF WorkInv, Alone, Fills
        <4>3. h[i] = a[i]
          BY <1>3, <4>2
        <4>4. PICK b : b = a[i] /\ b = h[i] /\ Fills(v, b)
          BY <4>1, <4>3
        <4>5. Fills(v, b)'
          BY <3>1, <4>4 DEF Fills
        <4> QED BY <1>2, <1>3, <4>1, <4>4, <4>5 DEF Fills
      <3> QED BY <1>3, <3>1, <3>2 DEF WorkFits, Decoded
    <2>2. Alone'
      BY <1>4, <2>1 DEF WorkInv, Alone, OneThread
    <2> QED BY <2>1, <2>2 DEF WorkInv
  <1>7. Faults'
    <2>1. ASSUME thread_error' # "OK" \/ pending_error = "PROG_ERROR"
          PROVE  \E i \in DOMAIN outq'.active : FailedBuffer(outq.active[i])'
      <3>1. CASE thread_error' = "DATA_ERROR" /\ FailedBuffer(outq'.active[j])
        BY <1>1, <1>2, <1>3, <3>1 DEF FailedBuffer
      <3>2. CASE thread_error' = thread_error
        <4>1. PICK i \in DOMAIN a : FailedBuffer(a[i])
          BY <1>1, <1>4, <2>1, <3>2 DEF Faults
        <4>2. h[i] = a[i]
          BY <1>3, <4>1 DEF FailedBuffer
        <4> QED BY <1>2, <1>3, <4>1, <4>2 DEF FailedBuffer
      <3> QED BY <3>1, <3>2
    <2> QED BY <1>3, <1>4, <2>1 DEF Faults, Unseen
  <1>8. \A n \in Nat : Delivered(n) => Delivered(n)'
    <2>1. \A i \in DOMAIN outq.active : outq'.active[i].job = outq.active[i].job
      BY DEF Writes
    <2> QED BY <2>1, DeliveredStays DEF Writes
  <1>9. outq.active = <<>> => outq'.active = <<>>
    BY <1>1, <1>3
  <1>10. \A v \in Worker : ws'[v].in_filled = ws[v].in_filled
    BY DEF OneThread
  <1> QED BY <1>5, <1>6, <1>7, <1>8, <1>9, <1>10, UnseenData

LEMMA BufferWritten ==
  ASSUME IInv, NEW j, j \in DOMAIN outq.active, NEW e, e.job = outq.active[j].job,
         outq.active[j].pos <= e.pos, ~outq.active[j].finished,
         outq' = [outq EXCEPT !.active = [outq.active EXCEPT ![j] = e]]
  PROVE  Writes(j) /\ outq'.active[j] = e
  <1>1. PICK a \in Seq(Buffer) : a = outq.active
    BY QueueShaped
  <1>2. PICK h : h = [a EXCEPT ![j] = e]
    OBVIOUS
  <1>3. DOMAIN h = DOMAIN a /\ Len(h) = Len(a) /\ h[j] = e /\ \A i \in DOMAIN a : i # j => h[i] = a[i]
    BY <1>1, <1>2
  <1>4. outq' = [outq EXCEPT !.active = h]
    BY <1>1, <1>2
  <1>5. outq'.active = h /\ outq'.read_pos = outq.read_pos
    <2>1. outq'.read_pos = outq.read_pos
      BY <1>4, QueueShaped, ActivePos
    <2>2. outq'.active = h
      BY <1>4, QueueShaped DEF Shaped
    <2> QED BY <2>1, <2>2
  <1> QED BY <1>1, <1>3, <1>5 DEF Writes

(* What the thread has decoded is part of its Block, and its buffer is at  *)
(* its place in the queue.                                                 *)
LEMMA BlockDecoded ==
  ASSUME IInv, DataInv, Live, NEW w \in Worker, wl[w].pc \in {"publish", "report"}
  PROVE  /\ AtWork(w) /\ WorkFits(w) /\ wl[w].d \in [in : Int, out : Int]
         /\ ws[w].job \in DOMAIN File /\ File[ws[w].job].out \in Nat
         /\ wl[w].d.out \in Nat /\ wl[w].d.out <= File[ws[w].job].out
         /\ \E j \in DOMAIN outq.active : j = Place(ws[w].job) /\ Fills(w, outq.active[j])
  <1>1. WorkFits(w) /\ AtWork(w)
    BY DEF DataInv, WorkInv, AtWork
  <1>2. /\ ThreadSound(w) /\ ws[w].in_filled \in Nat /\ wl[w].d \in [in : Int, out : Int]
        /\ Given(w) /\ ws[w].job \in DOMAIN File /\ File[ws[w].job].in \in Nat \ {0}
        /\ File[ws[w].job].out \in Nat
    BY ThreadTyped
  <1>3. /\ wl[w].d.in <= ws[w].in_filled /\ ws[w].in_filled <= File[ws[w].job].in /\ 0 <= wl[w].d.in
        /\ wl[w].d.in \in Int /\ wl[w].d.out \in Int
    BY <1>2 DEF ThreadSound, Works
  <1>4. PICK r : r = File[ws[w].job]
    OBVIOUS
  <1>5. PICK i \in Int, o \in Int : r = File[ws[w].job] /\ i = wl[w].d.in /\ o = wl[w].d.out
    BY <1>4, <1>3
  <1>6. r.in \in Nat \ {0} /\ r.out \in Nat /\ i \in 0 .. r.in
    BY <1>2, <1>3, <1>5
  <1>7. Decoded(r, i) \in 0 .. r.out
    BY <1>6, DecodedFits
  <1>8. o \in 0 .. Decoded(r, i)
    BY <1>1, <1>5 DEF WorkFits
  <1>9. o \in Nat /\ o <= r.out
    BY <1>6, <1>7, <1>8
  <1>10. PICK j \in DOMAIN outq.active : Fills(w, outq.active[j])
    BY <1>1 DEF WorkFits
  <1>11. Place(ws[w].job) = j
    BY <1>10, PlaceUnique DEF Fills
  <1> QED BY <1>1, <1>2, <1>5, <1>9, <1>10, <1>11

LEMMA PublishData == ASSUME IInv, DataInv, Running, NEW w \in Worker, Publish(w) PROVE Faithful
  <1>1. /\ Unseen /\ UNCHANGED thread_error /\ wl[w].pc = "publish"
        /\ ws' = [ws EXCEPT ![w].partial = "ENABLED"]
        /\ wl' = [wl EXCEPT ![w].pc = "idle", ![w].ret = "OK"]
    BY DEF Publish, Unseen, Signalled, call, coder, kept, locals, flow, hist
  <1>2. wl \in [Worker -> ThreadRecord] /\ ws \in [Worker -> WorkerRecord] /\ File' = File
    BY <1>1 DEF IInv, Types, Unseen, File
  <1>3. wl'[w].pc = "idle" /\ wl'[w].d = wl[w].d /\ \A v \in Worker : v # w => wl'[v] = wl[v]
    <2>1. PICK t \in ThreadRecord : t = wl[w]
      BY <1>2
    <2>2. PICK u : u = [t EXCEPT !.pc = "idle", !.ret = "OK"]
      OBVIOUS
    <2>3. u.pc = "idle" /\ u.d = t.d
      BY <2>2 DEF ThreadRecord
    <2>4. wl' = [wl EXCEPT ![w] = u]
      BY <1>1, <1>2, <2>1, <2>2
    <2> QED BY <1>2, <2>1, <2>3, <2>4
  <1>4. OneThread(w) /\ ws'[w].state = ws[w].state
    <2>1. PICK x \in WorkerRecord : x = ws[w]
      BY <1>2
    <2>2. PICK y : y = [x EXCEPT !.partial = "ENABLED"]
      OBVIOUS
    <2>3. y.job = x.job /\ y.in_filled = x.in_filled /\ y.state = x.state
      BY <2>2 DEF WorkerRecord
    <2>4. ws' = [ws EXCEPT ![w] = y]
      BY <1>1, <1>2, <2>1, <2>2
    <2> QED BY <1>2, <1>3, <2>1, <2>3, <2>4 DEF OneThread
  <1>5. CASE ~Live
    <2>1. \A v \in Worker : ws'[v].in_filled = ws[v].in_filled
      BY <1>4 DEF OneThread
    <2> QED BY <1>1, <1>5, <2>1, UnseenData
  <1>6. CASE Live
    <2>1. /\ AtWork(w) /\ WorkFits(w) /\ wl[w].d \in [in : Int, out : Int]
          /\ File[ws[w].job].out \in Nat /\ wl[w].d.out \in Nat /\ wl[w].d.out <= File[ws[w].job].out
      BY <1>1, <1>6, BlockDecoded
    <2>2. PICK j \in DOMAIN outq.active : j = Place(ws[w].job) /\ Fills(w, outq.active[j])
      BY <1>1, <1>6, BlockDecoded
    <2>3. ws[w].state = "RUN"
      BY <1>1, <1>6 DEF Running
    <2>4. PICK d \in Buffer : d = outq.active[j] /\ d.job = ws[w].job /\ ~d.finished /\ d.pos <= wl[w].d.out
      BY <2>2, QueueShaped DEF Fills
    <2>5. PICK p \in Nat, q \in Int : p = wl[w].d.out /\ q = wl[w].d.in
      BY <2>1
    <2>6. PICK e : e = [d EXCEPT !.pos = p, !.in_pos = q]
      OBVIOUS
    <2>7. e.job = d.job /\ e.finished = d.finished /\ e.pos = p
      BY <2>6 DEF Buffer
    <2>8. PICK a : a = outq.active
      OBVIOUS
    <2>9. outq' = [outq EXCEPT !.active = [a EXCEPT ![j] = e]]
      BY <2>2, <2>4, <2>5, <2>6, <2>8 DEF Publish
    <2>10. Writes(j) /\ outq'.active[j] = e
      BY <2>4, <2>5, <2>7, <2>8, <2>9, BufferWritten
    <2>11. BufferFits(e)
      BY <2>1, <2>4, <2>5, <2>7 DEF BufferFits
    <2>12. AtWork(w)'
      BY <1>4, <2>3 DEF AtWork
    <2>13. Fills(w, e)'
      BY <1>3, <1>4, <2>4, <2>5, <2>7 DEF Fills, OneThread
    <2>14. WorkFits(w)'
      <3>1. \E i \in DOMAIN outq'.active : Fills(w, outq.active[i])'
        BY <2>10, <2>13 DEF Writes, Fills
      <3>2. wl'[w].d.out \in 0 .. Decoded(File[ws[w].job], wl[w].d.in)'
        BY <1>2, <1>3, <1>4, <2>1 DEF WorkFits, Decoded, OneThread
      <3> QED BY <1>3, <2>12, <3>1, <3>2 DEF WorkFits
    <2> QED BY <1>1, <1>4, <1>6, <2>1, <2>4, <2>10, <2>11, <2>14, WriteData
  <1> QED BY <1>5, <1>6

LEMMA ReportData == ASSUME IInv, DataInv, NEW w \in Worker, Report(w) PROVE Faithful
  <1>1. /\ Unseen /\ wl[w].pc = "report" /\ ws' = ws
        /\ wl' = [wl EXCEPT ![w] = IdleThread]
        /\ \/ thread_error' = thread_error
           \/ wl[w].ret # "STREAM_END" /\ thread_error = "OK" /\ thread_error' = wl[w].ret
    BY DEF Report, Reports, Unseen, Signalled, call, coder, kept, locals, flow, hist
  <1>2. wl \in [Worker -> ThreadRecord] /\ ws \in [Worker -> WorkerRecord] /\ File' = File
    BY <1>1 DEF IInv, Types, Unseen, File
  <1>3. /\ wl'[w].pc = "idle" /\ wl'[w].d.out = 0
        /\ \A v \in Worker : v # w => wl'[v] = wl[v]
    <2>1. IdleThread.pc = "idle" /\ IdleThread.d.out = 0
      BY DEF IdleThread, FreshDecoder
    <2> QED BY <1>1, <1>2, <2>1
  <1>4. OneThread(w)
    BY <1>1, <1>3 DEF OneThread
  <1>5. CASE ~Live
    <2>1. \A v \in Worker : ws'[v].in_filled = ws[v].in_filled
      BY <1>4 DEF OneThread
    <2> QED BY <1>1, <1>5, <2>1, UnseenData
  <1>6. CASE Live
    <2>1. /\ AtWork(w) /\ WorkFits(w) /\ wl[w].d \in [in : Int, out : Int]
          /\ File[ws[w].job].out \in Nat /\ wl[w].d.out \in Nat /\ wl[w].d.out <= File[ws[w].job].out
      BY <1>1, <1>6, BlockDecoded
    <2>2. PICK j \in DOMAIN outq.active : j = Place(ws[w].job) /\ Fills(w, outq.active[j])
      BY <1>1, <1>6, BlockDecoded
    <2>3. \/ wl[w].ret = "STREAM_END" /\ wl[w].d.out = File[ws[w].job].out /\ File[ws[w].job].flaw # "data"
          \/ wl[w].ret = "DATA_ERROR" /\ File[ws[w].job].flaw = "data"
      BY <1>1, <2>1 DEF WorkFits
    <2>4. PICK d \in Buffer : d = outq.active[j] /\ d.job = ws[w].job /\ ~d.finished /\ d.pos <= wl[w].d.out
      BY <2>2, QueueShaped DEF Fills
    <2>5. PICK p \in Nat, q \in Int : p = wl[w].d.out /\ q = wl[w].d.in
      BY <2>1
    <2>6. PICK r : r = wl[w].ret
      OBVIOUS
    <2>7. PICK e : e = [d EXCEPT !.finished = TRUE, !.ret = r, !.pos = p, !.in_pos = q]
      OBVIOUS
    <2>8. e.job = d.job /\ e.finished /\ e.pos = p /\ e.ret = r
      BY <2>7 DEF Buffer
    <2>9. PICK a : a = outq.active
      OBVIOUS
    <2>10. outq' = [outq EXCEPT !.active = [a EXCEPT ![j] = e]]
      BY <2>2, <2>4, <2>5, <2>6, <2>7, <2>9 DEF Report
    <2>11. Writes(j) /\ outq'.active[j] = e
      BY <2>4, <2>5, <2>8, <2>9, <2>10, BufferWritten
    <2>12. BufferFits(e)
      <3>1. e.pos \in 0 .. File[e.job].out
        BY <2>1, <2>4, <2>5, <2>8
      <3>2. \/ e.ret = "STREAM_END" /\ e.pos = File[e.job].out /\ File[e.job].flaw # "data"
            \/ e.ret = "DATA_ERROR" /\ File[e.job].flaw = "data"
        BY <2>3, <2>4, <2>5, <2>6, <2>8
      <3> QED BY <3>1, <3>2 DEF BufferFits
    <2>13. ~AtWork(w)'
      <3>1. ws[w].state # "RUN"
        BY <1>1, ThreadTyped DEF ThreadSound
      <3>2. ~(pc = "start" /\ thr = w)
        BY <1>1 DEF IInv, ThreadInv, FedSound, Fed
      <3> QED BY <1>1, <1>3, <3>1, <3>2 DEF AtWork, Unseen
    <2>14. WorkFits(w)' /\ (AtWork(w)' => AtWork(w))
      BY <1>3, <2>1, <2>13 DEF WorkFits
    <2>15. \/ thread_error' = thread_error
           \/ thread_error' = "DATA_ERROR" /\ FailedBuffer(outq'.active[j])
      BY <1>1, <2>3, <2>6, <2>8, <2>11 DEF FailedBuffer
    <2> QED BY <1>1, <1>4, <1>6, <2>1, <2>4, <2>11, <2>12, <2>14, <2>15, WriteData
  <1> QED BY <1>5, <1>6

-----------------------------------------------------------------------------
(* A thread that decodes is told to stop only when nobody wants its output *)
(* any more.                                                               *)
LEMMA KeepsRunning ==
  ASSUME Running, Live' => Live, wl' = wl, \A w \in Worker : ws'[w].state = ws[w].state
  PROVE  Running'
  BY DEF Running

LEMMA CodeRunning == ASSUME IInv, DataInv, Running, Code PROVE Running'
  <1>1. pc = "code" /\ wl' = wl
    BY DEF Code, StreamHeader, BlockHeader, BlockInit, WaitFirst, ErrorNow, BlockThrRun, BlockDirectRun,
           IndexDecode, StreamFooter, StreamPadding
  <1>2. Live
    BY <1>1, LiveHere
  <1>3. CASE ws' = ws
    BY <1>1, <1>2, <1>3, KeepsRunning
  <1>4. CASE StopAndFail("DATA_ERROR")
    <2>1. pending' = "Error"
      BY <1>4, ReturnsCall DEF StopAndFail
    <2> QED BY <2>1 DEF Running, Live
  <1>5. CASE BlockThrRun /\ ~StopAndFail("DATA_ERROR")
    <2>1. ws' = [ws EXCEPT ![thr].in_filled = @ + SmallerOf(Wanted, avail)]
      BY <1>5 DEF BlockThrRun
    <2>2. ASSUME NEW w \in Worker PROVE ws'[w].state = ws[w].state
      <3>1. PICK x \in WorkerRecord : x = ws[w]
        BY DEF IInv, Types
      <3>2. PICK n : n = ws[thr].in_filled + SmallerOf(Wanted, avail)
        OBVIOUS
      <3>3. PICK y : y = [x EXCEPT !.in_filled = n]
        OBVIOUS
      <3>4. y.state = x.state
        BY <3>3 DEF WorkerRecord
      <3>5. ws'[w] = x \/ ws'[w] = y
        BY <2>1, <3>1, <3>2, <3>3 DEF IInv, Types
      <3> QED BY <3>1, <3>4, <3>5
    <2> QED BY <1>1, <1>2, <2>2, KeepsRunning
  <1>6. ws' = ws \/ StopAndFail("DATA_ERROR") \/ (BlockThrRun /\ ~StopAndFail("DATA_ERROR"))
    BY DEF Code, StreamHeader, BlockHeader, BlockInit, WaitFirst, ErrorNow, BlockDirectRun,
           IndexDecode, StreamFooter, StreamPadding
  <1> QED BY <1>3, <1>4, <1>5, <1>6

LEMMA CallRunning ==
  ASSUME IInv, DataInv, Running, Call \/ SetMemlimit \/ End \/ Join
  PROVE  Running'
  <1>1. CASE Call \/ SetMemlimit
    <2>1. Live /\ wl' = wl /\ ws' = ws
      BY <1>1 DEF Call, SetMemlimit, Live
    <2> QED BY <2>1, KeepsRunning
  <1>2. CASE End \/ Join
    <2>1. pc' \in {"join", "ended"}
      BY <1>2 DEF End, Join, GoTo
    <2> QED BY <2>1 DEF Running, Live
  <1> QED BY <1>1, <1>2

LEMMA WaitRunning ==
  ASSUME IInv, DataInv, Running, ReadQueue \/ TimeOut \/ AfterWait
  PROVE  Running'
  <1>1. pc \in {"read", "reread", "sleep", "after"} /\ wl' = wl
    BY DEF ReadQueue, TimeOut, AfterWait
  <1>2. Live
    BY <1>1, LiveHere
  <1>3. CASE TimeOut \/ AfterWait
    <2>1. ws' = ws
      BY <1>3 DEF TimeOut, AfterWait
    <2> QED BY <1>1, <1>2, <2>1, KeepsRunning
  <1>4. CASE ReadQueue
    <2>1. PICK q, r :
            /\ r = ReadRet(outq, space)
            /\ \/ ws' = AskedForPartial(q)
               \/ r \notin {"OK", "STREAM_END"} /\ StopAndFail(r)
               \/ FailFastError /\ StopAndFail(thread_error)
               \/ ws' = ws
      BY <1>4 DEF ReadQueue
    <2>2. ReadRet(outq, space) \in {"OK", "STREAM_END", "DATA_ERROR"}
      <3>1. CASE ~Drains(outq, space)
        BY <3>1 DEF ReadRet
      <3>2. CASE Drains(outq, space)
        <4>1. PICK a \in Seq(Buffer) : a = outq.active
          BY QueueShaped
        <4>2. a # <<>> /\ Head(outq.active) = a[1] /\ 1 \in DOMAIN a /\ a[1].finished
          BY <3>2, <4>1 DEF Drains
        <4>3. BufferFits(a[1])
          BY <1>2, <4>1, <4>2 DEF DataInv, OutputInv, BuffersFit
        <4> QED BY <3>2, <4>2, <4>3 DEF BufferFits, ReadRet
      <3> QED BY <3>1, <3>2
    <2>3. thread_error \in {"OK", "DATA_ERROR"}
      BY <1>2 DEF DataInv, Faults
    <2>4. ws' = AskedForPartial(q) \/ ws' = ws \/ StopAndFail("DATA_ERROR")
      <3>1. CASE r \notin {"OK", "STREAM_END"} /\ StopAndFail(r)
        <4>1. r = "DATA_ERROR"
          BY <2>1, <2>2, <3>1
        <4> QED BY <3>1, <4>1
      <3>2. CASE FailFastError /\ StopAndFail(thread_error)
        <4>1. thread_error = "DATA_ERROR"
          BY <2>3, <3>2 DEF FailFastError
        <4> QED BY <3>2, <4>1
      <3> QED BY <2>1, <3>1, <3>2
    <2>5. CASE ws' = AskedForPartial(q)
      <3>1. \A w \in Worker : ws'[w].state = ws[w].state
        BY <2>5, AskedWork
      <3> QED BY <1>1, <1>2, <3>1, KeepsRunning
    <2>6. CASE ws' = ws
      BY <1>1, <1>2, <2>6, KeepsRunning
    <2>7. CASE StopAndFail("DATA_ERROR")
      <3>1. pending' = "Error"
        BY <2>7, ReturnsCall DEF StopAndFail
      <3> QED BY <3>1 DEF Running, Live
    <2> QED BY <2>5, <2>6, <2>7, <2>4
  <1> QED BY <1>3, <1>4

LEMMA RoomRunning ==
  ASSUME IInv, DataInv, Running, PlanRoom \/ MakeRoom \/ GetThread \/ StartThread \/ EnablePartial
  PROVE  Running'
  <1>1. pc \in {"plan", "free", "get", "start", "partial"} /\ wl' = wl
    BY DEF PlanRoom, MakeRoom, GetThread, StartThread, EnablePartial
  <1>2. Live
    BY <1>1, LiveHere
  <1>3. CASE PlanRoom
    <2>1. ws' = ws
      BY <1>3 DEF PlanRoom
    <2> QED BY <1>1, <1>2, <2>1, KeepsRunning
  <1>4. CASE MakeRoom
    <2>1. PICK freed : ws' = [w \in Worker |-> IF w \in freed THEN [ws[w] EXCEPT !.mem_filters = 0] ELSE ws[w]]
      BY <1>4 DEF MakeRoom
    <2>2. ASSUME NEW w \in Worker PROVE ws'[w].state = ws[w].state
      <3>1. PICK x, y : x \in WorkerRecord /\ x = ws[w] /\ y = [x EXCEPT !.mem_filters = 0]
        BY DEF IInv, Types
      <3>2. y.state = x.state
        BY <3>1 DEF WorkerRecord
      <3>3. ws'[w] = x \/ ws'[w] = y
        BY <2>1, <3>1
      <3> QED BY <3>1, <3>2, <3>3
    <2> QED BY <1>1, <1>2, <2>2, KeepsRunning
  <1>5. CASE GetThread
    <2>1. CASE StopAndFail("MEM_ERROR")
      <3>1. pending' = "Error"
        BY <2>1, ReturnsCall DEF StopAndFail
      <3> QED BY <3>1 DEF Running, Live
    <2>2. CASE ~StopAndFail("MEM_ERROR")
      <3>1. PICK w \in Worker : /\ ~Given(w) /\ \A v \in Worker : v # w => ws'[v] = ws[v]
        BY <1>5, <2>2, BufferAdded
      <3>2. wl[w].pc \in {"idle", "exited"}
        BY <3>1 DEF IInv, ThreadInv, ThreadsSound, ThreadSound, Rests
      <3> QED BY <1>1, <1>2, <3>1, <3>2 DEF Running
    <2> QED BY <2>1, <2>2
  <1>6. CASE StartThread
    <2>1. ws' = [ws EXCEPT ![thr].state = "RUN"]
      BY <1>6 DEF StartThread
    <2>2. ASSUME NEW w \in Worker PROVE ws'[w].state = ws[w].state \/ ws'[w].state = "RUN"
      <3>1. PICK x, y : x \in WorkerRecord /\ x = ws[w] /\ y = [x EXCEPT !.state = "RUN"]
        BY DEF IInv, Types
      <3>2. y.state = "RUN"
        BY <3>1 DEF WorkerRecord
      <3>3. ws'[w] = x \/ ws'[w] = y
        BY <2>1, <3>1 DEF IInv, Types
      <3> QED BY <3>1, <3>2, <3>3
    <2> QED BY <1>1, <1>2, <2>2 DEF Running
  <1>7. CASE EnablePartial
    <2>1. \A w \in Worker : ws'[w].state = ws[w].state
      BY <1>7, AskedWork DEF EnablePartial
    <2> QED BY <1>1, <1>2, <2>1, KeepsRunning
  <1> QED BY <1>3, <1>4, <1>5, <1>6, <1>7

LEMMA DirectRunning == ASSUME IInv, DataInv, Running, GoDirect \/ JoinDirect PROVE Running'
  <1>1. CASE GoDirect
    <2>1. pc = "direct" /\ wl' = wl
      BY <1>1 DEF GoDirect
    <2>2. Live /\ outq.active = <<>>
      BY <2>1, LiveHere DEF IInv, Where
    <2>3. ASSUME NEW w \in Worker PROVE wl'[w].pc \notin {"decode", "publish", "settle"}
      BY <2>1, <2>2, NobodyWorks DEF AtWork
    <2> QED BY <2>3 DEF Running
  <1>2. CASE JoinDirect
    <2>1. wl' = [w \in Worker |-> IdleThread] /\ IdleThread.pc = "idle"
      BY <1>2 DEF JoinDirect, IdleThread
    <2> QED BY <2>1 DEF Running
  <1> QED BY <1>1, <1>2

LEMMA WorkerRunning == ASSUME IInv, DataInv, Running, NEW w \in Worker, WorkerThread(w) PROVE Running'
  <1>1. Live' => Live
    BY Zenon DEF WorkerThread, Look, Decode, Publish, Settle, Report, Signalled, Live, call
  <1>2. wl \in [Worker -> ThreadRecord] /\ ws \in [Worker -> WorkerRecord]
    BY DEF IInv, Types
  <1>3. \A v \in Worker : v # w => wl'[v] = wl[v] /\ ws'[v].state = ws[v].state
    BY <1>2, Zenon DEF WorkerThread, Look, Decode, Publish, Settle, Report
  <1>4. ASSUME Live, wl'[w].pc \in {"decode", "publish", "settle"} PROVE ws'[w].state = "RUN"
    <2>1. CASE Look(w)
      <3>1. IdleThread.pc = "idle" /\ [IdleThread EXCEPT !.pc = "exited"].pc = "exited"
        BY DEF IdleThread
      <3> QED BY <1>2, <1>4, <2>1, <3>1 DEF Look
    <2>2. CASE Decode(w)
      BY <1>4, <2>2 DEF Decode, Running
    <2>3. CASE Publish(w)
      <3>1. PICK t, u : t \in ThreadRecord /\ t = wl[w] /\ u = [t EXCEPT !.pc = "idle", !.ret = "OK"]
        BY <1>2
      <3>2. u.pc = "idle" /\ wl'[w] = u
        BY <1>2, <2>3, <3>1 DEF Publish, ThreadRecord
      <3> QED BY <1>4, <3>2
    <2>4. CASE Settle(w)
      <3>1. PICK t, u : t \in ThreadRecord /\ t = wl[w] /\ u = [t EXCEPT !.pc = "report"]
        BY <1>2
      <3>2. u.pc = "report" /\ wl'[w] = u
        BY <1>2, <2>4, <3>1 DEF Settle, ThreadRecord
      <3> QED BY <1>4, <3>2
    <2>5. CASE Report(w)
      <3>1. wl' = [wl EXCEPT ![w] = IdleThread] /\ IdleThread.pc = "idle"
        BY <2>5 DEF Report, IdleThread
      <3> QED BY <1>2, <1>4, <3>1
    <2> QED BY <2>1, <2>2, <2>3, <2>4, <2>5 DEF WorkerThread
  <1> QED BY <1>1, <1>3, <1>4 DEF Running

-----------------------------------------------------------------------------
(* The whole decoder.                                                      *)
LEMMA InitData == ASSUME IInv, Init PROVE DataInv /\ Running /\ Promise!Init
  <1>1. /\ setup \in Setups /\ pc = "app" /\ action = "RUN" /\ avail = 0 /\ space = 0
        /\ pending = "RUN" /\ ret = "OK" /\ sequence = "STREAM_HEADER" /\ pending_error = "OK"
        /\ block = 0 /\ outq = Empty /\ thread_error = "OK" /\ eaten = 0 /\ output = <<>>
        /\ gave_up = FALSE /\ ws = [w \in Worker |-> IdleWorker] /\ wl = [w \in Worker |-> IdleThread]
    BY DEF Init
  <1>2. outq.active = <<>> /\ outq.read_pos = 0
    BY <1>1 DEF Empty
  <1>3. NextStart = 1
    <2>1. PICK b : b = block + 1
      OBVIOUS
    <2>2. b = 1
      BY <1>1, <2>1
    <2>3. NextStart = Before(b)
      BY <2>1 DEF NextStart
    <2> QED BY <1>1, <2>2, <2>3, BeforeFirst
  <1>4. CallFits
    BY <1>1 DEF CallFits
  <1>5. InputInv
    BY <1>1, <1>3 DEF InputInv, Placed, Parsed, BeforeRecord
  <1>6. OutputInv
    <2>1. Handed(0)
      BY <1>1 DEF Handed, Fresh
    <2>2. Delivered(0)
      <3>1. output = Stretch(0, 0)
        <4>1. 0 \in 0 .. Len(File)
          BY <1>1, FileType
        <4> QED BY <1>1, <4>1, StretchNone, DataNone
      <3>2. Len(outq.active) = 0 /\ DOMAIN outq.active = {}
        BY <1>2
      <3>3. Position = 0
        BY <1>1, <1>2 DEF Position
      <3>4. PICK done : done = 0 - Len(outq.active)
        OBVIOUS
      <3>5. done = 0
        BY <3>2, <3>4
      <3>6. \A b \in 1 .. done : File[b].flaw # "data"
        BY <3>5
      <3> QED BY <3>1, <3>2, <3>3, <3>4, <3>5, <3>6 DEF Delivered
    <2>3. Drained /\ BuffersFit
      BY <1>1, <1>2 DEF Drained, BuffersFit
    <2> QED BY <2>1, <2>2, <2>3 DEF OutputInv, Handing
  <1>7. \A w \in Worker : ~AtWork(w) /\ wl[w].d.out = 0
    <2>1. IdleThread.pc = "idle" /\ IdleThread.d.out = 0 /\ IdleWorker.state = "IDLE"
      BY DEF IdleThread, FreshDecoder, IdleWorker
    <2> QED BY <1>1, <2>1 DEF AtWork
  <1>8. WorkInv
    BY <1>7 DEF WorkInv, WorkFits, Alone
  <1>9. Faults
    BY <1>1 DEF Faults
  <1>10. Running
    BY <1>7 DEF Running, AtWork
  <1>11. Promise!Init
    BY <1>1 DEF Promise!Init
  <1> QED BY <1>4, <1>5, <1>6, <1>8, <1>9, <1>10, <1>11 DEF DataInv

LEMMA StutterData == ASSUME IInv, DataInv, Running, UNCHANGED vars PROVE Faithful /\ Running'
  <1>1. /\ Unseen /\ UNCHANGED <<outq, ws, wl, thread_error>> /\ Live' = Live
    BY DEF vars, call, coder, kept, locals, shared, flow, hist, Unseen, Live
  <1>2. Running'
    BY <1>1, KeepsRunning
  <1>3. SameOut /\ SameWorkers
    BY <1>1, QueueUntouched DEF SameWorkers, AtWork, Unseen
  <1>4. ASSUME Live PROVE BuffersFit' /\ WorkInv' /\ Faults'
    <2>1. setup' = setup /\ WorkInv
      BY <1>1, <1>4 DEF Unseen, DataInv
    <2>2. WorkInv'
      BY <1>3, <2>1, WorkStays
    <2>3. BuffersFit' /\ Faults'
      BY <1>1, <1>4 DEF DataInv, OutputInv, BuffersFit, BufferFits, Faults, FailedBuffer, Unseen, File
    <2> QED BY <2>2, <2>3
  <1>5. \A n \in Nat : Delivered(n) => Delivered(n)'
    BY <1>1, DeliveredStays
  <1>6. Faithful
    BY <1>1, <1>4, <1>5, UnseenData
  <1> QED BY <1>2, <1>6

LEMMA NextData == IInv /\ DataInv /\ Running /\ [Next]_vars => Faithful /\ Running'
  <1> SUFFICES ASSUME IInv, DataInv, Running, [Next]_vars PROVE Faithful /\ Running'
    OBVIOUS
  <1>1. CASE Call \/ SetMemlimit \/ End \/ Join
    <2>1. Faithful
      BY <1>1, CallData, SetMemlimitData, EndData, JoinData
    <2> QED BY <1>1, <2>1, CallRunning
  <1>2. CASE Code
    <2>1. Faithful
      BY <1>2, StreamHeaderData, BlockHeaderData, BlockInitData, WaitFirstData, ErrorNowData, BlockThrRunData,
         BlockDirectRunData, IndexDecodeData, StreamFooterData, StreamPaddingData DEF Code
    <2> QED BY <1>2, <2>1, CodeRunning
  <1>3. CASE ReadQueue \/ TimeOut \/ AfterWait
    <2>1. Faithful
      BY <1>3, ReadQueueData, TimeOutData, AfterWaitData
    <2> QED BY <1>3, <2>1, WaitRunning
  <1>4. CASE PlanRoom \/ MakeRoom \/ GetThread \/ StartThread \/ EnablePartial
    <2>1. Faithful
      BY <1>4, PlanRoomData, MakeRoomData, GetThreadData, StartThreadData, EnablePartialData
    <2> QED BY <1>4, <2>1, RoomRunning
  <1>5. CASE GoDirect \/ JoinDirect
    <2>1. Faithful
      BY <1>5, GoDirectData, JoinDirectData
    <2> QED BY <1>5, <2>1, DirectRunning
  <1>6. ASSUME NEW w \in Worker, WorkerThread(w) PROVE Faithful /\ Running'
    <2>1. Faithful
      BY <1>6, LookData, DecodeData, PublishData, SettleData, ReportData DEF WorkerThread
    <2> QED BY <1>6, <2>1, WorkerRunning
  <1>7. CASE UNCHANGED vars
    BY <1>7, StutterData
  <1>8. Next => \/ Call \/ SetMemlimit \/ End \/ Code \/ ReadQueue \/ TimeOut \/ AfterWait \/ PlanRoom
                \/ MakeRoom \/ GetThread \/ StartThread \/ EnablePartial \/ GoDirect \/ JoinDirect \/ Join
                \/ \E w \in Worker : WorkerThread(w)
    BY DEF Next, AppThread
  <1> QED BY <1>1, <1>2, <1>3, <1>4, <1>5, <1>6, <1>7, <1>8

(* The C decoder gives out what the file holds, in order, once, as far as  *)
(* it is sound, and ends as the file deserves, whatever its threads do and *)
(* whenever it is called: it implements DecodedFile (stream_decode_mt,     *)
(* read_output_and_wait, worker_decoder).                                  *)
THEOREM DecoderImplementsDecodedFile == Spec => ImplementsDecodedFile
  <1>1. IInv /\ Init => DataInv /\ Running /\ Promise!Init
    BY InitData
  <1>2. IInv /\ DataInv /\ Running /\ [Next]_vars
          => DataInv' /\ Running' /\ [Promise!Next]_(Promise!vars)
    BY NextData DEF Faithful
  <1> QED BY <1>1, <1>2, DecoderAccount, PTL DEF Spec, ImplementsDecodedFile, Promise!Spec
=============================================================================
