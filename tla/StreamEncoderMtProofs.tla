------------------------ MODULE StreamEncoderMtProofs ------------------------
(***************************************************************************)
(* Proofs about the threaded encoder of the C library, for any number of   *)
(* threads, any sizes and any setups: no thread is lost or handed out      *)
(* twice (ThreadsAccounted), a Block is encoded with the filters that were *)
(* in force when its input was taken (FiltersPerBlock), the encoder        *)
(* implements OrderedBlocks: what it writes is the Blocks of the input, in *)
(* order, whole and once each (ImplementsOrderedBlocks), and the progress  *)
(* it reports never goes back (ProgressAdvances).                          *)
(***************************************************************************)
EXTENDS StreamEncoderMt, OutQueueLemmas

AppPlaces    == {"app", "copy", "read", "encode", "assign", "blockerror", "decide", "wait", "sleep",
                 "settle", "join", "ended"}
ThreadPlaces == {"idle", "run", "fail", "full", "release", "report", "exited"}
States       == {"IDLE", "RUN", "FINISH", "STOP", "EXIT"}
Input        == {s \in Seq(Nat) : Len(s) <= BlockSize}
WorkerType   == [state : States, in : Input, outbuf : Nat \X Nat, filters : Nat, progress_in : Nat]
ThreadType   == [pc : ThreadPlaces, state : States, content : Seq(Nat), size : Nat]

Buf == [job : Nat \X Nat, size : {BufSize}, worker : Nat, pos : Nat, in_pos : {0}, finished : BOOLEAN,
        ret : {"STREAM_END", <<>>} \cup (Seq(Nat) \X Nat)]

TypeInv ==
  /\ setup \in Setups
  /\ pc \in AppPlaces
  /\ ws \in [Worker -> WorkerType]
  /\ wl \in [Worker -> ThreadType]
  /\ threads_initialized \in 0 .. Threads
  /\ threads_free \in Seq(1 .. threads_initialized)
  /\ thr \in 0 .. threads_initialized
  /\ inits \in Nat /\ accepted \in Nat /\ filters \in Nat \ {None} /\ filters_cache \in {None, filters}
  /\ index \in Seq({"STREAM_END", <<>>} \cup (Seq(Nat) \X Nat))
  /\ IsQueue(outq, Buf, {BufSize}) /\ (pc = "assign" => Len(outq.cache) > 0)
  /\ call = [action |-> call.action, avail |-> call.avail, space |-> call.space] /\ call.avail \in Nat

(* Nobody works once the threads are being joined.                         *)
Alive == pc \notin {"join", "ended"}

(* A thread that was never made is idle.                                   *)
Unmade == \A w \in Worker : w > threads_initialized => ws[w].state = "IDLE" /\ wl[w].pc = "idle"

(* Threads are stopped when the Stream has failed or is given up, and then *)
(* the application is on its way out of the library.                       *)
Stops ==
  /\ pending = "Error" => pc \in {"app", "settle", "join", "ended"}
  /\ Alive => \A w \in Worker : ws[w].state # "EXIT"
  /\ Alive /\ pending # "Error" /\ pc # "settle" => \A w \in Worker : ws[w].state # "STOP"

(* A free thread does nothing; a thread that reports has no new command; a *)
(* thread about to be assigned is neither.                                 *)
FreeIsIdle  == Alive => \A w \in ToSet(threads_free) : wl[w].pc = "idle" /\ ws[w].state \in {"IDLE", "STOP"}
ReportsDone == Alive => \A w \in Worker : wl[w].pc = "report" => ws[w].state \in {"IDLE", "STOP"}
Chosen ==
  pc = "assign" => /\ thr # None /\ thr \notin ToSet(threads_free)
                   /\ wl[thr].pc = "idle" /\ ws[thr].state = "IDLE"

OneFree == Alive => IsInjective(threads_free)
NoneLost ==
  Alive => \A w \in 1 .. threads_initialized :
             (ws[w].state # "STOP" /\ w \notin strayed /\ w \notin ToSet(threads_free)
                /\ ~(pc = "assign" /\ thr = w)) => AtWork(w)

Account == Unmade /\ Stops /\ FreeIsIdle /\ ReportsDone /\ Chosen /\ OneFree /\ NoneLost

-----------------------------------------------------------------------------
(* Each of these units was accepted, with that chain of filters.           *)
Fits(chains, units, chain) ==
  \A k \in DOMAIN units : units[k] \in 1 .. Len(chains) /\ chains[units[k]] = chain

(* A thread at work has a job of this Stream, and the units it was given   *)
(* and those it encoded are of its chain of filters. While a Stream is     *)
(* given up nothing is said of the threads.                                *)
Settled == ~unsettled /\ pc \notin {"settle", "join", "ended"}
JobFits(w) ==
  /\ ws[w].outbuf[1] = inits
  /\ Fits(chain_of, ws[w].in, ws[w].filters) /\ Fits(chain_of, wl[w].content, ws[w].filters)
JobsFit == Settled => \A w \in Worker : AtWork(w) => JobFits(w)

(* A thread that says it is idle has only to report, if anything; one that *)
(* waits for a command has encoded nothing.                                *)
IdleIsDone ==
  \A w \in Worker : /\ ws[w].state = "IDLE" => wl[w].pc \in {"idle", "report"}
                    /\ wl[w].pc = "idle" => wl[w].content = <<>>

(* Finished buffers and the Blocks of the Index.                           *)
BlockFits(result) == result \in Seq(Nat) \X Nat /\ Fits(chain_of, result[1], result[2])
BufsFit   == Settled => \A i \in DOMAIN outq.active : outq.active[i].finished => BlockFits(outq.active[i].ret)
IndexFits == ~unsettled => \A b \in DOMAIN index : BlockFits(index[b])

(* The thread being fed, or about to be started, has the filters in force. *)
CacheFits ==
  /\ thr # None /\ pc # "assign" => ws[thr].filters = filters
  /\ pc = "assign" => filters_cache = filters

Recorded  == chain_of \in Seq(Nat) /\ Len(chain_of) = accepted
FilterInv == Recorded /\ IdleIsDone /\ JobsFit /\ BufsFit /\ IndexFits /\ CacheFits

-----------------------------------------------------------------------------
USE DEF None

(* One field of a worker or of its thread changes: the others stay. What   *)
(* changes several of them is taken apart into such changes.               *)
LEMMA SetState ==
  ASSUME NEW r \in WorkerType, NEW x \in States, NEW k, k = [r EXCEPT !.state = x]
  PROVE  k \in WorkerType /\ k.state = x /\ k.in = r.in /\ k.outbuf = r.outbuf /\ k.filters = r.filters /\ k.progress_in = r.progress_in
  BY DEF WorkerType

LEMMA SetIn ==
  ASSUME NEW r \in WorkerType, NEW x \in Input, NEW k, k = [r EXCEPT !.in = x]
  PROVE  k \in WorkerType /\ k.in = x /\ k.state = r.state /\ k.outbuf = r.outbuf /\ k.filters = r.filters /\ k.progress_in = r.progress_in
  BY DEF WorkerType

LEMMA SetOutbuf ==
  ASSUME NEW r \in WorkerType, NEW x \in Nat \X Nat, NEW k, k = [r EXCEPT !.outbuf = x]
  PROVE  k \in WorkerType /\ k.outbuf = x /\ k.state = r.state /\ k.in = r.in /\ k.filters = r.filters /\ k.progress_in = r.progress_in
  BY DEF WorkerType

LEMMA SetFilters ==
  ASSUME NEW r \in WorkerType, NEW x \in Nat, NEW k, k = [r EXCEPT !.filters = x]
  PROVE  k \in WorkerType /\ k.filters = x /\ k.state = r.state /\ k.in = r.in /\ k.outbuf = r.outbuf /\ k.progress_in = r.progress_in
  BY DEF WorkerType

LEMMA SetProgress ==
  ASSUME NEW r \in WorkerType, NEW x \in Nat, NEW k, k = [r EXCEPT !.progress_in = x]
  PROVE  k \in WorkerType /\ k.progress_in = x /\ k.state = r.state /\ k.in = r.in /\ k.outbuf = r.outbuf /\ k.filters = r.filters
  BY DEF WorkerType

LEMMA SetPlace ==
  ASSUME NEW r \in ThreadType, NEW x \in ThreadPlaces, NEW k, k = [r EXCEPT !.pc = x]
  PROVE  k \in ThreadType /\ k.pc = x /\ k.state = r.state /\ k.content = r.content /\ k.size = r.size
  BY DEF ThreadType

LEMMA SetLocal ==
  ASSUME NEW r \in ThreadType, NEW x \in States, NEW k, k = [r EXCEPT !.state = x]
  PROVE  k \in ThreadType /\ k.state = x /\ k.pc = r.pc /\ k.content = r.content /\ k.size = r.size
  BY DEF ThreadType

LEMMA SetContent ==
  ASSUME NEW r \in ThreadType, NEW x \in Seq(Nat), NEW k, k = [r EXCEPT !.content = x]
  PROVE  k \in ThreadType /\ k.content = x /\ k.pc = r.pc /\ k.state = r.state /\ k.size = r.size
  BY DEF ThreadType

LEMMA SetSize ==
  ASSUME NEW r \in ThreadType, NEW x \in Nat, NEW k, k = [r EXCEPT !.size = x]
  PROVE  k \in ThreadType /\ k.size = x /\ k.pc = r.pc /\ k.state = r.state /\ k.content = r.content
  BY DEF ThreadType

LEMMA BufSizeIsNat == BufSize \in Nat
  BY StreamEncoderAssumption DEF BufSize

(* The thread being fed was made.                                          *)
LEMMA ThrIsMade == ASSUME TypeInv PROVE thr # None => thr \in Worker
  <1>1. PICK n \in Nat : n = Threads
    BY QueueAssumption
  <1>2. threads_initialized \in 0 .. n /\ thr \in 0 .. threads_initialized
    BY <1>1 DEF TypeInv
  <1>3. thr # None => thr \in 1 .. n
    BY <1>2
  <1> QED BY <1>1, <1>3 DEF Worker

LEMMA IdleTypes == IdleWorker \in WorkerType /\ IdleThread \in ThreadType
  <1>1. <<>> \in Input /\ <<>> \in Seq(Nat) /\ <<0, 0>> \in Nat \X Nat
    BY StreamEncoderAssumption DEF Input
  <1> QED BY <1>1 DEF WorkerType, ThreadType, States, ThreadPlaces, IdleWorker, IdleThread

LEMMA InitType == Init => TypeInv
  <1> SUFFICES ASSUME Init PROVE TypeInv
    OBVIOUS
  <1>1. ws \in [Worker -> WorkerType] /\ wl \in [Worker -> ThreadType]
    BY IdleTypes DEF Init
  <1>2. IsQueue(outq, Buf, {BufSize})
    BY DEF Init, IsQueue, Empty
  <1> QED BY <1>1, <1>2, QueueAssumption DEF Init, TypeInv, AppPlaces

LEMMA CallType == TypeInv /\ Call => TypeInv'
  <1> SUFFICES ASSUME TypeInv, Call PROVE TypeInv'
    OBVIOUS
  <1>1. UNCHANGED <<setup, coder, shared, ws, wl, hist>> /\ pc' \in AppPlaces
    BY DEF Call, AppPlaces
  <1>2. pc' # "assign"
    BY DEF Call
  <1>3. PICK a, n, s : /\ n \in IF pending = "RUN" THEN 0 .. setup.units - accepted ELSE {call.avail}
                       /\ call' = [action |-> a, avail |-> n, space |-> s]
    BY DEF Call
  <1>4. n \in Nat
    BY <1>3, StreamEncoderAssumption DEF TypeInv
  <1>5. call' = [action |-> call'.action, avail |-> call'.avail, space |-> call'.space] /\ call'.avail \in Nat
    BY <1>3, <1>4
  <1> QED BY <1>1, <1>2, <1>5 DEF TypeInv, coder, shared, hist

LEMMA ToldType == ASSUME TypeInv, NEW x \in States PROVE AllTold(x) \in [Worker -> WorkerType]
  BY DEF TypeInv, AllTold, WorkerType

LEMMA ReadType ==
  ASSUME TypeInv, NEW space
  PROVE  /\ IsQueue(Read(outq, space), Buf, {BufSize})
         /\ Drains(outq, space) => /\ outq.active # <<>> /\ Head(outq.active) \in Buf /\ Head(outq.active).finished
                                   /\ Read(outq, space).active = Tail(outq.active)
         /\ ~Drains(outq, space) => Read(outq, space).active = outq.active
  <1>1. IsQueue(outq, Buf, {BufSize}) /\ outq.active \in Seq(Buf)
    BY DEF TypeInv, IsQueue
  <1>2. PICK k : k = Read(outq, space)
    OBVIOUS
  <1>3. CASE ~Drains(outq, space)
    <2>1. IsQueue(k, Buf, {BufSize}) /\ k.active = outq.active
      BY <1>1, <1>2, <1>3, ReadOn
    <2> QED BY <1>2, <1>3, <2>1
  <1>4. CASE Drains(outq, space)
    <2>1. outq.active # <<>> /\ Head(outq.active).finished
      BY <1>4 DEF Drains
    <2>2. Head(outq.active) \in Buf
      BY <1>1, <2>1
    <2>3. Head(outq.active).size \in {BufSize}
      BY <2>2 DEF Buf
    <2>4. IsQueue(k, Buf, {BufSize}) /\ k.active = Tail(outq.active)
      BY <1>1, <1>2, <1>4, <2>3, ReadOut
    <2> QED BY <1>2, <1>4, <2>1, <2>2, <2>4
  <1> QED BY <1>3, <1>4

LEMMA ReadOutputType == TypeInv /\ ReadOutput => TypeInv'
  <1> SUFFICES ASSUME TypeInv, ReadOutput PROVE TypeInv'
    OBVIOUS
  <1>1. AllTold("STOP") \in [Worker -> WorkerType]
    BY ToldType DEF States
  <1>2. CASE thread_error # "OK"
    BY <1>1, <1>2 DEF ReadOutput, TypeInv, StopAndFail, Return, AppPlaces, coder, shared, hist
  <1>3. CASE thread_error = "OK"
    <2>1. PICK space : space = call.space
      OBVIOUS
    <2>2. IsQueue(outq', Buf, {BufSize})
      <3>1. outq' = Read(outq, space)
        BY <1>3, <2>1 DEF ReadOutput
      <3> QED BY <3>1, ReadType
    <2>3. index' \in Seq({"STREAM_END", <<>>} \cup (Seq(Nat) \X Nat))
      <3>1. Drains(outq, space) => Head(outq.active).ret \in {"STREAM_END", <<>>} \cup (Seq(Nat) \X Nat)
        BY ReadType DEF Buf
      <3>2. index' = index \/ (Drains(outq, space) /\ index' = Append(index, Head(outq.active).ret))
        BY <1>3, <2>1 DEF ReadOutput
      <3>3. PICK R : R = {"STREAM_END", <<>>} \cup (Seq(Nat) \X Nat)
        OBVIOUS
      <3>4. index \in Seq(R) /\ (Drains(outq, space) => Head(outq.active).ret \in R)
        BY <3>1, <3>3 DEF TypeInv
      <3>5. index' \in Seq(R)
        BY <3>2, <3>4
      <3> QED BY <3>3, <3>5
    <2>4. call' = [call EXCEPT !.space = @ - Available(outq, call.space)]
      BY <1>3 DEF ReadOutput
    <2>5. pc' \in {"read", "encode", "app"} /\ ws' \in [Worker -> WorkerType]
      BY <1>1, <1>3 DEF ReadOutput, StopAndFail, Return, Proceed, TypeInv
    <2> QED BY <1>3, <2>2, <2>3, <2>4, <2>5 DEF ReadOutput, TypeInv, AppPlaces, coder, shared, hist
  <1> QED BY <1>2, <1>3

LEMMA GetThreadType == TypeInv /\ GetThread => TypeInv'
  <1> SUFFICES ASSUME TypeInv, GetThread PROVE TypeInv'
    OBVIOUS
  <1>1. AllTold("STOP") \in [Worker -> WorkerType]
    BY ToldType DEF States
  <1>2. PICK p : p = PreallocBuf(outq, BufSize)
    OBVIOUS
  <1>3. IsQueue(p, Buf, {BufSize}) /\ Len(p.cache) > 0
    <2>1. /\ IsQueue(p, Buf, {BufSize})
          /\ p.cache = <<BufSize>> \/ (p.cache = outq.cache /\ Len(outq.cache) > 0)
      BY <1>2, Preallocated DEF TypeInv
    <2>2. Len(<<BufSize>>) = 1
      OBVIOUS
    <2> QED BY <2>1, <2>2
  <1>4. outq' \in {outq, p} /\ (pc' = "assign" => outq' = p)
    BY <1>2 DEF GetThread, Proceed, StopAndFail, Return
  <1>5. pc' \in {"decide", "assign", "app"} /\ ws' \in [Worker -> WorkerType]
    BY <1>1 DEF GetThread, StopAndFail, Return, Proceed, TypeInv
  <1>6. /\ threads_initialized' \in 0 .. Threads /\ threads_free' \in Seq(1 .. threads_initialized')
        /\ thr' \in 0 .. threads_initialized'
    <2>1. CASE threads_free # <<>> /\ thr' = Head(threads_free) /\ threads_free' = Tail(threads_free) /\ UNCHANGED threads_initialized
      BY <2>1 DEF TypeInv
    <2>2. CASE NewThreadAllowed /\ thr' = threads_initialized + 1 /\ threads_initialized' = threads_initialized + 1 /\ UNCHANGED threads_free
      <3>1. threads_initialized' \in 0 .. Threads /\ thr' \in 0 .. threads_initialized'
        BY <2>2, QueueAssumption DEF TypeInv, NewThreadAllowed
      <3>2. 1 .. threads_initialized \subseteq 1 .. threads_initialized'
        BY <2>2, QueueAssumption DEF TypeInv
      <3>3. PICK S, T : S = 1 .. threads_initialized /\ T = 1 .. threads_initialized'
        OBVIOUS
      <3>4. threads_free \in Seq(S) /\ S \subseteq T
        BY <3>2, <3>3 DEF TypeInv
      <3>5. threads_free \in Seq(T)
        BY <3>4
      <3> QED BY <2>2, <3>1, <3>3, <3>5
    <2>3. CASE UNCHANGED <<thr, threads_free, threads_initialized>>
      BY <2>3 DEF TypeInv
    <2> QED BY <2>1, <2>2, <2>3 DEF GetThread
  <1>7. filters_cache' \in {None, filters'} /\ filters' = filters
    BY DEF GetThread, TypeInv
  <1> QED BY <1>3, <1>4, <1>5, <1>6, <1>7 DEF GetThread, TypeInv, AppPlaces, hist

(* Replacing the last element of a sequence.                               *)
LEMMA LastReplaced ==
  ASSUME NEW B, NEW s \in Seq(B), NEW b \in B, NEW c \in B
  PROVE  [Append(s, b) EXCEPT ![Len(s) + 1] = c] = Append(s, c)
  <1>1. PICK n \in Nat : n = Len(s)
    OBVIOUS
  <1>2. Append(s, b) \in Seq(B) /\ Append(s, c) \in Seq(B) /\ Len(Append(s, b)) = n + 1 /\ Len(Append(s, c)) = n + 1
    BY <1>1
  <1>3. PICK t : t = [Append(s, b) EXCEPT ![n + 1] = c]
    OBVIOUS
  <1>4. t \in Seq(B) /\ Len(t) = n + 1
    BY <1>2, <1>3, Updated
  <1>5. ASSUME NEW i \in 1 .. n + 1 PROVE t[i] = Append(s, c)[i]
    <2>1. DOMAIN Append(s, b) = 1 .. n + 1
      BY <1>2
    <2>2. CASE i = n + 1
      BY <1>1, <1>3, <2>1, <2>2, AppendProperties
    <2>3. CASE i # n + 1
      <3>1. i \in 1 .. n
        BY <2>3
      <3>2. t[i] = Append(s, b)[i]
        BY <1>3, <2>1, <2>3
      <3> QED BY <1>1, <3>1, <3>2, AppendProperties
    <2> QED BY <2>2, <2>3
  <1>6. t = Append(s, c)
    <2>1. PICK u : u = Append(s, c)
      OBVIOUS
    <2>2. t \in Seq(B) /\ u \in Seq(B) /\ Len(t) = Len(u) /\ \A i \in 1 .. Len(t) : t[i] = u[i]
      BY <1>2, <1>4, <1>5, <2>1
    <2> QED BY <2>1, <2>2, SeqEqual
  <1> QED BY <1>1, <1>3, <1>6

(* The worker that AssignThread starts on job.                             *)
Assigned(job) ==
  [state |-> "RUN", in |-> <<>>, outbuf |-> job, filters |-> filters_cache,
   progress_in |-> ws[thr].progress_in]

LEMMA AssignedType == ASSUME TypeInv, NEW job \in Nat \X Nat, thr \in Worker PROVE Assigned(job) \in WorkerType
  <1>1. filters_cache \in Nat
    BY DEF TypeInv
  <1>2. ws[thr].progress_in \in Nat
    BY DEF TypeInv, WorkerType
  <1>3. <<>> \in Input
    BY StreamEncoderAssumption DEF Input
  <1> QED BY <1>1, <1>2, <1>3 DEF Assigned, WorkerType, States

LEMMA NextJobType == ASSUME TypeInv PROVE NextJob \in Nat \X Nat
  <1>1. PICK n \in Nat, m \in Nat : n = Len(index) /\ m = Len(outq.active)
    <2>1. Len(index) \in Nat
      <3>1. PICK R : R = {"STREAM_END", <<>>} \cup (Seq(Nat) \X Nat)
        OBVIOUS
      <3>2. index \in Seq(R)
        BY <3>1 DEF TypeInv
      <3> QED BY <3>2
    <2>2. Len(outq.active) \in Nat
      BY DEF TypeInv, IsQueue
    <2> QED BY <2>1, <2>2
  <1>2. n + m + 1 \in Nat /\ inits \in Nat
    BY <1>1 DEF TypeInv
  <1> QED BY <1>1, <1>2 DEF NextJob

LEMMA AssignedWorker ==
  ASSUME TypeInv, AssignThread, NEW job, job = NextJob
  PROVE  ws' = [ws EXCEPT ![thr] = Assigned(job)]
  <1>1. CASE thr \in Worker
    <2>1. PICK r \in WorkerType : r = ws[thr]
      BY <1>1 DEF TypeInv
    <2>2. /\ "RUN" \in States /\ <<>> \in Input /\ job \in Nat \X Nat /\ filters_cache \in Nat
          /\ ws[thr].progress_in = r.progress_in
      <3>1. <<>> \in Input /\ filters_cache \in Nat
        BY StreamEncoderAssumption DEF Input, TypeInv
      <3> QED BY <2>1, <3>1, NextJobType DEF States
    <2>3. PICK r1 : r1 = [r EXCEPT !.state = "RUN"]
      OBVIOUS
    <2>4. PICK r2 : r2 = [r1 EXCEPT !.in = <<>>]
      OBVIOUS
    <2>5. PICK r3 : r3 = [r2 EXCEPT !.outbuf = job]
      OBVIOUS
    <2>6. PICK r4 : r4 = [r3 EXCEPT !.filters = filters_cache]
      OBVIOUS
    <2>7. r1 \in WorkerType /\ r1.state = "RUN" /\ r1.progress_in = r.progress_in
      BY <2>2, <2>3, SetState
    <2>8. r2 \in WorkerType /\ r2.state = "RUN" /\ r2.in = <<>> /\ r2.progress_in = r.progress_in
      BY <2>2, <2>4, <2>7, SetIn
    <2>9. r3 \in WorkerType /\ r3.state = "RUN" /\ r3.in = <<>> /\ r3.outbuf = job /\ r3.progress_in = r.progress_in
      BY <2>2, <2>5, <2>8, SetOutbuf
    <2>10. /\ r4 \in WorkerType /\ r4.state = "RUN" /\ r4.in = <<>> /\ r4.outbuf = job
           /\ r4.filters = filters_cache /\ r4.progress_in = r.progress_in
      BY <2>2, <2>6, <2>9, SetFilters
    <2>11. r4 = Assigned(job)
      BY <2>2, <2>10 DEF Assigned, WorkerType
    <2>12. ws' = [ws EXCEPT ![thr].state = "RUN", ![thr].in = <<>>, ![thr].outbuf = job, ![thr].filters = filters_cache]
      BY DEF AssignThread
    <2>13. ws' = [ws EXCEPT ![thr] = r4]
      BY <1>1, <2>1, <2>3, <2>4, <2>5, <2>6, <2>12 DEF TypeInv
    <2> QED BY <2>11, <2>13
  <1>2. CASE thr \notin Worker
    BY <1>2 DEF AssignThread, TypeInv
  <1> QED BY <1>1, <1>2

LEMMA AssignQueue ==
  ASSUME TypeInv, AssignThread
  PROVE  /\ IsQueue(outq', Buf, {BufSize})
         /\ \E b \in Buf : ~b.finished /\ b.job = NextJob /\ outq'.active = Append(outq.active, b)
  <1>1. IsQueue(outq, Buf, {BufSize}) /\ outq.active \in Seq(Buf) /\ outq.cache \in Seq({BufSize}) /\ Len(outq.cache) > 0
    BY DEF TypeInv, IsQueue, AssignThread
  <1>2. PICK job \in Nat \X Nat : job = NextJob
    BY NextJobType
  <1>3. PICK b : b = FreshBuf(job, Last(outq.cache), thr)
    OBVIOUS
  <1>4. b \in Buf /\ ~b.finished /\ b.job = job
    <2>1. PICK S : S = {BufSize}
      OBVIOUS
    <2>2. Last(outq.cache) \in S
      <3>1. outq.cache \in Seq(S)
        BY <1>1, <2>1
      <3> QED BY <1>1, <3>1, FrontOfCache
    <2>3. Last(outq.cache) = BufSize
      BY <2>1, <2>2
    <2>4. thr \in Nat
      BY QueueAssumption DEF TypeInv
    <2> QED BY <1>2, <1>3, <2>3, <2>4 DEF FreshBuf, Buf
  <1>5. PICK q : q = GetBuf(outq, job, thr)
    OBVIOUS
  <1>6. IsQueue(q, Buf, {BufSize}) /\ q.active = Append(outq.active, b)
    <2>1. FreshBuf(job, Last(outq.cache), thr) \in Buf
      BY <1>3, <1>4
    <2> QED BY <1>1, <1>3, <1>5, <2>1, Taken
  <1>7. PICK c : c = [b EXCEPT !.ret = <<>>]
    OBVIOUS
  <1>8. c \in Buf /\ ~c.finished /\ c.job = job
    BY <1>4, <1>7 DEF Buf
  <1>9. PICK n \in Nat : n = Len(outq.active)
    BY <1>1
  <1>10. q.active[n + 1] = b
    BY <1>1, <1>4, <1>6, <1>9
  <1>11. outq' = [q EXCEPT !.active[n + 1].ret = <<>>]
    BY <1>2, <1>5, <1>9 DEF AssignThread
  <1>12. outq' = [q EXCEPT !.active = [@ EXCEPT ![n + 1] = c]]
    BY <1>7, <1>10, <1>11
  <1>13. [q.active EXCEPT ![n + 1] = c] = Append(outq.active, c)
    <2>1. [Append(outq.active, b) EXCEPT ![Len(outq.active) + 1] = c] = Append(outq.active, c)
      <3>1. PICK a \in Seq(Buf) : a = outq.active
        BY <1>1
      <3>2. b \in Buf /\ c \in Buf
        BY <1>4, <1>8
      <3>3. [Append(a, b) EXCEPT ![Len(a) + 1] = c] = Append(a, c)
        BY <3>2, LastReplaced
      <3> QED BY <3>1, <3>3
    <2> QED BY <1>6, <1>9, <2>1
  <1>14. Append(outq.active, c) \in Seq(Buf)
    BY <1>1, <1>8
  <1>15. IsQueue(outq', Buf, {BufSize}) /\ outq'.active = Append(outq.active, c)
    BY <1>6, <1>12, <1>13, <1>14 DEF IsQueue
  <1> QED BY <1>2, <1>8, <1>15

LEMMA AssignType == TypeInv /\ AssignThread => TypeInv'
  <1> SUFFICES ASSUME TypeInv, AssignThread PROVE TypeInv'
    OBVIOUS
  <1>1. PICK job \in Nat \X Nat : job = NextJob
    BY NextJobType
  <1>2. ws' = [ws EXCEPT ![thr] = Assigned(job)]
    BY <1>1, AssignedWorker
  <1>3. ws' \in [Worker -> WorkerType]
    BY <1>2, AssignedType DEF TypeInv
  <1> QED BY <1>3, AssignQueue DEF AssignThread, TypeInv, AppPlaces, app, hist

(* The worker that FeedThread gives units to.                              *)
LEMMA FedWorker ==
  ASSUME NEW r \in WorkerType, NEW u \in Input, NEW s \in States, NEW k,
         k = [r EXCEPT !.in = u, !.state = s]
  PROVE  k \in WorkerType /\ k.in = u /\ k.state = s /\ k.filters = r.filters /\ k.outbuf = r.outbuf
  <1>1. PICK k1 : k1 = [r EXCEPT !.in = u]
    OBVIOUS
  <1>2. k1 \in WorkerType /\ k1.in = u /\ k1.filters = r.filters /\ k1.outbuf = r.outbuf
    BY <1>1, SetIn
  <1>3. k = [k1 EXCEPT !.state = s]
    BY <1>1
  <1>4. s \in States
    OBVIOUS
  <1>5. k \in WorkerType /\ k.state = s /\ k.in = k1.in /\ k.filters = k1.filters /\ k.outbuf = k1.outbuf
    BY ONLY <1>2, <1>3, <1>4, SetState
  <1> QED BY <1>2, <1>5

(* What is copied fits into the Block and was there to be taken.           *)
LEMMA CopySizeFits ==
  ASSUME NEW size \in Nat, NEW m \in Nat, m <= size, NEW avail \in Nat
  PROVE  /\ CopySize(size - m, avail) \in Nat
         /\ CopySize(size - m, avail) <= avail /\ m + CopySize(size - m, avail) <= size
  BY DEF CopySize, SmallerOf

(* What FeedThread does: n units go to the thread, unless it is idle.      *)
FedBy(n, more, state) ==
  /\ more = [i \in 1 .. n |-> accepted + i]
  /\ ws[thr].in \o more \in Input
  /\ thr \in Worker /\ accepted' = accepted + n /\ chain_of' = chain_of \o [i \in 1 .. n |-> filters]
  /\ call' = [call EXCEPT !.avail = @ - n] /\ n <= call.avail
  /\ IF ws[thr].state = "IDLE"
     THEN pc' = "blockerror" /\ UNCHANGED <<thr, ws, cuts>>
     ELSE /\ ws' = [ws EXCEPT ![thr] = [ws[thr] EXCEPT !.in = @ \o more, !.state = state]]
          /\ state \in {ws[thr].state, "FINISH"} /\ thr' \in {None, thr}
          /\ UNCHANGED pc

LEMMA Fed ==
  ASSUME TypeInv, FeedThread
  PROVE  \E n \in Nat, more \in Seq(Nat), state \in States : FedBy(n, more, state)
  <1>1. thr \in Worker
    BY ThrIsMade DEF FeedThread
  <1>2. PICK r \in WorkerType : r = ws[thr]
    BY <1>1 DEF TypeInv
  <1>3. r.in \in Seq(Nat) /\ Len(r.in) \in Nat /\ Len(r.in) <= BlockSize /\ call.avail \in Nat /\ BlockSize \in Nat /\ accepted \in Nat
    BY StreamEncoderAssumption DEF WorkerType, Input, TypeInv
  <1>4. PICK n : n = CopySize(BlockSize - Len(r.in), call.avail)
    OBVIOUS
  <1>5. n \in Nat /\ n <= call.avail /\ Len(r.in) + n <= BlockSize
    BY <1>3, <1>4, CopySizeFits
  <1>6. PICK more : more = [i \in 1 .. n |-> accepted + i]
    OBVIOUS
  <1>7. more \in Seq(Nat) /\ Len(more) = n
    BY <1>3, <1>5, <1>6
  <1>8. r.in \o more \in Input
    <2>1. r.in \in Seq(Nat) /\ more \in Seq(Nat)
      BY <1>3, <1>7
    <2>2. r.in \o more \in Seq(Nat) /\ Len(r.in \o more) = Len(r.in) + Len(more)
      BY <2>1, ConcatProperties
    <2> QED BY <1>5, <1>7, <2>2 DEF Input
  <1>9. PICK done \in BOOLEAN : done = ClosesBlock(Len(r.in) + n, call.avail - n)
    BY DEF ClosesBlock
  <1>10. PICK state \in States : state = IF done THEN "FINISH" ELSE r.state
    BY DEF WorkerType, States
  <1>11. /\ accepted' = accepted + n /\ chain_of' = chain_of \o [i \in 1 .. n |-> filters]
         /\ call' = [call EXCEPT !.avail = @ - n]
         /\ IF ws[thr].state = "IDLE"
            THEN pc' = "blockerror" /\ UNCHANGED <<thr, ws, cuts>>
            ELSE /\ ws' = [ws EXCEPT ![thr].in = @ \o more, ![thr].state = IF done THEN "FINISH" ELSE @]
                 /\ thr' = IF done THEN None ELSE thr
                 /\ UNCHANGED pc
    BY <1>2, <1>4, <1>6, <1>9 DEF FeedThread
  <1>12. [ws EXCEPT ![thr].in = @ \o more, ![thr].state = IF done THEN "FINISH" ELSE @]
           = [ws EXCEPT ![thr] = [ws[thr] EXCEPT !.in = @ \o more, !.state = state]]
    BY <1>1, <1>2, <1>10 DEF TypeInv
  <1>13. IF ws[thr].state = "IDLE"
         THEN pc' = "blockerror" /\ UNCHANGED <<thr, ws, cuts>>
         ELSE /\ ws' = [ws EXCEPT ![thr] = [ws[thr] EXCEPT !.in = @ \o more, !.state = state]]
              /\ state \in {ws[thr].state, "FINISH"} /\ thr' \in {None, thr}
              /\ UNCHANGED pc
    BY <1>2, <1>11, <1>10, <1>12
  <1> QED BY <1>1, <1>2, <1>5, <1>6, <1>7, <1>8, <1>11, <1>13 DEF FedBy

LEMMA FeedType == TypeInv /\ FeedThread => TypeInv'
  <1> SUFFICES ASSUME TypeInv, FeedThread PROVE TypeInv'
    OBVIOUS
  <1>1. PICK n \in Nat, more \in Seq(Nat), state \in States : FedBy(n, more, state)
    BY Fed
  <1>2. thr \in Worker /\ accepted' = accepted + n /\ ws[thr].in \o more \in Input
    BY <1>1 DEF FedBy
  <1>3. call' = [call EXCEPT !.avail = @ - n] /\ n <= call.avail
    BY <1>1 DEF FedBy
  <1>4. ws' = ws \/ ws' = [ws EXCEPT ![thr] = [ws[thr] EXCEPT !.in = @ \o more, !.state = state]]
    BY <1>1 DEF FedBy
  <1>5. ws' \in [Worker -> WorkerType]
    <2>1. PICK r \in WorkerType : r = ws[thr]
      BY <1>2 DEF TypeInv
    <2>2. PICK k : k = [r EXCEPT !.in = @ \o more, !.state = state]
      OBVIOUS
    <2>3. k \in WorkerType
      <3>1. PICK u \in Input : u = r.in \o more
        BY <1>2, <2>1
      <3>2. k = [r EXCEPT !.in = u, !.state = state]
        BY <2>2, <3>1
      <3> QED BY <3>2 DEF WorkerType
    <2>4. ws' = ws \/ ws' = [ws EXCEPT ![thr] = k]
      BY <1>4, <2>1, <2>2
    <2> QED BY <2>3, <2>4 DEF TypeInv
  <1>6. thr' \in {None, thr} /\ pc' \in {"blockerror", pc}
    BY <1>1 DEF FedBy
  <1>7. accepted' \in Nat /\ call'.avail \in Nat /\ call' = [action |-> call'.action, avail |-> call'.avail, space |-> call'.space]
    <2>1. PICK m \in Nat : m = call.avail
      BY DEF TypeInv
    <2>2. m - n \in Nat
      BY <1>3, <2>1
    <2>3. call = [action |-> call.action, avail |-> m, space |-> call.space]
      BY <2>1 DEF TypeInv
    <2>4. call' = [action |-> call.action, avail |-> m - n, space |-> call.space]
      BY <1>3, <2>1, <2>3
    <2>5. accepted' \in Nat
      BY <1>2 DEF TypeInv
    <2> QED BY <2>2, <2>4, <2>5
  <1>8. pc # "assign" /\ pc' # "assign"
    BY <1>6 DEF FeedThread
  <1>9. pc' \in AppPlaces
    BY <1>6 DEF TypeInv, AppPlaces
  <1>10. UNCHANGED <<setup, wl, threads_initialized, threads_free, inits, filters, filters_cache, index, outq>>
    BY DEF FeedThread, shared
  <1>11. thr' \in 0 .. threads_initialized'
    BY <1>6, <1>10 DEF TypeInv, None
  <1> QED BY <1>5, <1>7, <1>8, <1>9, <1>10, <1>11 DEF TypeInv

LEMMA RestartQueue ==
  ASSUME TypeInv PROVE IsQueue(RequeuedAll, Buf, {BufSize}) /\ RequeuedAll.active = <<>>
  <1>1. PICK S : S = {BufSize}
    OBVIOUS
  <1>2. IsQueue(outq, Buf, S)
    BY <1>1 DEF TypeInv
  <1>3. PICK more : more = [i \in DOMAIN outq.active |-> BufSize]
    OBVIOUS
  <1>4. more \in Seq(S)
    <2>1. PICK n \in Nat : DOMAIN outq.active = 1 .. n
      BY <1>2 DEF IsQueue
    <2>2. BufSize \in S
      BY <1>1
    <2> QED BY <1>3, <2>1, <2>2
  <1>5. PICK c \in Seq(S) : c = outq.cache \o more
    <2>1. outq.cache \in Seq(S)
      BY <1>2 DEF IsQueue
    <2>2. outq.cache \o more \in Seq(S)
      BY <1>4, <2>1, ConcatProperties
    <2> QED BY <2>2
  <1>6. PICK k : k = [outq EXCEPT !.cache = c]
    OBVIOUS
  <1>7. IsQueue(k, Buf, S) /\ k.active = outq.active
    BY <1>2, <1>6, SetCache
  <1>8. PICK l : l = [k EXCEPT !.active = <<>>]
    OBVIOUS
  <1>9. IsQueue(l, Buf, S) /\ l.active = <<>>
    <2>1. PICK e \in Seq(Buf) : e = <<>>
      <3>1. <<>> \in Seq(Buf)
        OBVIOUS
      <3> QED BY <3>1
    <2>2. l = [k EXCEPT !.active = e]
      BY <1>8, <2>1
    <2> QED BY <1>7, <2>1, <2>2 DEF IsQueue
  <1>10. PICK m : m = [l EXCEPT !.read_pos = 0]
    OBVIOUS
  <1>11. IsQueue(m, Buf, S) /\ m.active = <<>>
    <2>1. PICK z : z = 0
      OBVIOUS
    <2>2. m = [l EXCEPT !.read_pos = z]
      BY <1>10, <2>1
    <2> QED BY <1>9, <2>2 DEF IsQueue
  <1>12. PICK o : o = [m EXCEPT !.mem_in_use = 0]
    OBVIOUS
  <1>13. IsQueue(o, Buf, S) /\ o.active = <<>>
    <2>1. PICK z : z = 0
      OBVIOUS
    <2>2. o = [m EXCEPT !.mem_in_use = z]
      BY <1>12, <2>1
    <2> QED BY <1>11, <2>2 DEF IsQueue
  <1>14. o = RequeuedAll
    BY <1>3, <1>5, <1>6, <1>8, <1>10, <1>12 DEF RequeuedAll
  <1> QED BY <1>1, <1>13, <1>14

LEMMA RestartType == TypeInv /\ Restart => TypeInv'
  <1> SUFFICES ASSUME TypeInv, Restart PROVE TypeInv'
    OBVIOUS
  <1>1. IsQueue(outq', Buf, {BufSize})
    BY RestartQueue DEF Restart
  <1>2. PICK R : R = {"STREAM_END", <<>>} \cup (Seq(Nat) \X Nat)
    OBVIOUS
  <1>3. index' \in Seq(R)
    BY DEF Restart
  <1> QED BY <1>1, <1>2, <1>3 DEF Restart, TypeInv, AppPlaces

(* What the workers may change of their own.                               *)
LEMMA WorkerChange ==
  ASSUME TypeInv, NEW w \in Worker,
         ws' \in [Worker -> WorkerType], wl' \in [Worker -> ThreadType],
         IsQueue(outq', Buf, {BufSize}), outq'.cache = outq.cache,
         threads_free' \in Seq(1 .. threads_initialized),
         pc' = pc \/ pc' = Signalled, UNCHANGED <<setup, app, coder, inits, accepted>>
  PROVE  TypeInv'
  BY DEF TypeInv, app, coder, Signalled, AppPlaces

LEMMA ThreadUpdates ==
  ASSUME TypeInv, NEW w \in Worker, NEW r \in ThreadType
  PROVE  [wl EXCEPT ![w] = r] \in [Worker -> ThreadType]
  BY DEF TypeInv

LEMMA WorkerUpdates ==
  ASSUME TypeInv, NEW w \in Worker, NEW r \in WorkerType
  PROVE  [ws EXCEPT ![w] = r] \in [Worker -> WorkerType]
  BY DEF TypeInv

LEMMA TakeCommandType == ASSUME TypeInv, NEW w \in Worker, TakeCommand(w) PROVE TypeInv'
  <1>1. PICK r \in WorkerType : r = ws[w]
    BY DEF TypeInv
  <1>2. PICK x \in ThreadType : x = wl[w]
    BY DEF TypeInv
  <1>3. [r EXCEPT !.state = "IDLE"] \in WorkerType
    BY DEF WorkerType, States
  <1>4. [x EXCEPT !.pc = "exited"] \in ThreadType
    BY DEF ThreadType, ThreadPlaces
  <1>5. [IdleThread EXCEPT !.pc = "run", !.state = r.state] \in ThreadType
    <2>1. <<>> \in Seq(Nat) /\ r.state \in States
      BY DEF WorkerType
    <2> QED BY <2>1 DEF ThreadType, ThreadPlaces, IdleThread
  <1>6. ws' \in [Worker -> WorkerType]
    BY <1>1, <1>3 DEF TypeInv, TakeCommand
  <1>7. wl' \in [Worker -> ThreadType]
    BY <1>1, <1>2, <1>4, <1>5 DEF TypeInv, TakeCommand
  <1> QED BY <1>6, <1>7, WorkerChange DEF TakeCommand, shared, TypeInv

(* The units of the next chunk are there, also when there is none.         *)
LEMMA Chunk ==
  ASSUME NEW s \in Seq(Nat), NEW done \in Nat
  PROVE  LET n == SmallerOf(Len(s) - done, ChunkMax)
             chunk == SubSeq(s, done + 1, done + n)
         IN chunk \in Seq(Nat) /\ \A k \in DOMAIN chunk : \E i \in DOMAIN s : chunk[k] = s[i]
  <1>1. PICK m \in Nat : m = Len(s) /\ DOMAIN s = 1 .. m
    OBVIOUS
  <1>2. PICK n \in Int : n = SmallerOf(m - done, ChunkMax) /\ done + n <= m
    <2>1. m - done \in Int
      OBVIOUS
    <2>2. PICK k \in Int : k = m - done
      BY <2>1
    <2>3. PICK max \in Nat : max = ChunkMax
      BY StreamEncoderAssumption
    <2>4. SmallerOf(k, max) \in Int /\ SmallerOf(k, max) <= k
      BY <2>2, <2>3 DEF SmallerOf
    <2>5. PICK n \in Int : n = SmallerOf(k, max)
      BY <2>4
    <2>6. done + n <= m
      BY <1>1, <2>2, <2>4, <2>5
    <2> QED BY <2>2, <2>3, <2>5, <2>6
  <1>3. PICK i \in Int, j \in Int : i = done + 1 /\ j = done + n /\ i >= 1 /\ j <= m
    BY <1>2
  <1>4. \A k \in i .. j : s[k] \in Nat
    <2>1. \A k \in i .. j : k \in 1 .. m
      BY <1>3
    <2> QED BY <1>1, <2>1
  <1>5. /\ SubSeq(s, i, j) \in Seq(Nat)
        /\ Len(SubSeq(s, i, j)) = IF i <= j THEN j - i + 1 ELSE 0
        /\ \A k \in 1 .. j - i + 1 : SubSeq(s, i, j)[k] = s[i + k - 1]
    <2>1. i \in Int /\ j \in Int /\ \A k \in i .. j : s[k] \in Nat
      BY <1>4
    <2> QED BY <2>1, SubSeqProperties
  <1>6. \A k \in DOMAIN SubSeq(s, i, j) : \E l \in DOMAIN s : SubSeq(s, i, j)[k] = s[l]
    <2> SUFFICES ASSUME NEW k \in DOMAIN SubSeq(s, i, j) PROVE \E l \in DOMAIN s : SubSeq(s, i, j)[k] = s[l]
      OBVIOUS
    <2>1. k \in 1 .. j - i + 1
      BY <1>3, <1>5
    <2>2. i + k - 1 \in 1 .. m
      BY <1>3, <2>1
    <2> QED BY <1>1, <1>5, <2>1, <2>2
  <1> QED BY <1>1, <1>2, <1>3, <1>5, <1>6

(* What EncodeChunk makes of the thread.                                   *)
Chunked(w, place, state, size) ==
  LET done == Len(wl[w].content)
      n    == SmallerOf(Len(ws[w].in) - done, ChunkMax)
  IN [pc |-> place, state |-> state, size |-> size,
      content |-> wl[w].content \o SubSeq(ws[w].in, done + 1, done + n)]

(* The chunk that EncodeChunk encodes is the last of what is there.        *)
Completes(w) ==
  LET done == Len(wl[w].content)
  IN done + SmallerOf(Len(ws[w].in) - done, ChunkMax) = Len(ws[w].in)

LEMMA EncodeStep ==
  ASSUME TypeInv, NEW w \in Worker, EncodeChunk(w)
  PROVE  /\ ws' = [ws EXCEPT ![w].progress_in = Len(wl[w].content)]
         /\ \/ ws[w].state \in {"STOP", "EXIT"} /\ wl' = Leave(w, ws[w].state)
            \/ /\ ws[w].state \in {"RUN", "FINISH"}
               /\ \E place \in {"release", "run"}, state \in {"FINISH", "RUN"}, size \in Nat :
                    /\ wl' = [wl EXCEPT ![w] = Chunked(w, place, state, size)]
                    /\ place = "release" => state = "FINISH" /\ ws[w].state = "FINISH" /\ Completes(w)
            \/ ws[w].state \in {"RUN", "FINISH"} /\ wl' = [wl EXCEPT ![w].pc = "fail"]
            \/ ws[w].state \in {"RUN", "FINISH"} /\ wl' = [wl EXCEPT ![w].pc = "full"]
  <1>1. PICK n : n = SmallerOf(Len(ws[w].in) - Len(wl[w].content), ChunkMax)
    OBVIOUS
  <1>2. PICK c : c = wl[w].content \o SubSeq(ws[w].in, Len(wl[w].content) + 1, Len(wl[w].content) + n)
    OBVIOUS
  <1>3. PICK x \in ThreadType : x = wl[w]
    BY DEF TypeInv
  <1>4. CASE \E size \in OutSizes :
                wl' = [wl EXCEPT ![w].content = c,
                         ![w].pc = IF LastChunk(w, n) THEN "release" ELSE "run",
                         ![w].size = IF LastChunk(w, n) THEN size ELSE 0,
                         ![w].state = IF LastChunk(w, n) THEN "FINISH" ELSE "RUN"]
    <2>1. PICK size \in OutSizes :
                wl' = [wl EXCEPT ![w].content = c,
                         ![w].pc = IF LastChunk(w, n) THEN "release" ELSE "run",
                         ![w].size = IF LastChunk(w, n) THEN size ELSE 0,
                         ![w].state = IF LastChunk(w, n) THEN "FINISH" ELSE "RUN"]
      BY <1>4
    <2>2. PICK place \in {"release", "run"}, state \in {"FINISH", "RUN"}, s \in Nat :
            /\ place = IF LastChunk(w, n) THEN "release" ELSE "run"
            /\ s = IF LastChunk(w, n) THEN size ELSE 0
            /\ state = IF LastChunk(w, n) THEN "FINISH" ELSE "RUN"
      BY StreamEncoderAssumption
    <2>3. wl' = [wl EXCEPT ![w].content = c, ![w].pc = place, ![w].size = s, ![w].state = state]
      BY <2>1, <2>2
    <2>4. wl' = [wl EXCEPT ![w] = [pc |-> place, state |-> state, size |-> s, content |-> c]]
      <3>1. c \in Seq(Nat)
        <4>1. x.content \in Seq(Nat) /\ Len(x.content) \in Nat /\ ws[w].in \in Seq(Nat)
          <5>1. x.content \in Seq(Nat)
            BY DEF ThreadType
          <5>2. ws[w].in \in Seq(Nat)
            BY DEF TypeInv, WorkerType, Input
          <5> QED BY <5>1, <5>2
        <4>2. PICK chunk \in Seq(Nat) : chunk = SubSeq(ws[w].in, Len(x.content) + 1, Len(x.content) + n)
          BY <1>1, <1>3, <4>1, Chunk
        <4> QED BY <1>2, <1>3, <4>1, <4>2, ConcatProperties
      <3>2. place \in ThreadPlaces /\ state \in States
        BY DEF ThreadPlaces, States
      <3>3. PICK r1 : r1 = [x EXCEPT !.content = c]
        OBVIOUS
      <3>4. PICK r2 : r2 = [r1 EXCEPT !.pc = place]
        OBVIOUS
      <3>5. PICK r3 : r3 = [r2 EXCEPT !.size = s]
        OBVIOUS
      <3>6. PICK r4 : r4 = [r3 EXCEPT !.state = state]
        OBVIOUS
      <3>7. r1 \in ThreadType /\ r1.content = c
        BY <3>1, <3>3, SetContent
      <3>8. r2 \in ThreadType /\ r2.content = c /\ r2.pc = place
        BY <3>2, <3>4, <3>7, SetPlace
      <3>9. r3 \in ThreadType /\ r3.content = c /\ r3.pc = place /\ r3.size = s
        BY <3>5, <3>8, SetSize
      <3>10. r4 \in ThreadType /\ r4.content = c /\ r4.pc = place /\ r4.size = s /\ r4.state = state
        BY <3>2, <3>6, <3>9, SetLocal
      <3>11. r4 = [pc |-> place, state |-> state, size |-> s, content |-> c]
        BY <3>10 DEF ThreadType
      <3>12. wl' = [wl EXCEPT ![w] = r4]
        BY <1>3, <2>3, <3>3, <3>4, <3>5, <3>6 DEF TypeInv
      <3> QED BY <3>11, <3>12
    <2>5. wl' = [wl EXCEPT ![w] = Chunked(w, place, state, s)]
      BY <1>1, <1>2, <2>4 DEF Chunked
    <2>6. place = "release" => state = "FINISH" /\ ws[w].state = "FINISH" /\ Completes(w)
      BY <1>1, <2>2 DEF LastChunk, Completes
    <2> HIDE DEF Chunked
    <2> QED BY <2>5, <2>6, <1>4 DEF EncodeChunk
  <1> QED BY <1>1, <1>2, <1>4 DEF EncodeChunk

LEMMA ChunkedType ==
  ASSUME TypeInv, NEW w \in Worker, NEW place \in ThreadPlaces, NEW state \in States, NEW size \in Nat
  PROVE  Chunked(w, place, state, size) \in ThreadType
  <1>1. wl[w].content \in Seq(Nat) /\ ws[w].in \in Seq(Nat)
    <2>1. wl[w] \in ThreadType /\ ws[w] \in WorkerType
      BY DEF TypeInv
    <2> QED BY <2>1 DEF ThreadType, WorkerType, Input
  <1>2. PICK done \in Nat : done = Len(wl[w].content)
    BY <1>1
  <1>3. PICK chunk \in Seq(Nat) :
          chunk = SubSeq(ws[w].in, done + 1, done + SmallerOf(Len(ws[w].in) - done, ChunkMax))
    BY <1>1, Chunk
  <1>4. wl[w].content \o chunk \in Seq(Nat)
    BY <1>1, <1>3, ConcatProperties
  <1>5. PICK c \in Seq(Nat) : c = wl[w].content \o chunk
    BY <1>4
  <1>6. Chunked(w, place, state, size) = [pc |-> place, state |-> state, size |-> size, content |-> c]
    BY <1>2, <1>3, <1>5 DEF Chunked
  <1> QED BY <1>6 DEF ThreadType

LEMMA PlaceTypes ==
  ASSUME TypeInv, NEW w \in Worker, NEW place \in ThreadPlaces
  PROVE  [wl EXCEPT ![w].pc = place] \in [Worker -> ThreadType]
  <1>1. PICK x \in ThreadType : x = wl[w]
    BY DEF TypeInv
  <1>2. PICK k : k = [x EXCEPT !.pc = place]
    OBVIOUS
  <1>3. k \in ThreadType
    BY <1>2, SetPlace
  <1>4. [wl EXCEPT ![w].pc = place] = [wl EXCEPT ![w] = k]
    BY <1>1, <1>2 DEF TypeInv
  <1> QED BY <1>3, <1>4, ThreadUpdates

LEMMA LeaveType ==
  ASSUME TypeInv, NEW w \in Worker, NEW state \in States
  PROVE  /\ Leave(w, state) = [wl EXCEPT ![w] = [wl[w] EXCEPT !.pc = IF state = "EXIT" THEN "exited" ELSE "release", !.state = state]]
         /\ Leave(w, state) \in [Worker -> ThreadType]
  <1>1. PICK x \in ThreadType : x = wl[w]
    BY DEF TypeInv
  <1>2. PICK place \in ThreadPlaces : place = IF state = "EXIT" THEN "exited" ELSE "release"
    BY DEF ThreadPlaces
  <1>3. PICK y : y = [x EXCEPT !.pc = place, !.state = state]
    OBVIOUS
  <1>4. y \in ThreadType
    <2>1. PICK z : z = [x EXCEPT !.pc = place]
      OBVIOUS
    <2>2. z \in ThreadType
      BY <2>1, SetPlace
    <2>3. y = [z EXCEPT !.state = state]
      BY <1>3, <2>1
    <2> QED BY <2>2, <2>3, SetLocal
  <1>5. Leave(w, state) = [wl EXCEPT ![w] = y]
    BY <1>1, <1>2, <1>3 DEF Leave, TypeInv
  <1> QED BY <1>1, <1>2, <1>3, <1>4, <1>5, ThreadUpdates

LEMMA EncodeChunkType == ASSUME TypeInv, NEW w \in Worker, EncodeChunk(w) PROVE TypeInv'
  <1>1. PICK r \in WorkerType : r = ws[w]
    BY DEF TypeInv
  <1>2. PICK x \in ThreadType : x = wl[w]
    BY DEF TypeInv
  <1>3. ws' \in [Worker -> WorkerType]
    <2>1. PICK done \in Nat : done = Len(x.content)
      BY DEF ThreadType
    <2>2. [r EXCEPT !.progress_in = done] \in WorkerType
      BY DEF WorkerType
    <2>3. ws' = [ws EXCEPT ![w].progress_in = done]
      BY <1>2, <2>1, EncodeStep
    <2>4. ws' = [ws EXCEPT ![w] = [r EXCEPT !.progress_in = done]]
      BY <1>1, <2>3 DEF TypeInv
    <2> QED BY <2>2, <2>4, WorkerUpdates
  <1>4. wl' \in [Worker -> ThreadType]
    <2>1. CASE ws[w].state \in {"STOP", "EXIT"} /\ wl' = Leave(w, ws[w].state)
      BY <2>1, LeaveType DEF States
    <2>2. CASE \E place \in {"release", "run"}, state \in {"FINISH", "RUN"}, size \in Nat :
                 wl' = [wl EXCEPT ![w] = Chunked(w, place, state, size)]
      BY <2>2, ChunkedType, ThreadUpdates DEF ThreadPlaces, States
    <2>3. CASE wl' = [wl EXCEPT ![w].pc = "fail"] \/ wl' = [wl EXCEPT ![w].pc = "full"]
      <3>1. "fail" \in ThreadPlaces /\ "full" \in ThreadPlaces
        BY DEF ThreadPlaces
      <3>2. [wl EXCEPT ![w].pc = "fail"] \in [Worker -> ThreadType]
        BY <3>1, PlaceTypes
      <3>3. [wl EXCEPT ![w].pc = "full"] \in [Worker -> ThreadType]
        BY <3>1, PlaceTypes
      <3> QED BY <2>3, <3>2, <3>3
    <2> QED BY <2>1, <2>2, <2>3, EncodeStep
  <1> QED BY <1>3, <1>4, WorkerChange DEF EncodeChunk, shared, TypeInv, hist

LEMMA StoreStep ==
  ASSUME TypeInv, NEW w \in Worker, StoreBlock(w)
  PROVE  \/ ws[w].state \in {"STOP", "EXIT"} /\ wl' = Leave(w, ws[w].state)
         \/ /\ ws[w].state \notin {"RUN", "STOP", "EXIT"}
            /\ wl' = [wl EXCEPT ![w] = [pc |-> "release", state |-> "FINISH", content |-> ws[w].in, size |-> BufSize]]
         \/ ws[w].state = "FINISH" /\ wl' = [wl EXCEPT ![w].pc = "fail"]
  <1>1. CASE wl' = [Leave(w, "FINISH") EXCEPT ![w].content = ws[w].in, ![w].size = BufSize]
    <2>1. PICK x \in ThreadType : x = wl[w]
      BY DEF TypeInv
    <2>2. Leave(w, "FINISH") = [wl EXCEPT ![w] = [x EXCEPT !.pc = "release", !.state = "FINISH"]]
      BY <2>1, LeaveType DEF States
    <2>3. PICK c \in Seq(Nat) : c = ws[w].in
      BY DEF TypeInv, WorkerType, Input
    <2>4. PICK r1 : r1 = [x EXCEPT !.pc = "release"]
      OBVIOUS
    <2>5. PICK r2 : r2 = [r1 EXCEPT !.state = "FINISH"]
      OBVIOUS
    <2>6. PICK r3 : r3 = [r2 EXCEPT !.content = c]
      OBVIOUS
    <2>7. PICK r4 : r4 = [r3 EXCEPT !.size = BufSize]
      OBVIOUS
    <2>8. r1 \in ThreadType /\ r1.pc = "release"
      BY <2>4, SetPlace DEF ThreadPlaces
    <2>9. r2 \in ThreadType /\ r2.pc = "release" /\ r2.state = "FINISH"
      BY <2>5, <2>8, SetLocal DEF States
    <2>10. r3 \in ThreadType /\ r3.pc = "release" /\ r3.state = "FINISH" /\ r3.content = c
      BY <2>6, <2>9, SetContent
    <2>11. r4 \in ThreadType /\ r4.pc = "release" /\ r4.state = "FINISH" /\ r4.content = c /\ r4.size = BufSize
      BY <2>7, <2>10, BufSizeIsNat, SetSize
    <2>12. r4 = [pc |-> "release", state |-> "FINISH", content |-> c, size |-> BufSize]
      BY <2>11 DEF ThreadType
    <2>13. PICK L \in [Worker -> ThreadType] : L = [wl EXCEPT ![w] = r2]
      BY <2>9, ThreadUpdates
    <2>14. Leave(w, "FINISH") = L
      BY <2>2, <2>4, <2>5, <2>13
    <2>15. wl' = [L EXCEPT ![w].content = c, ![w].size = BufSize]
      BY <1>1, <2>3, <2>14
    <2>16. L[w] = r2
      BY <2>13 DEF TypeInv
    <2>17. wl' = [L EXCEPT ![w] = r4]
      BY <2>6, <2>7, <2>15, <2>16
    <2>18. wl' = [wl EXCEPT ![w] = [pc |-> "release", state |-> "FINISH", content |-> c, size |-> BufSize]]
      BY <2>12, <2>13, <2>17 DEF TypeInv
    <2> QED BY <1>1, <2>3, <2>18 DEF StoreBlock, BlockKnown
  <1> QED BY <1>1 DEF StoreBlock, BlockKnown

LEMMA StoreBlockType == ASSUME TypeInv, NEW w \in Worker, StoreBlock(w) PROVE TypeInv'
  <1>1. wl' \in [Worker -> ThreadType]
    <2>1. CASE ws[w].state \in {"STOP", "EXIT"} /\ wl' = Leave(w, ws[w].state)
      BY <2>1, LeaveType DEF States
    <2>2. CASE wl' = [wl EXCEPT ![w] = [pc |-> "release", state |-> "FINISH", content |-> ws[w].in, size |-> BufSize]]
      <3>1. ws[w].in \in Seq(Nat)
        BY DEF TypeInv, WorkerType, Input
      <3> QED BY <2>2, <3>1, BufSizeIsNat, ThreadUpdates DEF ThreadType, ThreadPlaces, States
    <2>3. CASE wl' = [wl EXCEPT ![w].pc = "fail"]
      <3>1. "fail" \in ThreadPlaces
        BY DEF ThreadPlaces
      <3> QED BY <2>3, <3>1, PlaceTypes
    <2> QED BY <2>1, <2>2, <2>3, StoreStep
  <1> QED BY <1>1, WorkerChange DEF StoreBlock, shared, TypeInv, hist

LEMMA WorkerErrorType == ASSUME TypeInv, NEW w \in Worker, WorkerError(w) PROVE TypeInv'
  <1>1. wl' \in [Worker -> ThreadType]
    BY LeaveType DEF WorkerError, States
  <1> QED BY <1>1, WorkerChange DEF WorkerError, TypeInv, hist

LEMMA ReleaseType == ASSUME TypeInv, NEW w \in Worker, Release(w) PROVE TypeInv'
  <1>1. ws' \in [Worker -> WorkerType] /\ wl' \in [Worker -> ThreadType]
    <2>1. PICK r \in WorkerType : r = ws[w]
      BY DEF TypeInv
    <2>2. PICK s \in States : s = IdleUnlessExit(r.state)
      BY DEF IdleUnlessExit, States
    <2>3. PICK k : k = [r EXCEPT !.state = s]
      OBVIOUS
    <2>4. k \in WorkerType
      BY <2>3, SetState
    <2>5. ws' = [ws EXCEPT ![w] = k]
      BY <2>1, <2>2, <2>3 DEF Release, TypeInv
    <2>6. wl' = [wl EXCEPT ![w].pc = "report"]
      BY DEF Release
    <2> QED BY <2>4, <2>5, <2>6, WorkerUpdates, PlaceTypes DEF ThreadPlaces
  <1> QED BY <1>1, WorkerChange DEF Release, shared, TypeInv, hist

(* The queue with a buffer finished.                                       *)
LEMMA Finished ==
  ASSUME TypeInv, NEW w \in Worker, NEW i \in DOMAIN outq.active
  PROVE  \E b \in Buf : /\ b.finished /\ b.ret = <<wl[w].content, ws[w].filters>> /\ b.job = outq.active[i].job
                        /\ FinishedAt(i, w).active = [outq.active EXCEPT ![i] = b]
                        /\ IsQueue(FinishedAt(i, w), Buf, {BufSize})
                        /\ FinishedAt(i, w).cache = outq.cache
  <1>1. PICK a \in Seq(Buf) : a = outq.active
    BY DEF TypeInv, IsQueue
  <1>2. PICK c \in Buf : c = a[i]
    BY <1>1
  <1>3. PICK result : result = <<wl[w].content, ws[w].filters>>
    OBVIOUS
  <1>4. result \in Seq(Nat) \X Nat /\ wl[w].size \in Nat
    BY <1>3 DEF TypeInv, ThreadType, WorkerType
  <1>5. PICK p \in Nat : p = wl[w].size
    BY <1>4
  <1>6. PICK b1 : b1 = [c EXCEPT !.pos = p]
    OBVIOUS
  <1>7. PICK b2 : b2 = [b1 EXCEPT !.finished = TRUE]
    OBVIOUS
  <1>8. PICK b : b = [b2 EXCEPT !.ret = result]
    OBVIOUS
  <1>9. b \in Buf /\ b.finished /\ b.ret = result /\ b.job = c.job
    <2>1. b1 \in Buf /\ b1.job = c.job
      BY <1>6 DEF Buf
    <2>2. b2 \in Buf /\ b2.finished /\ b2.job = c.job
      BY <1>7, <2>1 DEF Buf
    <2> QED BY <1>4, <1>8, <2>2 DEF Buf
  <1>10. b = [c EXCEPT !.pos = p, !.finished = TRUE, !.ret = result]
    BY <1>8, <1>6, <1>7
  <1>11. PICK d : d = [a EXCEPT ![i] = b]
    OBVIOUS
  <1>12. d \in Seq(Buf)
    BY <1>9, <1>11, Updated
  <1>13. FinishedAt(i, w) = [outq EXCEPT !.active = d]
    <2>1. PICK q : q = outq
      OBVIOUS
    <2>2. FinishedAt(i, w) = [q EXCEPT !.active[i].pos = p, !.active[i].finished = TRUE, !.active[i].ret = result]
      BY <1>3, <1>5, <2>1 DEF FinishedAt
    <2>3. PICK a1 : a1 = [a EXCEPT ![i] = b1]
      OBVIOUS
    <2>4. PICK a2 : a2 = [a1 EXCEPT ![i] = b2]
      OBVIOUS
    <2>5. i \in DOMAIN a /\ i \in DOMAIN a1 /\ i \in DOMAIN a2 /\ a1[i] = b1 /\ a2[i] = b2
      BY <1>1, <2>3, <2>4
    <2>6. PICK q1 : q1 = [q EXCEPT !.active = a1]
      OBVIOUS
    <2>7. PICK q2 : q2 = [q1 EXCEPT !.active = a2]
      OBVIOUS
    <2>8. PICK q3 : q3 = [q2 EXCEPT !.active = d]
      OBVIOUS
    <2>9. IsQueue(q, Buf, {BufSize}) /\ q.active = a
      BY <1>1, <2>1 DEF TypeInv
    <2>10. q1.active = a1 /\ q2.active = a2
      BY <2>6, <2>7, <2>9 DEF IsQueue
    <2>11. q1 = [q EXCEPT !.active[i].pos = p]
      BY <1>2, <1>6, <2>3, <2>6, <2>9
    <2>12. q2 = [q1 EXCEPT !.active[i].finished = TRUE]
      BY <1>7, <2>4, <2>5, <2>7, <2>10
    <2>13. [a2 EXCEPT ![i] = b] = d
      BY <1>11, <2>3, <2>4, <2>5
    <2>14. q3 = [q2 EXCEPT !.active[i].ret = result]
      BY <1>8, <2>5, <2>8, <2>10, <2>13
    <2>15. FinishedAt(i, w) = q3
      BY <2>2, <2>11, <2>12, <2>14
    <2>16. q3 = [q EXCEPT !.active = d]
      BY <2>6, <2>7, <2>8, <2>9 DEF IsQueue
    <2> QED BY <2>1, <2>15, <2>16
  <1>14. PICK k : k = [outq EXCEPT !.active = d]
    OBVIOUS
  <1>15. IsQueue(k, Buf, {BufSize}) /\ k.active = d /\ k.cache = outq.cache
    BY <1>12, <1>14, SetActive DEF TypeInv
  <1> QED BY <1>1, <1>2, <1>3, <1>8, <1>9, <1>11, <1>13, <1>14, <1>15

LEMMA ReportType == ASSUME TypeInv, Unmade, NEW w \in Worker, Report(w) PROVE TypeInv'
  <1>1. ws' \in [Worker -> WorkerType]
    BY DEF Report, TypeInv, WorkerType
  <1>2. wl' \in [Worker -> ThreadType]
    <2>1. IdleThread \in ThreadType
      BY DEF IdleThread, ThreadType, ThreadPlaces, States
    <2> QED BY <2>1, ThreadUpdates DEF Report
  <1>3. IsQueue(outq', Buf, {BufSize}) /\ outq'.cache = outq.cache
    <2>1. outq' = outq \/ \E i \in DOMAIN outq.active : outq' = FinishedAt(i, w)
      BY DEF Report, FinishedIfWhole, Places
    <2>2. CASE outq' = outq
      BY <2>2 DEF TypeInv
    <2>3. CASE \E i \in DOMAIN outq.active : outq' = FinishedAt(i, w)
      <3>1. PICK i \in DOMAIN outq.active : outq' = FinishedAt(i, w)
        BY <2>3
      <3>2. IsQueue(FinishedAt(i, w), Buf, {BufSize}) /\ FinishedAt(i, w).cache = outq.cache
        BY Finished
      <3> QED BY <3>1, <3>2
    <2> QED BY <2>1, <2>2, <2>3
  <1>4. threads_free' \in Seq(1 .. threads_initialized)
    <2>1. PICK S : S = 1 .. threads_initialized
      OBVIOUS
    <2>2. w \in S
      <3>1. ~(w > threads_initialized)
        BY DEF Unmade, Report
      <3>2. PICK n \in Nat : n = threads_initialized
        BY QueueAssumption DEF TypeInv
      <3>3. PICK max \in Nat : max = Threads
        BY QueueAssumption
      <3>4. w \in 1 .. max
        BY <3>3 DEF Worker
      <3>5. w \in 1 .. n
        BY <3>1, <3>2, <3>4
      <3> QED BY <2>1, <3>2, <3>5
    <2>3. threads_free \in Seq(S) /\ <<w>> \in Seq(S)
      BY <2>1, <2>2 DEF TypeInv
    <2>4. threads_free' = <<w>> \o threads_free
      BY DEF Report, FreeAgain
    <2> QED BY <2>1, <2>3, <2>4
  <1> QED BY <1>1, <1>2, <1>3, <1>4, WorkerChange DEF Report, hist

LEMMA WorkerTypes == TypeInv /\ Unmade => \A w \in Worker : WorkerThread(w) => TypeInv'
  BY TakeCommandType, EncodeChunkType, StoreBlockType, WorkerErrorType, ReleaseType, ReportType DEF WorkerThread

LEMMA TypeStep == TypeInv /\ Unmade /\ [Next]_vars => TypeInv'
<1> SUFFICES ASSUME TypeInv, Unmade, [Next]_vars PROVE TypeInv'
  OBVIOUS
<1> USE DEF coder, shared, hist, app, Proceed, Return, AppPlaces
<1>1. CASE CopyFixed
  BY <1>1 DEF CopyFixed, TypeInv
<1>2. CASE ReadOutput
  BY <1>2, ReadOutputType
<1>3. CASE GetThread
  BY <1>3, GetThreadType
<1>4. CASE AssignThread
  BY <1>4, AssignType
<1>5. CASE FeedThread
  BY <1>5, FeedType
<1>6. CASE BlockError
  <2>1. AllTold("STOP") \in [Worker -> WorkerType]
    BY ToldType DEF States
  <2> QED BY <1>6, <2>1 DEF BlockError, TypeInv, StopAndFail
<1>7. CASE FedAll
  BY <1>7 DEF FedAll, TypeInv
<1>8. CASE Decide
  BY <1>8 DEF Decide, TypeInv
<1>9. CASE Wait
  BY <1>9 DEF Wait, TypeInv
<1>10. CASE TimeOut
  BY <1>10 DEF TimeOut, TypeInv
<1>11. CASE Restart
  BY <1>11, RestartType
<1>12. CASE Join
  BY <1>12 DEF Join, TypeInv, IsQueue, Empty
<1>13. CASE Call
  BY <1>13, CallType
<1>14. CASE UpdateFilters
  BY <1>14 DEF UpdateFilters, TypeInv, CacheAfterUpdate
<1>15. CASE Reinit
  BY <1>15, ToldType DEF Reinit, TypeInv, States
<1>16. CASE End
  BY <1>16, ToldType DEF End, TypeInv, States
<1>17. ASSUME NEW w \in Worker, WorkerThread(w) PROVE TypeInv'
  BY <1>17, WorkerTypes
<1>18. CASE UNCHANGED vars
  BY <1>18 DEF vars, TypeInv
<1> QED
  BY <1>1, <1>2, <1>3, <1>4, <1>5, <1>6, <1>7, <1>8, <1>9, <1>10, <1>11, <1>12, <1>13, <1>14, <1>15, <1>16, <1>17, <1>18
     DEF Next, AppThread
-----------------------------------------------------------------------------
(* ThreadsAccounted.                                                       *)

(* Taking the head off a list without repetitions, and putting one back.   *)
LEMMA Uncons ==
  ASSUME NEW S, NEW s \in Seq(S), s # <<>>
  PROVE  /\ ToSet(s) = {Head(s)} \cup ToSet(Tail(s))
         /\ IsInjective(s) => IsInjective(Tail(s)) /\ Head(s) \notin ToSet(Tail(s))
  <1>1. PICK n \in Nat : n + 1 = Len(s) /\ DOMAIN s = 1 .. n + 1
    <2>1. PICK m \in Nat : m = Len(s) /\ DOMAIN s = 1 .. m
      OBVIOUS
    <2>2. m # 0
      BY <2>1
    <2>3. m - 1 \in Nat /\ (m - 1) + 1 = m
      BY <2>2
    <2> QED BY <2>1, <2>3
  <1>2. PICK t \in Seq(S) : t = Tail(s)
    BY HeadTailProperties
  <1>3. DOMAIN t = 1 .. n /\ \A i \in 1 .. n : t[i] = s[i + 1]
    <2>1. Len(t) = Len(s) - 1 /\ \A i \in 1 .. Len(t) : t[i] = s[i + 1]
      BY <1>2, HeadTailProperties
    <2>2. Len(t) = n /\ DOMAIN t = 1 .. Len(t)
      BY <1>1, <2>1
    <2> QED BY <2>1, <2>2
  <1>4. Head(s) = s[1]
    OBVIOUS
  <1>5. \A i \in 1 .. n : i + 1 \in 1 .. n + 1 /\ i + 1 # 1
    OBVIOUS
  <1>6. 1 \in 1 .. n + 1 /\ \A i \in 1 .. n + 1 : i = 1 \/ (i - 1 \in 1 .. n /\ (i - 1) + 1 = i)
    OBVIOUS
  <1>7. ToSet(s) = {s[1]} \cup ToSet(t)
    <2>1. ASSUME NEW x \in ToSet(s) PROVE x \in {s[1]} \cup ToSet(t)
      <3>1. PICK i \in 1 .. n + 1 : x = s[i]
        BY <1>1 DEF ToSet
      <3>2. CASE i = 1
        BY <3>1, <3>2
      <3>3. CASE i # 1
        <4>1. i - 1 \in 1 .. n /\ (i - 1) + 1 = i
          BY <1>6, <3>3
        <4>2. x = t[i - 1]
          BY <1>3, <3>1, <4>1
        <4> QED BY <1>3, <4>1, <4>2 DEF ToSet
      <3> QED BY <3>2, <3>3
    <2>2. ASSUME NEW x \in ToSet(t) PROVE x \in ToSet(s)
      BY <1>1, <1>3, <1>5 DEF ToSet
    <2>3. s[1] \in ToSet(s)
      BY <1>1, <1>6 DEF ToSet
    <2> QED BY <2>1, <2>2, <2>3
  <1>8. IsInjective(s) => IsInjective(t) /\ s[1] \notin ToSet(t)
    <2> SUFFICES ASSUME IsInjective(s) PROVE IsInjective(t) /\ s[1] \notin ToSet(t)
      OBVIOUS
    <2>1. \A i, j \in 1 .. n + 1 : s[i] = s[j] => i = j
      BY <1>1 DEF IsInjective
    <2>2. ASSUME NEW i \in 1 .. n, NEW j \in 1 .. n, t[i] = t[j] PROVE i = j
      <3>1. i + 1 = j + 1
        BY <1>3, <1>5, <2>1, <2>2
      <3> QED BY <3>1
    <2>3. ASSUME NEW i \in 1 .. n PROVE t[i] # s[1]
      BY <1>3, <1>5, <1>6, <2>1
    <2> QED BY <1>3, <2>2, <2>3 DEF IsInjective, ToSet
  <1> QED BY <1>2, <1>4, <1>7, <1>8

LEMMA Consed ==
  ASSUME NEW S, NEW s \in Seq(S), NEW x \in S
  PROVE  /\ ToSet(<<x>> \o s) = {x} \cup ToSet(s)
         /\ IsInjective(s) /\ x \notin ToSet(s) => IsInjective(<<x>> \o s)
  <1>1. PICK n \in Nat : n = Len(s) /\ DOMAIN s = 1 .. n
    OBVIOUS
  <1>2. PICK t \in Seq(S) : t = <<x>> \o s
    <2>1. <<x>> \in Seq(S)
      OBVIOUS
    <2> QED BY <2>1, ConcatProperties
  <1>3. DOMAIN t = 1 .. n + 1 /\ t[1] = x /\ \A i \in 1 .. n + 1 : i = 1 \/ t[i] = s[i - 1]
    <2>1. <<x>> \in Seq(S) /\ Len(<<x>>) = 1 /\ <<x>>[1] = x
      OBVIOUS
    <2>2. Len(t) = 1 + n /\ \A i \in 1 .. 1 + n : t[i] = IF i <= 1 THEN <<x>>[i] ELSE s[i - 1]
      BY <1>1, <1>2, <2>1, ConcatProperties
    <2>3. DOMAIN t = 1 .. Len(t)
      OBVIOUS
    <2>4. 1 + n = n + 1 /\ 1 \in 1 .. n + 1
      <3>1. n \in Nat
        BY <1>1
      <3> QED BY <3>1
    <2>5. ASSUME NEW i \in 1 .. n + 1 PROVE i = 1 \/ t[i] = s[i - 1]
      BY <2>2, <2>4
    <2>6. t[1] = x
      BY <2>1, <2>2, <2>4
    <2> QED BY <2>2, <2>3, <2>4, <2>5, <2>6
  <1>4. \A i \in 1 .. n : i + 1 \in 1 .. n + 1 /\ i + 1 # 1 /\ (i + 1) - 1 = i
    OBVIOUS
  <1>5. 1 \in 1 .. n + 1 /\ \A i \in 1 .. n + 1 : i = 1 \/ (i - 1 \in 1 .. n /\ (i - 1) + 1 = i)
    OBVIOUS
  <1>6. ToSet(t) = {x} \cup ToSet(s)
    <2>1. ASSUME NEW y \in ToSet(t) PROVE y \in {x} \cup ToSet(s)
      <3>1. PICK i \in 1 .. n + 1 : y = t[i]
        BY <1>3 DEF ToSet
      <3> QED BY <1>1, <1>3, <1>5, <3>1 DEF ToSet
    <2>2. ASSUME NEW y \in ToSet(s) PROVE y \in ToSet(t)
      <3>1. PICK i \in 1 .. n : y = s[i]
        BY <1>1 DEF ToSet
      <3>2. t[i + 1] = y
        BY <1>3, <1>4, <3>1
      <3> QED BY <1>3, <1>4, <3>2 DEF ToSet
    <2>3. x \in ToSet(t)
      BY <1>3, <1>5 DEF ToSet
    <2> QED BY <2>1, <2>2, <2>3
  <1>7. IsInjective(s) /\ x \notin ToSet(s) => IsInjective(t)
    <2> SUFFICES ASSUME IsInjective(s), x \notin ToSet(s), NEW i \in 1 .. n + 1, NEW j \in 1 .. n + 1, t[i] = t[j]
                 PROVE  i = j
      BY <1>3 DEF IsInjective
    <2>1. \A k \in 1 .. n : s[k] # x
      BY <1>1 DEF ToSet
    <2>2. CASE i = 1 \/ j = 1
      BY <1>3, <1>5, <2>1, <2>2
    <2>3. CASE i # 1 /\ j # 1
      <3>1. i - 1 = j - 1
        BY <1>1, <1>3, <1>5, <2>3 DEF IsInjective
      <3> QED BY <3>1
    <2> QED BY <2>2, <2>3
  <1> QED BY <1>2, <1>6, <1>7

(* The threads made are workers, and only they are on the free list.       *)
LEMMA Made ==
  ASSUME TypeInv
  PROVE  /\ 1 .. threads_initialized \subseteq Worker
         /\ \A w \in Worker : w \notin 1 .. threads_initialized => w > threads_initialized
         /\ ToSet(threads_free) \subseteq 1 .. threads_initialized
  <1>1. PICK n \in Nat : n = threads_initialized
    BY QueueAssumption DEF TypeInv
  <1>2. PICK max \in Nat : max = Threads /\ n <= max
    BY <1>1, QueueAssumption DEF TypeInv
  <1>3. 1 .. n \subseteq 1 .. max /\ \A w \in 1 .. max : w \notin 1 .. n => w > n
    BY <1>2
  <1>4. PICK S : S = 1 .. n
    OBVIOUS
  <1>5. threads_free \in Seq(S)
    BY <1>1, <1>4 DEF TypeInv
  <1>6. ToSet(threads_free) \subseteq S
    BY <1>5 DEF ToSet
  <1> QED BY <1>1, <1>2, <1>3, <1>4, <1>6 DEF Worker

(* Nothing happens to the threads, and no call goes on after an error.     *)
LEMMA QuietAccount ==
  ASSUME TypeInv, Account, UNCHANGED <<ws, wl, threads_free, threads_initialized, thr, strayed>>,
         pc \notin {"join", "ended", "assign", "settle"}, pc' \notin {"join", "ended", "assign", "settle"},
         pending # "Error", pending' # "Error" \/ pc' = "app"
  PROVE  Account'
  <1>1. ws' = ws /\ wl' = wl /\ threads_free' = threads_free /\ threads_initialized' = threads_initialized /\ strayed' = strayed
    OBVIOUS
  <1>2. Alive
    BY DEF Alive
  <1>3. Unmade'
    BY <1>1 DEF Account, Unmade
  <1>4. Stops'
    BY <1>1, <1>2 DEF Account, Stops
  <1>5. FreeIsIdle' /\ ReportsDone' /\ OneFree'
    BY <1>1, <1>2 DEF Account, FreeIsIdle, ReportsDone, OneFree
  <1>6. Chosen' /\ NoneLost'
    BY <1>1, <1>2 DEF Account, Chosen, NoneLost, AtWork
  <1> QED BY <1>3, <1>4, <1>5, <1>6 DEF Account

(* All threads are told to stop.                                           *)
LEMMA StoppedAccount ==
  ASSUME TypeInv, Account, UNCHANGED <<wl, threads_free, threads_initialized, thr, strayed>>,
         pc \notin {"join", "ended", "assign", "settle"}, ws' = AllTold("STOP"),
         pc' = "settle" \/ (pc' = "app" /\ pending' = "Error")
  PROVE  Account'
  <1>1. PICK M : M = 1 .. threads_initialized
    OBVIOUS
  <1>2. /\ M \subseteq Worker /\ (\A w \in Worker : w \notin M => w > threads_initialized)
        /\ ToSet(threads_free) \subseteq M
    BY <1>1, Made
  <1>3. \A w \in Worker : w <= threads_initialized <=> w \in M
    BY <1>1, QueueAssumption DEF TypeInv, Worker
  <1>4. \A w \in Worker : ws'[w].state = IF w \in M THEN "STOP" ELSE ws[w].state
    <2>1. \A w \in Worker : ws'[w] = IF w \in M THEN [ws[w] EXCEPT !.state = "STOP"] ELSE ws[w]
      BY <1>3 DEF AllTold
    <2> QED BY <2>1 DEF TypeInv, WorkerType
  <1>5. \A w \in Worker : w \notin M => ws[w].state = "IDLE" /\ wl[w].pc = "idle"
    BY <1>2 DEF Account, Unmade
  <1>6. Unmade'
    <2>1. \A w \in Worker : w > threads_initialized => w \notin M
      BY <1>1, QueueAssumption DEF TypeInv, Worker
    <2> QED BY <1>4, <1>5, <2>1 DEF Unmade
  <1>7. Stops'
    BY <1>4, <1>5 DEF Stops
  <1>8. FreeIsIdle' /\ ReportsDone' /\ Chosen' /\ OneFree'
    BY <1>2, <1>4, <1>5 DEF Account, FreeIsIdle, ReportsDone, Chosen, OneFree, Alive
  <1>9. NoneLost'
    BY <1>1, <1>2, <1>4 DEF NoneLost
  <1> QED BY <1>6, <1>7, <1>8, <1>9 DEF Account

LEMMA ReadOutputAccount == ASSUME TypeInv, Account, ReadOutput PROVE Account'
  <1>1. pending # "Error"
    BY DEF Account, Stops, ReadOutput
  <1>2. CASE StopAndFail
    BY <1>2, StoppedAccount DEF ReadOutput, StopAndFail, Return, hist
  <1>3. CASE ~StopAndFail
    <2>1. UNCHANGED <<ws, pending>> /\ pc' \in {"read", "encode"}
      BY <1>3 DEF ReadOutput, Proceed
    <2> QED BY <1>1, <2>1, QuietAccount DEF ReadOutput, hist
  <1> QED BY <1>2, <1>3

LEMMA GetThreadAccount == ASSUME TypeInv, Account, GetThread PROVE Account'
  <1>1. pending # "Error" /\ Alive
    BY DEF Account, Stops, GetThread, Alive
  <1>2. wl' = wl /\ strayed' = strayed
    BY DEF GetThread, hist
  <1>3. CASE StopAndFail
    <2>1. UNCHANGED <<threads_free, threads_initialized, thr>>
      BY <1>3 DEF GetThread, StopAndFail, Return, Proceed
    <2> QED BY <1>2, <1>3, <2>1, StoppedAccount DEF GetThread, StopAndFail, Return
  <1>4. CASE Proceed("decide") /\ UNCHANGED <<thr, threads_free, threads_initialized, ws>>
    BY <1>1, <1>2, <1>4, QuietAccount DEF GetThread, Proceed
  <1>5. CASE /\ threads_free # <<>> /\ thr' = Head(threads_free) /\ threads_free' = Tail(threads_free)
             /\ Proceed("assign") /\ UNCHANGED <<threads_initialized, ws>>
    <2>1. PICK M : M = 1 .. threads_initialized
      OBVIOUS
    <2>2. M \subseteq Worker /\ ToSet(threads_free) \subseteq M /\ threads_free \in Seq(M)
      BY <2>1, Made DEF TypeInv
    <2>3. /\ ToSet(threads_free) = {Head(threads_free)} \cup ToSet(Tail(threads_free))
          /\ IsInjective(threads_free) => /\ IsInjective(Tail(threads_free))
                                         /\ Head(threads_free) \notin ToSet(Tail(threads_free))
      BY <1>5, <2>2, Uncons
    <2>4. IsInjective(threads_free)
      BY <1>1 DEF Account, OneFree
    <2>5. /\ thr' \in M /\ thr' \in Worker /\ thr' \in ToSet(threads_free) /\ thr' \notin ToSet(threads_free')
          /\ ToSet(threads_free) = {thr'} \cup ToSet(threads_free') /\ IsInjective(threads_free')
      BY <1>5, <2>2, <2>3, <2>4
    <2>6. thr' # None
      BY <2>1, <2>5, QueueAssumption DEF TypeInv
    <2>7. wl[thr'].pc = "idle" /\ ws[thr'].state = "IDLE"
      BY <1>1, <2>5 DEF Account, FreeIsIdle, Stops, GetThread
    <2>8. Unmade' /\ ReportsDone' /\ OneFree'
      BY <1>1, <1>2, <1>5, <2>5 DEF Account, Unmade, ReportsDone, OneFree
    <2>9. Stops'
      BY <1>1, <1>5 DEF Account, Stops, Proceed, GetThread
    <2>10. FreeIsIdle'
      BY <1>1, <1>2, <1>5, <2>5 DEF Account, FreeIsIdle
    <2>11. Chosen'
      BY <1>2, <1>5, <2>5, <2>6, <2>7 DEF Chosen
    <2>12. NoneLost'
      BY <1>1, <1>2, <1>5, <2>5 DEF Account, NoneLost, Proceed, GetThread, AtWork
    <2> QED BY <2>8, <2>9, <2>10, <2>11, <2>12 DEF Account
  <1>6. CASE /\ thr' = threads_initialized + 1 /\ threads_initialized' = threads_initialized + 1
             /\ Proceed("assign") /\ UNCHANGED <<threads_free, ws>> /\ NewThreadAllowed
    <2>1. PICK n \in Nat : n = threads_initialized
      BY QueueAssumption DEF TypeInv
    <2>2. thr' \in Worker /\ thr' # None /\ thr' = n + 1 /\ threads_initialized' = n + 1
      BY <1>6, <2>1, QueueAssumption DEF NewThreadAllowed, Worker
    <2>3. ToSet(threads_free) \subseteq 1 .. n
      BY <2>1, Made
    <2>4. thr' \notin ToSet(threads_free)
      BY <2>2, <2>3
    <2>5. wl[thr'].pc = "idle" /\ ws[thr'].state = "IDLE"
      BY <2>1, <2>2 DEF Account, Unmade
    <2>6. Worker \subseteq Nat
      BY DEF Worker
    <2>7. Unmade'
      <3>1. \A w \in Worker : w > n + 1 => w > n
        BY <2>6
      <3> QED BY <1>2, <1>6, <2>1, <2>2, <3>1 DEF Account, Unmade
    <2>8. ReportsDone' /\ OneFree' /\ FreeIsIdle'
      BY <1>1, <1>2, <1>6 DEF Account, ReportsDone, OneFree, FreeIsIdle
    <2>9. Stops'
      BY <1>1, <1>6 DEF Account, Stops, Proceed, GetThread
    <2>10. Chosen'
      BY <1>2, <1>6, <2>2, <2>4, <2>5 DEF Chosen
    <2>11. NoneLost'
      <3>1. \A w \in 1 .. n + 1 : w = thr' \/ w \in 1 .. n
        BY <2>2
      <3> QED BY <1>1, <1>2, <1>6, <2>1, <2>2, <3>1 DEF Account, NoneLost, Proceed, GetThread, AtWork
    <2> QED BY <2>7, <2>8, <2>9, <2>10, <2>11 DEF Account
  <1> QED BY <1>3, <1>4, <1>5, <1>6 DEF GetThread

(* A thread's state, and whether it was made, say what is needed of it.    *)
LEMMA FedStates ==
  ASSUME TypeInv, FeedThread
  PROVE  /\ thr \in Worker
         /\ \A w \in Worker : ws'[w].state = ws[w].state
              \/ (w = thr /\ ws[w].state # "IDLE" /\ ws'[w].state = "FINISH")
         /\ UNCHANGED <<wl, threads_free, threads_initialized, strayed, pending>>
         /\ pc = "encode" /\ pc' \in {"encode", "blockerror"}
  <1>1. PICK n \in Nat, more \in Seq(Nat), told \in States : FedBy(n, more, told)
    BY Fed
  <1>2. thr \in Worker /\ ws[thr].in \o more \in Input
    BY <1>1 DEF FedBy
  <1>3. PICK r \in WorkerType : r = ws[thr]
    BY <1>2 DEF TypeInv
  <1>4. PICK k : k = [r EXCEPT !.in = @ \o more, !.state = told]
    OBVIOUS
  <1>5. k.state = told
    <2>1. PICK u \in Input : u = r.in \o more
      BY <1>2, <1>3
    <2>2. PICK k1 : k1 = [r EXCEPT !.in = u]
      OBVIOUS
    <2>3. k1 \in WorkerType
      BY <2>2, SetIn
    <2>4. k = [k1 EXCEPT !.state = told]
      BY <1>4, <2>1, <2>2
    <2> QED BY <2>3, <2>4, SetState
  <1>6. ws' = ws \/ (ws[thr].state # "IDLE" /\ ws' = [ws EXCEPT ![thr] = k] /\ told \in {ws[thr].state, "FINISH"})
    BY <1>1, <1>3, <1>4 DEF FedBy
  <1>7. \A w \in Worker : ws'[w].state = ws[w].state
              \/ (w = thr /\ ws[w].state # "IDLE" /\ ws'[w].state = "FINISH")
    BY <1>2, <1>5, <1>6 DEF TypeInv
  <1>8. pc = "encode" /\ pc' \in {"encode", "blockerror"}
    BY <1>1 DEF FeedThread, FedBy
  <1>9. UNCHANGED <<wl, threads_free, threads_initialized, strayed, pending>>
    BY DEF FeedThread, shared
  <1>10. thr \in Worker
    BY <1>2
  <1> QED BY <1>7, <1>8, <1>9, <1>10

LEMMA FeedAccount == ASSUME TypeInv, Account, FeedThread PROVE Account'
  <1>1. pending # "Error" /\ Alive
    BY DEF Account, Stops, FeedThread, Alive
  <1>2. \A w \in Worker : ws[w].state \in {"IDLE", "RUN", "FINISH"}
    BY <1>1 DEF Account, Stops, TypeInv, WorkerType, States, FeedThread
  <1>3. UNCHANGED <<wl, threads_free, threads_initialized, strayed, pending>> /\ pc = "encode" /\ pc' \in {"encode", "blockerror"}
    BY FedStates
  <1>4. \A w \in Worker : ws'[w].state = ws[w].state
              \/ (ws[w].state \in {"RUN", "FINISH"} /\ ws'[w].state = "FINISH")
    BY <1>2, FedStates
  <1>5. 1 .. threads_initialized \subseteq Worker /\ ToSet(threads_free) \subseteq 1 .. threads_initialized
    BY Made
  <1>6. Unmade'
    BY <1>3, <1>4 DEF Account, Unmade
  <1>7. Stops'
    BY <1>1, <1>2, <1>3, <1>4 DEF Account, Stops
  <1>8. FreeIsIdle'
    BY <1>1, <1>3, <1>4, <1>5 DEF Account, FreeIsIdle
  <1>9. ReportsDone' /\ OneFree' /\ Chosen'
    BY <1>1, <1>3, <1>4 DEF Account, ReportsDone, OneFree, Chosen
  <1>10. NoneLost'
    <2> SUFFICES ASSUME NEW w \in 1 .. threads_initialized, w \notin strayed, w \notin ToSet(threads_free) PROVE AtWork(w)'
      BY <1>3 DEF NoneLost
    <2>1. w \in Worker /\ ws[w].state # "STOP"
      BY <1>2, <1>5
    <2>2. AtWork(w)
      BY <1>1, <1>3, <2>1 DEF Account, NoneLost
    <2> QED BY <1>3, <1>4, <2>1, <2>2 DEF AtWork
  <1> QED BY <1>6, <1>7, <1>8, <1>9, <1>10 DEF Account

LEMMA AssignAccount == ASSUME TypeInv, Account, AssignThread PROVE Account'
  <1>1. pending # "Error" /\ Alive
    BY DEF Account, Stops, AssignThread, Alive
  <1>2. thr \in Worker /\ thr \notin ToSet(threads_free) /\ wl[thr].pc = "idle" /\ thr \in 1 .. threads_initialized
    <2>1. PICK n \in Nat : n = threads_initialized
      BY QueueAssumption DEF TypeInv
    <2>2. thr \in 1 .. n
      BY <2>1 DEF Account, Chosen, AssignThread, TypeInv
    <2> QED BY <2>1, <2>2, Made DEF Account, Chosen, AssignThread
  <1>3. \A w \in Worker : ws'[w].state = IF w = thr THEN "RUN" ELSE ws[w].state
    <2>1. ws' = [ws EXCEPT ![thr] = Assigned(NextJob)]
      BY AssignedWorker
    <2> QED BY <1>2, <2>1 DEF Assigned, TypeInv
  <1>4. /\ UNCHANGED <<wl, threads_free, threads_initialized, strayed, pending, thr>>
        /\ pc = "assign" /\ pc' = "encode"
    BY DEF AssignThread, app, hist
  <1>5. 1 .. threads_initialized \subseteq Worker /\ ToSet(threads_free) \subseteq 1 .. threads_initialized
    BY Made
  <1>6. Unmade'
    <2>1. ~(thr > threads_initialized)
      <3>1. PICK n \in Nat : n = threads_initialized
        BY QueueAssumption DEF TypeInv
      <3>2. thr \in 1 .. n
        BY <1>2, <3>1
      <3> QED BY <3>1, <3>2
    <2> QED BY <1>2, <1>3, <1>4, <2>1 DEF Account, Unmade
  <1>7. Stops'
    BY <1>1, <1>3, <1>4 DEF Account, Stops
  <1>8. FreeIsIdle'
    BY <1>1, <1>2, <1>3, <1>4, <1>5 DEF Account, FreeIsIdle
  <1>9. ReportsDone' /\ OneFree' /\ Chosen'
    BY <1>1, <1>2, <1>3, <1>4 DEF Account, ReportsDone, OneFree, Chosen
  <1>10. NoneLost'
    <2> SUFFICES ASSUME NEW w \in 1 .. threads_initialized, w \notin strayed, w \notin ToSet(threads_free),
                        ws'[w].state # "STOP" PROVE AtWork(w)'
      BY <1>4 DEF NoneLost
    <2>1. w \in Worker
      BY <1>5
    <2>2. CASE w = thr
      BY <1>3, <2>1, <2>2 DEF AtWork
    <2>3. CASE w # thr
      <3>1. ws[w].state # "STOP"
        BY <1>3, <2>1, <2>3
      <3>2. AtWork(w)
        BY <1>1, <2>3, <3>1 DEF Account, NoneLost
      <3> QED BY <1>3, <1>4, <2>1, <2>3, <3>2 DEF AtWork
    <2> QED BY <2>2, <2>3
  <1> QED BY <1>6, <1>7, <1>8, <1>9, <1>10 DEF Account

LEMMA RestartAccount == ASSUME TypeInv, Account, Restart PROVE Account'
  <1>1. UNCHANGED <<ws, wl, threads_free, threads_initialized, strayed>> /\ pc = "settle" /\ pc' = "app" /\ pending' = "RUN"
    BY DEF Restart
  <1>2. \A w \in Worker : ws[w].state = "IDLE"
    BY DEF Restart, AllIdle
  <1>3. Unmade'
    BY <1>1 DEF Account, Unmade
  <1>4. Stops'
    BY <1>1, <1>2 DEF Stops
  <1>5. FreeIsIdle' /\ ReportsDone' /\ OneFree'
    BY <1>1 DEF Account, FreeIsIdle, ReportsDone, OneFree, Alive
  <1>6. Chosen' /\ NoneLost'
    BY <1>1 DEF Account, Chosen, NoneLost, Alive, AtWork
  <1> QED BY <1>3, <1>4, <1>5, <1>6 DEF Account

(* The application leaves: what is left to say is that threads never made  *)
(* stay idle.                                                              *)
LEMMA LeavingAccount ==
  ASSUME TypeInv, Account, pc' \in {"join", "ended"}, UNCHANGED <<wl, threads_initialized>>,
         ws' = ws \/ ws' = AllTold("EXIT")
  PROVE  Account'
  <1>1. \A w \in Worker : w > threads_initialized => ws'[w] = ws[w]
    BY QueueAssumption DEF AllTold, TypeInv, Worker
  <1>2. Unmade'
    BY <1>1 DEF Account, Unmade
  <1>3. Stops'
    BY DEF Stops, Alive
  <1>4. FreeIsIdle' /\ ReportsDone' /\ Chosen' /\ OneFree' /\ NoneLost'
    BY DEF FreeIsIdle, ReportsDone, Chosen, OneFree, NoneLost, Alive
  <1> QED BY <1>2, <1>3, <1>4 DEF Account

(* A worker that is not idle steps: to another place where it is at work,  *)
(* or to its end; what it was told to do stays, or it is idle and reports. *)
LEMMA BusyAccount ==
  ASSUME TypeInv, Account, NEW w \in Worker, wl[w].pc \notin {"idle", "report"},
         \A v \in Worker : v # w => wl'[v] = wl[v] /\ ws'[v] = ws[v],
         wl'[w].pc \in {"run", "fail", "full", "release"} \/ (wl'[w].pc = "exited" /\ ws[w].state = "EXIT")
           \/ (wl'[w].pc = "report" /\ ws'[w].state \in {"IDLE", "EXIT"}),
         ws'[w].state = ws[w].state
           \/ (ws'[w].state = IdleUnlessExit(ws[w].state) /\ wl'[w].pc = "report"),
         UNCHANGED <<threads_free, threads_initialized, thr, strayed, pending>>,
         pc' = pc \/ pc' = Signalled
  PROVE  Account'
  <1>1. 1 .. threads_initialized \subseteq Worker /\ ToSet(threads_free) \subseteq 1 .. threads_initialized
    BY Made
  <1>2. Alive' = Alive /\ (pc' = "assign" <=> pc = "assign") /\ (pc' = "settle" <=> pc = "settle")
    BY DEF Alive, Signalled
  <1>3. w \notin ToSet(threads_free) \/ ~Alive
    BY DEF Account, FreeIsIdle
  <1>4. Unmade'
    BY DEF Account, Unmade
  <1>5. Stops'
    <2>1. pending = "Error" => pc' \in {"app", "settle", "join", "ended"}
      BY DEF Account, Stops, Signalled
    <2>2. ASSUME Alive, NEW v \in Worker PROVE ws'[v].state # "EXIT"
      BY <2>2 DEF Account, Stops, IdleUnlessExit
    <2>3. ASSUME Alive, pending # "Error", pc # "settle", NEW v \in Worker PROVE ws'[v].state # "STOP"
      BY <2>3 DEF Account, Stops, IdleUnlessExit
    <2> QED BY <1>2, <2>1, <2>2, <2>3 DEF Stops
  <1>6. FreeIsIdle'
    BY <1>1, <1>2, <1>3 DEF Account, FreeIsIdle
  <1>7. ReportsDone'
    <2>1. Alive => ws[w].state # "EXIT"
      BY DEF Account, Stops
    <2>2. Alive => (wl'[w].pc = "report" => ws'[w].state = "IDLE")
      BY <2>1 DEF IdleUnlessExit
    <2> QED BY <1>2, <2>2 DEF Account, ReportsDone
  <1>8. Chosen'
    <2> SUFFICES ASSUME pc = "assign" PROVE /\ thr # None /\ thr \notin ToSet(threads_free)
                                          /\ wl'[thr].pc = "idle" /\ ws'[thr].state = "IDLE"
      BY <1>2 DEF Chosen
    <2>1. thr # None /\ thr \notin ToSet(threads_free) /\ wl[thr].pc = "idle" /\ ws[thr].state = "IDLE"
      BY DEF Account, Chosen
    <2>2. thr \in 1 .. threads_initialized
      BY <2>1, QueueAssumption DEF TypeInv
    <2> QED BY <1>1, <2>1, <2>2
  <1>9. OneFree'
    BY <1>2 DEF Account, OneFree
  <1>10. NoneLost'
    <2> SUFFICES ASSUME Alive, NEW v \in 1 .. threads_initialized, ws'[v].state # "STOP", v \notin strayed,
                        v \notin ToSet(threads_free), ~(pc = "assign" /\ thr = v)
                 PROVE  AtWork(v)'
      BY <1>2 DEF NoneLost
    <2>1. v \in Worker
      BY <1>1
    <2>2. CASE v = w
      BY <2>2 DEF AtWork
    <2>3. CASE v # w
      BY <2>1, <2>3 DEF Account, NoneLost, AtWork
    <2> QED BY <2>2, <2>3
  <1> QED BY <1>4, <1>5, <1>6, <1>7, <1>8, <1>9, <1>10 DEF Account

LEMMA TakeCommandAccount == ASSUME TypeInv, Account, NEW w \in Worker, TakeCommand(w) PROVE Account'
  <1>1. 1 .. threads_initialized \subseteq Worker /\ ToSet(threads_free) \subseteq 1 .. threads_initialized
    BY Made
  <1>2. UNCHANGED <<pc, pending, thr, threads_free, threads_initialized>> /\ wl[w].pc = "idle"
    BY DEF TakeCommand, app, coder, shared
  <1>3. PICK r \in WorkerType, x \in ThreadType : r = ws[w] /\ x = wl[w]
    BY DEF TypeInv
  <1>4. CASE ws[w].state = "STOP"
    <2>1. ws' = [ws EXCEPT ![w].state = "IDLE"] /\ wl' = wl
      BY <1>4 DEF TakeCommand
    <2>2. PICK k : k = [r EXCEPT !.state = "IDLE"]
      OBVIOUS
    <2>3. k.state = "IDLE"
      BY <2>2, SetState DEF States
    <2>4. ws' = [ws EXCEPT ![w] = k]
      BY <1>3, <2>1, <2>2 DEF TypeInv
    <2>5. \A v \in Worker : ws'[v].state = IF v = w THEN "IDLE" ELSE ws[v].state
      BY <2>3, <2>4 DEF TypeInv
    <2>6. strayed \subseteq strayed' /\ w \in ToSet(threads_free) \cup strayed'
      BY <1>4 DEF TakeCommand
    <2>7. Unmade' /\ Stops'
      BY <1>2, <2>1, <2>5 DEF Account, Unmade, Stops, Alive
    <2>8. FreeIsIdle' /\ ReportsDone' /\ OneFree'
      BY <1>1, <1>2, <2>1, <2>5 DEF Account, FreeIsIdle, ReportsDone, OneFree, Alive
    <2>9. Chosen'
      <3> SUFFICES ASSUME pc = "assign" PROVE /\ thr # None /\ thr \notin ToSet(threads_free)
                                            /\ wl[thr].pc = "idle" /\ ws'[thr].state = "IDLE"
        BY <1>2, <2>1 DEF Chosen
      <3>1. thr # None /\ thr \notin ToSet(threads_free) /\ wl[thr].pc = "idle" /\ ws[thr].state = "IDLE"
        BY DEF Account, Chosen
      <3>2. thr \in 1 .. threads_initialized
        BY <3>1, QueueAssumption DEF TypeInv
      <3> QED BY <1>1, <2>5, <3>1, <3>2
    <2>10. NoneLost'
      <3> SUFFICES ASSUME Alive, NEW v \in 1 .. threads_initialized, ws'[v].state # "STOP", v \notin strayed',
                          v \notin ToSet(threads_free), ~(pc = "assign" /\ thr = v)
                   PROVE  AtWork(v)'
        BY <1>2 DEF NoneLost, Alive
      <3>1. v \in Worker /\ v # w /\ v \notin strayed
        BY <1>1, <2>6
      <3>2. AtWork(v)
        BY <2>5, <3>1 DEF Account, NoneLost
      <3> QED BY <2>1, <2>5, <3>1, <3>2 DEF AtWork
    <2> QED BY <2>7, <2>8, <2>9, <2>10 DEF Account
  <1>5. CASE ws[w].state # "STOP"
    <2>1. ws' = ws /\ strayed' = strayed
      BY <1>5 DEF TakeCommand
    <2>2. \A v \in Worker : v # w => wl'[v] = wl[v]
      BY <1>5 DEF TakeCommand, TypeInv
    <2>3. \/ ws[w].state = "EXIT"
          \/ ws[w].state \in {"RUN", "FINISH"} /\ wl'[w].pc = "run"
      <3>1. CASE ws[w].state \in {"RUN", "FINISH"} /\ wl' = [wl EXCEPT ![w] = [IdleThread EXCEPT !.pc = "run", !.state = ws[w].state]]
        BY <3>1 DEF IdleThread, TypeInv
      <3> QED BY <1>5, <3>1 DEF TakeCommand
    <2>4. CASE ws[w].state = "EXIT"
      <3>1. ~Alive
        BY <2>4 DEF Account, Stops
      <3>2. w \in 1 .. threads_initialized
        BY <2>4, Made DEF Account, Unmade
      <3>3. Unmade'
        <4>1. ~(w > threads_initialized)
          BY <2>4 DEF Account, Unmade
        <4> QED BY <1>2, <2>1, <2>2, <4>1 DEF Account, Unmade
      <3>4. Stops'
        BY <1>2, <3>1 DEF Account, Stops, Alive
      <3>5. FreeIsIdle' /\ ReportsDone' /\ Chosen' /\ OneFree' /\ NoneLost'
        BY <1>2, <3>1 DEF FreeIsIdle, ReportsDone, Chosen, OneFree, NoneLost, Alive
      <3> QED BY <3>3, <3>4, <3>5 DEF Account
    <2>5. CASE ws[w].state \in {"RUN", "FINISH"} /\ wl'[w].pc = "run"
      <3>1. w \notin ToSet(threads_free) \/ ~Alive
        BY <2>5 DEF Account, FreeIsIdle
      <3>2. ~(w > threads_initialized)
        BY <2>5 DEF Account, Unmade
      <3>3. Unmade'
        BY <1>2, <2>1, <2>2, <3>2 DEF Account, Unmade
      <3>4. Stops'
        BY <1>2, <2>1 DEF Account, Stops, Alive
      <3>5. FreeIsIdle' /\ ReportsDone' /\ OneFree'
        BY <1>1, <1>2, <2>1, <2>2, <2>5, <3>1 DEF Account, FreeIsIdle, ReportsDone, OneFree, Alive
      <3>6. Chosen'
        <4> SUFFICES ASSUME pc = "assign" PROVE /\ thr # None /\ thr \notin ToSet(threads_free)
                                              /\ wl'[thr].pc = "idle" /\ ws[thr].state = "IDLE"
          BY <1>2, <2>1 DEF Chosen
        <4>1. thr # None /\ thr \notin ToSet(threads_free) /\ wl[thr].pc = "idle" /\ ws[thr].state = "IDLE"
          BY DEF Account, Chosen
        <4>2. thr \in 1 .. threads_initialized
          BY <4>1, QueueAssumption DEF TypeInv
        <4> QED BY <1>1, <2>2, <2>5, <4>1, <4>2
      <3>7. NoneLost'
        <4> SUFFICES ASSUME Alive, NEW v \in 1 .. threads_initialized, ws[v].state # "STOP", v \notin strayed,
                            v \notin ToSet(threads_free), ~(pc = "assign" /\ thr = v)
                     PROVE  AtWork(v)'
          BY <1>2, <2>1 DEF NoneLost, Alive
        <4>1. v \in Worker /\ AtWork(v)
          BY <1>1 DEF Account, NoneLost
        <4> QED BY <2>1, <2>2, <2>5, <4>1 DEF AtWork
      <3> QED BY <3>3, <3>4, <3>5, <3>6, <3>7 DEF Account
    <2> QED BY <2>3, <2>4, <2>5
  <1> QED BY <1>4, <1>5

LEMMA LeftPlace ==
  ASSUME TypeInv, NEW w \in Worker, NEW state \in States, wl' = Leave(w, state)
  PROVE  /\ \A v \in Worker : v # w => wl'[v] = wl[v]
         /\ wl'[w].pc = (IF state = "EXIT" THEN "exited" ELSE "release") /\ wl'[w].content = wl[w].content
         /\ wl'[w].state = state
  <1>1. PICK x \in ThreadType : x = wl[w]
    BY DEF TypeInv
  <1>2. PICK place \in ThreadPlaces : place = IF state = "EXIT" THEN "exited" ELSE "release"
    BY DEF ThreadPlaces
  <1>3. PICK y : y = [x EXCEPT !.pc = place]
    OBVIOUS
  <1>4. y \in ThreadType /\ y.pc = place /\ y.content = x.content
    BY <1>3, SetPlace
  <1>5. PICK z : z = [y EXCEPT !.state = state]
    OBVIOUS
  <1>6. z.pc = place /\ z.content = x.content /\ z.state = state
    BY <1>4, <1>5, SetLocal
  <1>7. wl' = [wl EXCEPT ![w] = z]
    BY <1>1, <1>2, <1>3, <1>5, LeaveType
  <1> QED BY <1>1, <1>2, <1>6, <1>7 DEF TypeInv

LEMMA MovedPlace ==
  ASSUME TypeInv, NEW w \in Worker, NEW place \in ThreadPlaces, wl' = [wl EXCEPT ![w].pc = place]
  PROVE  /\ \A v \in Worker : v # w => wl'[v] = wl[v]
         /\ wl'[w].pc = place /\ wl'[w].content = wl[w].content /\ wl'[w].state = wl[w].state
  <1>1. PICK x \in ThreadType : x = wl[w]
    BY DEF TypeInv
  <1>2. PICK y : y = [x EXCEPT !.pc = place]
    OBVIOUS
  <1>3. y.pc = place /\ y.content = x.content /\ y.state = x.state
    BY <1>2, SetPlace
  <1>4. wl' = [wl EXCEPT ![w] = y]
    BY <1>1, <1>2 DEF TypeInv
  <1> QED BY <1>1, <1>3, <1>4 DEF TypeInv

LEMMA EncodeChunkAccount == ASSUME TypeInv, Account, NEW w \in Worker, EncodeChunk(w) PROVE Account'
  <1>1. UNCHANGED <<pc, pending, thr, threads_free, threads_initialized, strayed>> /\ wl[w].pc = "run"
    BY DEF EncodeChunk, app, coder, shared, hist
  <1>2. ws'[w].state = ws[w].state /\ \A v \in Worker : v # w => ws'[v] = ws[v]
    <2>1. PICK r \in WorkerType : r = ws[w]
      BY DEF TypeInv
    <2>2. PICK done \in Nat : done = Len(wl[w].content)
      <3>1. wl[w].content \in Seq(Nat)
        BY DEF TypeInv, ThreadType
      <3> QED BY <3>1
    <2>3. PICK k : k = [r EXCEPT !.progress_in = done]
      OBVIOUS
    <2>4. k.state = r.state
      BY <2>3, SetProgress
    <2>5. ws' = [ws EXCEPT ![w].progress_in = done]
      BY <2>2, EncodeStep
    <2>6. ws' = [ws EXCEPT ![w] = k]
      BY <2>1, <2>3, <2>5 DEF TypeInv
    <2> QED BY <2>1, <2>4, <2>6 DEF TypeInv
  <1>3. /\ \A v \in Worker : v # w => wl'[v] = wl[v]
        /\ wl'[w].pc \in {"run", "fail", "full", "release"} \/ (wl'[w].pc = "exited" /\ ws[w].state = "EXIT")
    <2>1. CASE ws[w].state \in {"STOP", "EXIT"} /\ wl' = Leave(w, ws[w].state)
      BY <2>1, LeftPlace DEF States
    <2>2. CASE \E place \in {"release", "run"}, state \in {"FINISH", "RUN"}, size \in Nat :
                 wl' = [wl EXCEPT ![w] = Chunked(w, place, state, size)]
      BY <2>2 DEF Chunked, TypeInv
    <2>3. CASE wl' = [wl EXCEPT ![w].pc = "fail"]
      <3>1. "fail" \in ThreadPlaces
        BY DEF ThreadPlaces
      <3> QED BY <2>3, <3>1, MovedPlace
    <2>4. CASE wl' = [wl EXCEPT ![w].pc = "full"]
      <3>1. "full" \in ThreadPlaces
        BY DEF ThreadPlaces
      <3> QED BY <2>4, <3>1, MovedPlace
    <2> QED BY <2>1, <2>2, <2>3, <2>4, EncodeStep
  <1> QED BY <1>1, <1>2, <1>3, BusyAccount

LEMMA StoreBlockAccount == ASSUME TypeInv, Account, NEW w \in Worker, StoreBlock(w) PROVE Account'
  <1>1. UNCHANGED <<pc, pending, thr, threads_free, threads_initialized, strayed, ws>> /\ wl[w].pc = "full"
    BY DEF StoreBlock, app, coder, shared, hist
  <1>2. /\ \A v \in Worker : v # w => wl'[v] = wl[v]
        /\ wl'[w].pc \in {"fail", "release"} \/ (wl'[w].pc = "exited" /\ ws[w].state = "EXIT")
    <2>1. CASE ws[w].state \in {"STOP", "EXIT"} /\ wl' = Leave(w, ws[w].state)
      BY <2>1, LeftPlace DEF States
    <2>2. CASE wl' = [wl EXCEPT ![w] = [pc |-> "release", state |-> "FINISH", content |-> ws[w].in, size |-> BufSize]]
      BY <2>2 DEF TypeInv
    <2>3. CASE wl' = [wl EXCEPT ![w].pc = "fail"]
      <3>1. "fail" \in ThreadPlaces
        BY DEF ThreadPlaces
      <3> QED BY <2>3, <3>1, MovedPlace
    <2> QED BY <2>1, <2>2, <2>3, StoreStep
  <1> QED BY <1>1, <1>2, BusyAccount

LEMMA WorkerErrorAccount == ASSUME TypeInv, Account, NEW w \in Worker, WorkerError(w) PROVE Account'
  <1>1. /\ UNCHANGED <<pending, thr, threads_free, threads_initialized, strayed, ws>>
        /\ wl[w].pc = "fail" /\ pc' = Signalled
    BY DEF WorkerError, app, coder, hist
  <1>2. (\A v \in Worker : v # w => wl'[v] = wl[v]) /\ wl'[w].pc = "release"
    BY LeftPlace DEF WorkerError, States
  <1> QED BY <1>1, <1>2, BusyAccount

LEMMA ReleaseAccount == ASSUME TypeInv, Account, NEW w \in Worker, Release(w) PROVE Account'
  <1>1. UNCHANGED <<pc, pending, thr, threads_free, threads_initialized, strayed>> /\ wl[w].pc = "release"
    BY DEF Release, app, coder, shared, hist
  <1>2. (\A v \in Worker : v # w => wl'[v] = wl[v]) /\ wl'[w].pc = "report"
    BY MovedPlace DEF Release, ThreadPlaces
  <1>3. /\ ws'[w].state = IdleUnlessExit(ws[w].state) /\ ws'[w].state \in {"IDLE", "EXIT"}
        /\ \A v \in Worker : v # w => ws'[v] = ws[v]
    <2>1. PICK r \in WorkerType : r = ws[w]
      BY DEF TypeInv
    <2>2. PICK s \in {"IDLE", "EXIT"} : s = IdleUnlessExit(r.state)
      BY DEF IdleUnlessExit
    <2>3. PICK k : k = [r EXCEPT !.state = s]
      OBVIOUS
    <2>4. k.state = s
      BY <2>3, SetState DEF States
    <2>5. ws' = [ws EXCEPT ![w] = k]
      BY <2>1, <2>2, <2>3 DEF Release, TypeInv
    <2> QED BY <2>1, <2>2, <2>4, <2>5 DEF TypeInv
  <1> QED BY <1>1, <1>2, <1>3, BusyAccount

(* A thread that reports goes back to the free list, where it is not.      *)
LEMMA ReportAccount == ASSUME TypeInv, Account, NEW w \in Worker, Report(w) PROVE Account'
  <1>1. /\ UNCHANGED <<pending, thr, threads_initialized, strayed>> /\ wl[w].pc = "report" /\ pc' = Signalled
        /\ threads_free' = <<w>> \o threads_free
    BY DEF Report, app, coder, hist, FreeAgain
  <1>2. Alive' = Alive /\ (pc' = "assign" <=> pc = "assign") /\ (pc' = "settle" <=> pc = "settle")
    BY <1>1 DEF Alive, Signalled
  <1>3. \A v \in Worker : ws'[v].state = ws[v].state
    <2>1. PICK r \in WorkerType : r = ws[w]
      BY DEF TypeInv
    <2>2. PICK z \in Nat : z = 0
      OBVIOUS
    <2>3. PICK k : k = [r EXCEPT !.progress_in = z]
      OBVIOUS
    <2>4. k.state = r.state
      BY <2>3, SetProgress
    <2>5. ws' = [ws EXCEPT ![w] = k]
      BY <2>1, <2>2, <2>3 DEF Report, TypeInv
    <2> QED BY <2>1, <2>4, <2>5 DEF TypeInv
  <1>4. \A v \in Worker : wl'[v].pc = IF v = w THEN "idle" ELSE wl[v].pc
    BY DEF Report, IdleThread, TypeInv
  <1>5. /\ 1 .. threads_initialized \subseteq Worker /\ ToSet(threads_free) \subseteq 1 .. threads_initialized
        /\ w \in 1 .. threads_initialized
    BY <1>1, Made DEF Account, Unmade
  <1>6. PICK M : M = 1 .. threads_initialized
    OBVIOUS
  <1>7. threads_free \in Seq(M) /\ w \in M
    BY <1>5, <1>6 DEF TypeInv
  <1>8. w \notin ToSet(threads_free) \/ ~Alive
    BY <1>1 DEF Account, FreeIsIdle
  <1>9. /\ ToSet(threads_free') = {w} \cup ToSet(threads_free)
        /\ IsInjective(threads_free) /\ w \notin ToSet(threads_free) => IsInjective(threads_free')
    BY <1>1, <1>7, Consed
  <1>10. Unmade'
    BY <1>1, <1>3, <1>4 DEF Account, Unmade
  <1>11. Stops'
    <2>1. pending = "Error" => pc' \in {"app", "settle", "join", "ended"}
      BY <1>1 DEF Account, Stops, Signalled
    <2> QED BY <1>1, <1>2, <1>3, <2>1 DEF Account, Stops
  <1>12. FreeIsIdle'
    <2>1. Alive => ws[w].state \in {"IDLE", "STOP"}
      BY <1>1 DEF Account, ReportsDone
    <2> QED BY <1>2, <1>3, <1>4, <1>5, <1>9, <2>1 DEF Account, FreeIsIdle
  <1>13. ReportsDone'
    BY <1>2, <1>3, <1>4 DEF Account, ReportsDone
  <1>14. Chosen'
    <2> SUFFICES ASSUME pc = "assign" PROVE /\ thr # None /\ thr \notin ToSet(threads_free')
                                          /\ wl'[thr].pc = "idle" /\ ws'[thr].state = "IDLE"
      BY <1>1, <1>2 DEF Chosen
    <2>1. thr # None /\ thr \notin ToSet(threads_free) /\ wl[thr].pc = "idle" /\ ws[thr].state = "IDLE"
      BY DEF Account, Chosen
    <2>2. thr \in 1 .. threads_initialized
      BY <2>1, QueueAssumption DEF TypeInv
    <2> QED BY <1>1, <1>3, <1>4, <1>5, <1>9, <2>1, <2>2
  <1>15. OneFree'
    BY <1>2, <1>8, <1>9 DEF Account, OneFree
  <1>16. NoneLost'
    <2> SUFFICES ASSUME Alive, NEW v \in 1 .. threads_initialized, ws'[v].state # "STOP", v \notin strayed,
                        v \notin ToSet(threads_free'), ~(pc = "assign" /\ thr = v)
                 PROVE  AtWork(v)'
      BY <1>1, <1>2 DEF NoneLost
    <2>1. v \in Worker /\ v # w /\ v \notin ToSet(threads_free)
      BY <1>5, <1>9
    <2>2. AtWork(v)
      BY <1>3, <2>1 DEF Account, NoneLost
    <2> QED BY <1>3, <1>4, <2>1, <2>2 DEF AtWork
  <1> QED BY <1>10, <1>11, <1>12, <1>13, <1>14, <1>15, <1>16 DEF Account

LEMMA AccountInit == Init => Account
  <1> SUFFICES ASSUME Init PROVE Account
    OBVIOUS
  <1>1. \A w \in Worker : ws[w].state = "IDLE" /\ wl[w].pc = "idle"
    BY DEF Init, IdleWorker, IdleThread
  <1>2. threads_initialized = 0 /\ threads_free = <<>> /\ pc = "app" /\ pending = "RUN"
    BY DEF Init
  <1>3. ToSet(threads_free) = {} /\ IsInjective(threads_free) /\ 1 .. threads_initialized = {}
    BY <1>2 DEF ToSet, IsInjective
  <1> QED BY <1>1, <1>2, <1>3 DEF Account, Unmade, Stops, FreeIsIdle, ReportsDone, Chosen, OneFree, NoneLost

LEMMA AccountStep == TypeInv /\ Account /\ [Next]_vars => Account'
<1> SUFFICES ASSUME TypeInv, Account, [Next]_vars PROVE Account'
  OBVIOUS
<1>1. pending = "Error" => pc \in {"app", "settle", "join", "ended"}
  BY DEF Account, Stops
<1> USE DEF coder, shared, hist, app
<1>2. CASE CopyFixed
  <2>1. pc' \in {"app", "read", "copy"} /\ pending' # "Error"
    BY <1>1, <1>2 DEF CopyFixed, Return, Proceed
  <2> QED BY <1>1, <1>2, <2>1, QuietAccount DEF CopyFixed
<1>3. CASE ReadOutput
  BY <1>3, ReadOutputAccount
<1>4. CASE GetThread
  BY <1>4, GetThreadAccount
<1>5. CASE AssignThread
  BY <1>5, AssignAccount
<1>6. CASE FeedThread
  BY <1>6, FeedAccount
<1>7. CASE BlockError
  <2>1. CASE thread_error = "OK"
    BY <1>1, <1>7, <2>1, QuietAccount DEF BlockError, Proceed
  <2>2. CASE thread_error # "OK"
    BY <1>7, <2>2, StoppedAccount DEF BlockError, StopAndFail, Return
  <2> QED BY <2>1, <2>2
<1>8. CASE FedAll
  BY <1>1, <1>8, QuietAccount DEF FedAll
<1>9. CASE Decide
  <2>1. pc' \in {"app", "wait", "copy"} /\ (pending' # "Error" \/ pc' = "app")
    BY <1>1, <1>9 DEF Decide, Return, Proceed
  <2> QED BY <1>1, <1>9, <2>1, QuietAccount DEF Decide
<1>10. CASE Wait
  BY <1>1, <1>10, QuietAccount DEF Wait
<1>11. CASE TimeOut
  BY <1>1, <1>11, QuietAccount DEF TimeOut, Return
<1>12. CASE Restart
  BY <1>12, RestartAccount
<1>13. CASE Join
  BY <1>13, LeavingAccount DEF Join
<1>14. CASE Call
  <2>1. pending' # "Error" /\ pc' \in {"read", "copy"}
    BY <1>14, StreamEncoderAssumption DEF Call, TypeInv, Flushes
  <2> QED BY <1>14, <2>1, QuietAccount DEF Call
<1>15. CASE UpdateFilters
  BY <1>15, QuietAccount DEF UpdateFilters
<1>16. CASE Reinit
  BY <1>16, StoppedAccount DEF Reinit
<1>17. CASE End
  BY <1>17, LeavingAccount DEF End
<1>18. ASSUME NEW w \in Worker, WorkerThread(w) PROVE Account'
  BY <1>18, TakeCommandAccount, EncodeChunkAccount, StoreBlockAccount, WorkerErrorAccount, ReleaseAccount, ReportAccount
     DEF WorkerThread
<1>19. CASE UNCHANGED vars
  BY <1>19 DEF vars, Account, Unmade, Stops, FreeIsIdle, ReportsDone, Chosen, OneFree, NoneLost, Alive, AtWork
<1> QED
  BY <1>2, <1>3, <1>4, <1>5, <1>6, <1>7, <1>8, <1>9, <1>10, <1>11, <1>12, <1>13, <1>14, <1>15, <1>16, <1>17, <1>18, <1>19
     DEF Next, AppThread

(* Every variable keeps its type, and the account of the threads holds, in *)
(* every reachable state of the C encoder.                                 *)
THEOREM EncoderAccount == Spec => [](TypeInv /\ Account)
  <1>1. Init => TypeInv /\ Account
    BY InitType, AccountInit
  <1>2. TypeInv /\ Account /\ [Next]_vars => (TypeInv /\ Account)'
    BY TypeStep, AccountStep DEF Account
  <1> QED BY <1>1, <1>2, PTL DEF Spec

(* No thread of the C encoder is lost or offered twice, whatever number of *)
(* threads there is (get_thread, worker_start, threads_stop).              *)
THEOREM EncoderThreadsAccounted == Spec => []ThreadsAccounted
  <1>1. TypeInv /\ Account => ThreadsAccounted
    <2> SUFFICES ASSUME TypeInv, Account, pc \notin {"join", "ended", "assign"}
                 PROVE  /\ IsInjective(threads_free)
                        /\ \A w \in 1 .. threads_initialized :
                             (ws[w].state # "STOP" /\ w \notin strayed) => (w \in ToSet(threads_free)) = ~AtWork(w)
      BY DEF ThreadsAccounted
    <2>1. IsInjective(threads_free)
      BY DEF Account, OneFree, Alive
    <2>2. ASSUME NEW w \in 1 .. threads_initialized, ws[w].state # "STOP", w \notin strayed
          PROVE  (w \in ToSet(threads_free)) = ~AtWork(w)
      <3>1. w \notin ToSet(threads_free) => AtWork(w)
        BY <2>2 DEF Account, NoneLost, Alive
      <3>2. w \in ToSet(threads_free) => ~AtWork(w)
        BY <2>2 DEF Account, FreeIsIdle, Alive, AtWork
      <3>3. AtWork(w) \in BOOLEAN
        BY DEF AtWork
      <3> QED BY <3>1, <3>2, <3>3
    <2> QED BY <2>1, <2>2
  <1> QED BY <1>1, EncoderAccount, PTL

-----------------------------------------------------------------------------
(* FiltersPerBlock.                                                        *)

LEMMA FitsGrown ==
  ASSUME NEW c \in Seq(Nat), NEW more \in Seq(Nat), NEW units, NEW chain, Fits(c, units, chain)
  PROVE  Fits(c \o more, units, chain)
  <1>1. PICK n \in Nat, m \in Nat : n = Len(c) /\ m = Len(more)
    OBVIOUS
  <1>2. Len(c \o more) = n + m /\ \A i \in 1 .. n + m : (c \o more)[i] = IF i <= n THEN c[i] ELSE more[i - n]
    BY <1>1, ConcatProperties
  <1>3. \A i \in 1 .. n : i \in 1 .. n + m /\ i <= n
    OBVIOUS
  <1> QED BY <1>1, <1>2, <1>3 DEF Fits

LEMMA FitsBoth ==
  ASSUME NEW c, NEW u \in Seq(Nat), NEW v \in Seq(Nat), NEW chain, Fits(c, u, chain), Fits(c, v, chain)
  PROVE  Fits(c, u \o v, chain)
  <1>1. PICK n \in Nat, m \in Nat : n = Len(u) /\ m = Len(v) /\ DOMAIN u = 1 .. n /\ DOMAIN v = 1 .. m
    OBVIOUS
  <1>2. PICK s \in Seq(Nat) : s = u \o v
    BY ConcatProperties
  <1>3. DOMAIN s = 1 .. n + m /\ \A i \in 1 .. n + m : s[i] = IF i <= n THEN u[i] ELSE v[i - n]
    <2>1. Len(s) = n + m
      BY <1>1, <1>2, ConcatProperties
    <2>2. DOMAIN s = 1 .. Len(s)
      OBVIOUS
    <2> QED BY <1>1, <1>2, <2>1, <2>2, ConcatProperties
  <1>4. \A i \in 1 .. n + m : (i <= n /\ i \in 1 .. n) \/ (~(i <= n) /\ i - n \in 1 .. m)
    OBVIOUS
  <1>5. ASSUME NEW i \in DOMAIN s PROVE s[i] \in 1 .. Len(c) /\ c[s[i]] = chain
    <2>1. CASE i <= n /\ i \in 1 .. n
      <3>1. s[i] = u[i] /\ i \in DOMAIN u
        BY <1>1, <1>3, <2>1
      <3> QED BY <3>1 DEF Fits
    <2>2. CASE ~(i <= n) /\ i - n \in 1 .. m
      <3>1. s[i] = v[i - n] /\ i - n \in DOMAIN v
        BY <1>1, <1>3, <2>2
      <3> QED BY <3>1 DEF Fits
    <2> QED BY <1>3, <1>4, <2>1, <2>2
  <1> QED BY <1>2, <1>5 DEF Fits

LEMMA FitsNone == ASSUME NEW c, NEW chain PROVE Fits(c, <<>>, chain)
  BY DEF Fits

(* Told to stop or to leave, or not told anything: the jobs stay.          *)
LEMMA KeptJobs ==
  ASSUME TypeInv, FilterInv, Settled' => Settled /\ inits' = inits, UNCHANGED <<wl, chain_of, accepted>>,
         ws' = ws \/ \E x \in {"STOP", "EXIT"} : ws' = AllTold(x)
  PROVE  /\ Recorded' /\ IdleIsDone' /\ JobsFit'
         /\ \A w \in Worker : ws'[w].filters = ws[w].filters
  <1>1. \A w \in Worker : /\ ws'[w].in = ws[w].in /\ ws'[w].filters = ws[w].filters /\ ws'[w].outbuf = ws[w].outbuf
                          /\ ws'[w].state \in {ws[w].state, "STOP", "EXIT"}
    <2>1. ASSUME NEW w \in Worker, NEW x \in {"STOP", "EXIT"}, ws' = AllTold(x)
          PROVE  /\ ws'[w].in = ws[w].in /\ ws'[w].filters = ws[w].filters /\ ws'[w].outbuf = ws[w].outbuf
                 /\ ws'[w].state \in {ws[w].state, "STOP", "EXIT"}
      <3>1. PICK r \in WorkerType : r = ws[w]
        BY DEF TypeInv
      <3>2. PICK k : k = [r EXCEPT !.state = x]
        OBVIOUS
      <3>3. k.in = r.in /\ k.filters = r.filters /\ k.outbuf = r.outbuf /\ k.state = x
        BY <3>2, SetState DEF States
      <3>4. ws'[w] = k \/ ws'[w] = ws[w]
        BY <2>1, <3>1, <3>2 DEF AllTold
      <3> QED BY <3>1, <3>3, <3>4
    <2> QED BY <2>1
  <1>2. IdleIsDone'
    BY <1>1 DEF FilterInv, IdleIsDone
  <1>3. JobsFit'
    <2> SUFFICES ASSUME Settled', NEW w \in Worker, AtWork(w)' PROVE JobFits(w)'
      BY DEF JobsFit
    <2>1. AtWork(w)
      BY <1>1 DEF AtWork
    <2>2. JobFits(w)
      BY <2>1 DEF FilterInv, JobsFit
    <2> QED BY <1>1, <2>2 DEF JobFits
  <1> QED BY <1>1, <1>2, <1>3 DEF FilterInv, Recorded

(* The queue, the Index and the filters stay too.                          *)
LEMMA KeptFilters ==
  ASSUME TypeInv, FilterInv, Settled' => Settled /\ inits' = inits, UNCHANGED <<wl, chain_of, accepted>>,
         ws' = ws \/ \E x \in {"STOP", "EXIT"} : ws' = AllTold(x),
         outq'.active = outq.active \/ outq'.active = <<>>, UNCHANGED <<index, thr, filters, unsettled>>,
         pc # "assign", pc' # "assign"
  PROVE  FilterInv'
  <1>1. Recorded' /\ IdleIsDone' /\ JobsFit' /\ \A w \in Worker : ws'[w].filters = ws[w].filters
    BY KeptJobs
  <1>2. BufsFit' /\ IndexFits'
    BY DEF FilterInv, BufsFit, IndexFits, BlockFits
  <1>3. CacheFits'
    <2>1. thr # None => thr \in Worker
      BY ThrIsMade
    <2> QED BY <1>1, <2>1 DEF FilterInv, CacheFits
  <1> QED BY <1>1, <1>2, <1>3 DEF FilterInv

LEMMA ReadOutputFilters == ASSUME TypeInv, FilterInv, ReadOutput PROVE FilterInv'
  <1>1. /\ UNCHANGED <<wl, inits, chain_of, accepted, thr, filters, unsettled>>
        /\ pc = "read" /\ pc' \in {"app", "read", "encode"}
        /\ ws' = ws \/ ws' = AllTold("STOP")
    BY DEF ReadOutput, hist, StopAndFail, Return, Proceed
  <1>2. Settled' = Settled
    BY <1>1 DEF Settled
  <1>3. Recorded' /\ IdleIsDone' /\ JobsFit' /\ \A w \in Worker : ws'[w].filters = ws[w].filters
    BY <1>1, <1>2, KeptJobs
  <1>4. CacheFits'
    <2>1. thr # None => thr \in Worker
      BY ThrIsMade
    <2> QED BY <1>1, <1>3, <2>1 DEF FilterInv, CacheFits
  <1>5. PICK space : space = call.space
    OBVIOUS
  <1>6. \/ UNCHANGED <<outq, index>>
        \/ outq' = Read(outq, space) /\ index' = index
        \/ Drains(outq, space) /\ outq' = Read(outq, space) /\ index' = Append(index, Head(outq.active).ret)
    BY <1>5 DEF ReadOutput
  <1>7. outq.active \in Seq(Buf)
    BY DEF TypeInv, IsQueue
  <1>8. BufsFit'
    <2>1. outq' = outq \/ outq'.active = outq.active \/ (outq.active # <<>> /\ outq'.active = Tail(outq.active))
      BY <1>6, ReadType
    <2>2. CASE outq' = outq \/ outq'.active = outq.active
      BY <1>1, <1>2, <2>2 DEF FilterInv, BufsFit, BlockFits
    <2>3. CASE outq.active # <<>> /\ outq'.active = Tail(outq.active)
      <3>1. PICK a \in Seq(Buf), n \in Nat : a = outq.active /\ n = Len(a) /\ DOMAIN a = 1 .. n
        BY <1>7
      <3>2. a # <<>>
        BY <2>3, <3>1
      <3>3. Tail(a) \in Seq(Buf) /\ Len(Tail(a)) = n - 1 /\ \A i \in 1 .. Len(Tail(a)) : Tail(a)[i] = a[i + 1]
        BY <3>1, <3>2, HeadTailProperties
      <3>4. PICK b : b = Tail(a)
        OBVIOUS
      <3>5. b \in Seq(Buf) /\ Len(b) = n - 1 /\ \A i \in 1 .. n - 1 : b[i] = a[i + 1]
        BY <3>3, <3>4
      <3>6. b = Tail(a) /\ DOMAIN b = 1 .. n - 1 /\ \A i \in 1 .. n - 1 : b[i] = a[i + 1]
        BY <3>4, <3>5
      <3>7. \A i \in 1 .. n - 1 : i + 1 \in 1 .. n
        OBVIOUS
      <3> QED BY <1>1, <1>2, <2>3, <3>1, <3>6, <3>7 DEF FilterInv, BufsFit, BlockFits
    <2> QED BY <2>1, <2>2, <2>3
  <1>9. IndexFits'
    <2>1. CASE index' = index
      BY <1>1, <2>1 DEF FilterInv, IndexFits, BlockFits
    <2>2. CASE Drains(outq, space) /\ index' = Append(index, Head(outq.active).ret)
      <3> SUFFICES ASSUME ~unsettled, NEW b \in DOMAIN index' PROVE BlockFits(index'[b])
        BY <1>1 DEF IndexFits, BlockFits
      <3>1. outq.active # <<>> /\ Head(outq.active) \in Buf /\ Head(outq.active).finished
        BY <2>2, ReadType
      <3>2. PICK result : result = Head(outq.active).ret
        OBVIOUS
      <3>3. Head(outq.active) = outq.active[1] /\ 1 \in DOMAIN outq.active
        BY <1>7, <3>1
      <3>4. BlockFits(result)
        BY <1>1, <3>1, <3>2, <3>3 DEF FilterInv, BufsFit, Settled
      <3>5. PICK R : R = {"STREAM_END", <<>>} \cup (Seq(Nat) \X Nat)
        OBVIOUS
      <3>6. index \in Seq(R) /\ result \in R
        BY <3>1, <3>2, <3>5 DEF TypeInv, Buf
      <3>7. PICK n \in Nat : n = Len(index) /\ DOMAIN index = 1 .. n
        BY <3>6
      <3>8. PICK s : s = Append(index, result)
        OBVIOUS
      <3>9. s \in Seq(R) /\ Len(s) = n + 1 /\ s[n + 1] = result /\ \A i \in 1 .. n : s[i] = index[i]
        BY <3>6, <3>7, <3>8, AppendProperties
      <3>10. DOMAIN s = 1 .. n + 1
        BY <3>9
      <3>11. \A i \in 1 .. n + 1 : i = n + 1 \/ i \in 1 .. n
        OBVIOUS
      <3>12. index' = s
        BY <2>2, <3>2, <3>8
      <3>13. \A i \in 1 .. n : BlockFits(index[i])
        BY <3>7 DEF FilterInv, IndexFits
      <3>14. CASE b = n + 1
        BY <3>4, <3>9, <3>12, <3>14
      <3>15. CASE b \in 1 .. n
        BY <3>9, <3>12, <3>13, <3>15
      <3> QED BY <3>10, <3>11, <3>12, <3>14, <3>15
    <2> QED BY <1>6, <2>1, <2>2
  <1> QED BY <1>3, <1>4, <1>8, <1>9 DEF FilterInv

LEMMA GetThreadFilters == ASSUME TypeInv, FilterInv, GetThread PROVE FilterInv'
  <1>1. /\ UNCHANGED <<wl, inits, chain_of, accepted, index, filters, unsettled>>
        /\ pc = "encode" /\ pc' \in {"app", "assign", "decide"} /\ thr = None
        /\ ws' = ws \/ ws' = AllTold("STOP")
    BY DEF GetThread, hist, StopAndFail, Return, Proceed
  <1>2. Settled' = Settled
    BY <1>1 DEF Settled
  <1>3. Recorded' /\ IdleIsDone' /\ JobsFit'
    BY <1>1, <1>2, KeptJobs
  <1>4. CacheFits'
    <2>1. CASE pc' # "assign"
      <3>1. thr' = thr
        BY <2>1 DEF GetThread, Proceed
      <3> QED BY <1>1, <2>1, <3>1 DEF CacheFits
    <2>2. CASE pc' = "assign"
      <3>1. filters_cache' = IF filters_cache = None THEN filters ELSE filters_cache
        BY <2>2 DEF GetThread, Proceed, StopAndFail, Return
      <3>2. filters_cache' = filters
        BY <3>1 DEF TypeInv
      <3> QED BY <1>1, <2>2, <3>2 DEF CacheFits
    <2> QED BY <2>1, <2>2
  <1>5. outq'.active = outq.active
    <2>1. PICK p : p = PreallocBuf(outq, BufSize)
      OBVIOUS
    <2>2. p.active = outq.active
      <3>1. IsQueue(outq, Buf, {BufSize}) /\ BufSize \in {BufSize}
        BY DEF TypeInv
      <3> QED BY <2>1, <3>1, Preallocated
    <2>3. outq' \in {outq, p}
      BY <2>1 DEF GetThread
    <2> QED BY <2>2, <2>3
  <1>6. BufsFit' /\ IndexFits'
    BY <1>1, <1>2, <1>5 DEF FilterInv, BufsFit, IndexFits, BlockFits
  <1> QED BY <1>3, <1>4, <1>6 DEF FilterInv

LEMMA AssignFilters == ASSUME TypeInv, Account, FilterInv, AssignThread PROVE FilterInv'
  <1>1. /\ UNCHANGED <<wl, inits, chain_of, accepted, index, filters, unsettled, thr>>
        /\ pc = "assign" /\ pc' = "encode"
    BY DEF AssignThread, app, hist
  <1>2. Settled' = Settled
    BY <1>1 DEF Settled
  <1>3. thr \in Worker /\ thr # None /\ wl[thr].pc = "idle" /\ wl[thr].content = <<>>
    BY <1>1, QueueAssumption DEF Account, Chosen, TypeInv, Worker, FilterInv, IdleIsDone
  <1>4. NextJob[1] = inits
    BY DEF NextJob
  <1>5. PICK job : job = NextJob /\ job[1] = inits
    BY <1>4
  <1>6. ws' = [ws EXCEPT ![thr] = Assigned(job)]
    BY <1>5, AssignedWorker
  <1>7. filters_cache = filters
    BY <1>1 DEF FilterInv, CacheFits
  <1>8. /\ \A w \in Worker : w # thr => ws'[w] = ws[w]
        /\ ws'[thr].state = "RUN" /\ ws'[thr].in = <<>> /\ ws'[thr].outbuf = job /\ ws'[thr].filters = filters
    BY <1>3, <1>6, <1>7 DEF Assigned, TypeInv
  <1>9. Recorded'
    BY <1>1 DEF FilterInv, Recorded
  <1>10. IdleIsDone'
    BY <1>1, <1>8 DEF FilterInv, IdleIsDone
  <1>11. JobsFit'
    <2> SUFFICES ASSUME Settled, NEW w \in Worker, AtWork(w)' PROVE JobFits(w)'
      BY <1>2 DEF JobsFit
    <2>1. CASE w = thr
      BY <1>1, <1>3, <1>5, <1>8, <2>1, FitsNone DEF JobFits
    <2>2. CASE w # thr
      BY <1>1, <1>8, <2>2 DEF FilterInv, JobsFit, JobFits, AtWork
    <2> QED BY <2>1, <2>2
  <1>12. BufsFit'
    <2>1. PICK b \in Buf : ~b.finished /\ outq'.active = Append(outq.active, b)
      BY AssignQueue
    <2>2. outq.active \in Seq(Buf)
      BY DEF TypeInv, IsQueue
    <2>3. PICK a \in Seq(Buf), n \in Nat : a = outq.active /\ n = Len(a) /\ DOMAIN a = 1 .. n
      BY <2>2
    <2>4. PICK s : s = Append(a, b)
      OBVIOUS
    <2>5. s \in Seq(Buf) /\ Len(s) = n + 1 /\ s[n + 1] = b /\ \A i \in 1 .. n : s[i] = a[i]
      BY <2>3, <2>4, AppendProperties
    <2>6. DOMAIN s = 1 .. n + 1 /\ \A i \in 1 .. n + 1 : i = n + 1 \/ i \in 1 .. n
      BY <2>5
    <2>7. outq'.active = s
      BY <2>1, <2>3, <2>4
    <2> SUFFICES ASSUME Settled, NEW i \in DOMAIN s, s[i].finished PROVE BlockFits(s[i].ret)
      BY <1>1, <1>2, <2>7 DEF BufsFit, BlockFits
    <2>8. i \in 1 .. n
      BY <2>1, <2>5, <2>6
    <2>9. s[i] = a[i] /\ i \in DOMAIN outq.active
      BY <2>3, <2>5, <2>8
    <2> QED BY <2>3, <2>9 DEF FilterInv, BufsFit
  <1>13. IndexFits' /\ CacheFits'
    BY <1>1, <1>8 DEF FilterInv, IndexFits, CacheFits, BlockFits
  <1> QED BY <1>9, <1>10, <1>11, <1>12, <1>13 DEF FilterInv

LEMMA FeedFilters == ASSUME TypeInv, Account, FilterInv, FeedThread PROVE FilterInv'
  <1>1. /\ UNCHANGED <<wl, inits, index, filters, filters_cache, unsettled, outq>> /\ thr # None
        /\ pc = "encode" /\ pc' \in {"encode", "blockerror"}
    BY FedStates DEF FeedThread, shared
  <1>2. Settled' = Settled
    BY <1>1 DEF Settled
  <1>3. PICK n \in Nat, more \in Seq(Nat), state \in States : FedBy(n, more, state)
    BY Fed
  <1>4. thr \in Worker /\ more = [i \in 1 .. n |-> accepted + i] /\ chain_of' = chain_of \o [i \in 1 .. n |-> filters]
        /\ accepted' = accepted + n /\ ws[thr].in \o more \in Input /\ thr' \in {None, thr}
    BY <1>3 DEF FedBy
  <1>5. /\ chain_of' \in Seq(Nat) /\ Len(chain_of') = accepted' /\ Fits(chain_of', more, filters)
        /\ \A units, chain : Fits(chain_of, units, chain) => Fits(chain_of', units, chain)
    <2>1. PICK f \in Nat, a \in Nat : f = filters /\ a = accepted
      BY DEF TypeInv
    <2>2. PICK c \in Seq(Nat) : c = chain_of /\ Len(c) = a
      BY <2>1 DEF FilterInv, Recorded
    <2>3. [i \in 1 .. n |-> f] \in Seq(Nat)
      OBVIOUS
    <2>4. PICK l \in Seq(Nat) : l = [i \in 1 .. n |-> f]
      BY <2>3
    <2>5. PICK u : u = [i \in 1 .. n |-> a + i]
      OBVIOUS
    <2>6. c \o l \in Seq(Nat) /\ Len(c \o l) = a + n /\ Fits(c \o l, u, f)
      <3>1. Len(l) = n /\ \A i \in 1 .. n : l[i] = f
        BY <2>4
      <3>2. DOMAIN u = 1 .. n /\ \A i \in 1 .. n : u[i] = a + i
        BY <2>5
      <3>3. c \in Seq(Nat) /\ n \in Nat /\ a \in Nat /\ a = Len(c) /\ l \in Seq(Nat)
        BY <2>2
      <3>4. /\ c \o l \in Seq(Nat) /\ Len(c \o l) = a + n
            /\ \A i \in 1 .. a + n : (c \o l)[i] = IF i <= a THEN c[i] ELSE l[i - a]
        <4>1. ASSUME NEW x \in Seq(Nat), NEW y \in Seq(Nat)
              PROVE  /\ x \o y \in Seq(Nat) /\ Len(x \o y) = Len(x) + Len(y)
                     /\ \A i \in 1 .. Len(x) + Len(y) :
                          (x \o y)[i] = IF i <= Len(x) THEN x[i] ELSE y[i - Len(x)]
          BY ONLY <4>1, ConcatProperties
        <4>2. c \in Seq(Nat) /\ l \in Seq(Nat) /\ Len(c) = a /\ Len(l) = n
          BY <3>1, <3>3
        <4> QED BY ONLY <4>1, <4>2
      <3>5. \A k \in 1 .. n : a + k \in 1 .. a + n /\ ~(a + k <= a) /\ (a + k) - a = k
        OBVIOUS
      <3>6. \A k \in 1 .. n : (c \o l)[a + k] = f
        BY <3>1, <3>4, <3>5
      <3>7. Fits(c \o l, u, f)
        <4>1. PICK s : s = c \o l
          OBVIOUS
        <4>2. ASSUME NEW k \in DOMAIN u PROVE u[k] \in 1 .. Len(s) /\ s[u[k]] = f
          <5>1. k \in 1 .. n /\ u[k] = a + k
            BY <3>2
          <5>2. Len(s) = a + n /\ s[a + k] = f
            BY <3>4, <3>6, <4>1, <5>1
          <5> QED BY <3>5, <5>1, <5>2
        <4> QED BY <4>1, <4>2 DEF Fits
      <3> QED BY <3>4, <3>7
    <2>7. \A units, chain : Fits(c, units, chain) => Fits(c \o l, units, chain)
      BY FitsGrown
    <2>8. chain_of' = c \o l /\ more = u /\ accepted' = a + n
      BY <1>4, <2>1, <2>2, <2>4, <2>5
    <2> QED BY <2>1, <2>2, <2>6, <2>7, <2>8
  <1>6. /\ \A w \in Worker : w # thr => ws'[w] = ws[w]
        /\ \/ ws'[thr] = ws[thr]
           \/ /\ ws'[thr].in = ws[thr].in \o more /\ ws'[thr].filters = ws[thr].filters
              /\ ws'[thr].outbuf = ws[thr].outbuf /\ ws[thr].state # "IDLE" /\ ws'[thr].state # "IDLE"
    <2>1. CASE ws[thr].state = "IDLE"
      BY <1>3, <2>1 DEF FedBy
    <2>2. CASE ws[thr].state # "IDLE"
      <3>1. PICK r \in WorkerType : r = ws[thr]
        BY <1>4 DEF TypeInv
      <3>2. PICK u \in Input : u = r.in \o more
        BY <1>4, <3>1
      <3>3. PICK k1 : k1 = [r EXCEPT !.in = u]
        OBVIOUS
      <3>4. k1 \in WorkerType /\ k1.in = u /\ k1.filters = r.filters /\ k1.outbuf = r.outbuf
        BY <3>3, SetIn
      <3>5. PICK k : k = [k1 EXCEPT !.state = state]
        OBVIOUS
      <3>6. k.in = u /\ k.filters = r.filters /\ k.outbuf = r.outbuf /\ k.state = state
        BY <3>4, <3>5, SetState
      <3>7. ws' = [ws EXCEPT ![thr] = k] /\ state # "IDLE"
        BY <1>3, <2>2, <3>1, <3>2, <3>3, <3>5 DEF FedBy
      <3> QED BY <1>4, <2>2, <3>1, <3>2, <3>6, <3>7 DEF TypeInv
    <2> QED BY <2>1, <2>2
  <1>7. Recorded'
    BY <1>5 DEF Recorded
  <1>8. IdleIsDone'
    BY <1>1, <1>6 DEF FilterInv, IdleIsDone
  <1>9. \A w \in Worker : ws[w].state \in {"IDLE", "RUN", "FINISH"}
    BY <1>1 DEF Account, Stops, TypeInv, WorkerType, States, Alive
  <1>10. JobsFit'
    <2> SUFFICES ASSUME Settled, NEW w \in Worker, AtWork(w)' PROVE JobFits(w)'
      BY <1>2 DEF JobsFit
    <2>1. AtWork(w)
      BY <1>1, <1>6, <1>9 DEF AtWork
    <2>2. JobFits(w)
      BY <2>1 DEF FilterInv, JobsFit
    <2>3. CASE ws'[w] = ws[w]
      BY <1>1, <1>5, <2>2, <2>3 DEF JobFits
    <2>4. CASE ws'[w] # ws[w]
      <3>1. w = thr /\ ws'[w].in = ws[w].in \o more /\ ws'[w].filters = ws[w].filters /\ ws'[w].outbuf = ws[w].outbuf
        BY <1>6, <2>4
      <3>2. ws[w].filters = filters
        BY <1>1, <3>1 DEF FilterInv, CacheFits
      <3>3. ws[w].in \in Seq(Nat)
        BY DEF TypeInv, WorkerType, Input
      <3>4. Fits(chain_of', ws[w].in, filters) /\ Fits(chain_of', wl[w].content, filters)
        BY <1>5, <2>2, <3>2 DEF JobFits
      <3>5. Fits(chain_of', ws[w].in \o more, filters)
        BY <1>5, <3>3, <3>4, FitsBoth
      <3> QED BY <1>1, <2>2, <3>1, <3>2, <3>4, <3>5 DEF JobFits
    <2> QED BY <2>3, <2>4
  <1>11. BufsFit' /\ IndexFits'
    BY <1>1, <1>2, <1>5 DEF FilterInv, BufsFit, IndexFits, BlockFits
  <1>12. CacheFits'
    BY <1>1, <1>4, <1>6 DEF FilterInv, CacheFits
  <1> QED BY <1>7, <1>8, <1>10, <1>11, <1>12 DEF FilterInv

LEMMA RestartFilters == ASSUME TypeInv, FilterInv, Restart PROVE FilterInv'
  <1>1. /\ UNCHANGED <<ws, wl>> /\ pc' = "app" /\ thr' = None /\ index' = <<>>
        /\ accepted' = 0 /\ chain_of' = <<>> /\ unsettled' = (unsettled \/ StillDue)
    BY DEF Restart
  <1>2. ~unsettled' => \A w \in Worker : wl[w].pc = "idle" /\ ws[w].state = "IDLE"
    BY <1>1 DEF Restart, AllIdle, StillDue, FilterInv, IdleIsDone
  <1>3. JobsFit'
    BY <1>1, <1>2 DEF JobsFit, Settled, AtWork
  <1>4. BufsFit'
    <2>1. outq'.active = <<>>
      BY RestartQueue DEF Restart
    <2> QED BY <2>1 DEF BufsFit
  <1>5. Recorded' /\ IdleIsDone' /\ IndexFits' /\ CacheFits'
    BY <1>1 DEF FilterInv, Recorded, IdleIsDone, IndexFits, CacheFits
  <1> QED BY <1>3, <1>4, <1>5 DEF FilterInv

LEMMA UpdatedFilters == ASSUME TypeInv, FilterInv, UpdateFilters PROVE FilterInv'
  <1>1. /\ UNCHANGED <<pc, ws, wl, outq, index, chain_of, accepted, inits, unsettled>>
        /\ pc = "app" /\ thr' = None
    BY DEF UpdateFilters, MayUpdate, shared, hist
  <1>2. Recorded' /\ IdleIsDone' /\ IndexFits' /\ CacheFits'
    BY <1>1 DEF FilterInv, Recorded, IdleIsDone, IndexFits, CacheFits, BlockFits
  <1>3. JobsFit' /\ BufsFit'
    BY <1>1 DEF FilterInv, JobsFit, JobFits, BufsFit, BlockFits, Settled, AtWork
  <1> QED BY <1>2, <1>3 DEF FilterInv

(* A thread that goes on with its job, or is done with it.                 *)
LEMMA WorkerFilters ==
  ASSUME TypeInv, FilterInv, NEW w \in Worker, pc' \in {pc, Signalled},
         UNCHANGED <<inits, chain_of, accepted, index, thr, filters, filters_cache, unsettled>>,
         \A v \in Worker : v # w => ws'[v] = ws[v] /\ wl'[v] = wl[v],
         ws'[w].filters = ws[w].filters, ws'[w].in = ws[w].in, ws'[w].outbuf = ws[w].outbuf,
         ws'[w].state = "IDLE" => wl'[w].pc \in {"idle", "report"},
         wl'[w].pc = "idle" => wl'[w].content = <<>>,
         Settled /\ AtWork(w)' => AtWork(w) /\ Fits(chain_of, wl'[w].content, ws[w].filters),
         outq' = outq \/ BufsFit'
  PROVE  FilterInv'
  <1>1. Settled' = Settled /\ (pc' = "assign" <=> pc = "assign")
    BY DEF Settled, Signalled
  <1>2. Recorded' /\ IndexFits'
    BY DEF FilterInv, Recorded, IndexFits, BlockFits
  <1>3. IdleIsDone'
    BY DEF FilterInv, IdleIsDone
  <1>4. JobsFit'
    <2> SUFFICES ASSUME Settled, NEW v \in Worker, AtWork(v)' PROVE JobFits(v)'
      BY <1>1 DEF JobsFit
    <2>1. CASE v = w
      <3>1. JobFits(w) /\ Fits(chain_of, wl'[w].content, ws[w].filters)
        BY <2>1 DEF FilterInv, JobsFit
      <3> QED BY <2>1, <3>1 DEF JobFits
    <2>2. CASE v # w
      <3>1. JobFits(v)
        BY <2>2 DEF FilterInv, JobsFit, AtWork
      <3> QED BY <2>2, <3>1 DEF JobFits
    <2> QED BY <2>1, <2>2
  <1>5. BufsFit'
    BY <1>1 DEF FilterInv, BufsFit, BlockFits
  <1>6. CacheFits'
    <2>1. thr # None => thr \in Worker
      BY ThrIsMade
    <2> QED BY <1>1, <2>1 DEF FilterInv, CacheFits
  <1> QED BY <1>2, <1>3, <1>4, <1>5, <1>6 DEF FilterInv

LEMMA TakeCommandFilters == ASSUME TypeInv, Account, FilterInv, NEW w \in Worker, TakeCommand(w) PROVE FilterInv'
  <1>1. /\ UNCHANGED <<pc, inits, chain_of, accepted, index, thr, filters, filters_cache, unsettled, outq>>
        /\ wl[w].pc = "idle"
    BY DEF TakeCommand, coder, shared
  <1>2. PICK r \in WorkerType, x \in ThreadType : r = ws[w] /\ x = wl[w]
    BY DEF TypeInv
  <1>3. x.pc = "idle" /\ x.content = <<>>
    BY <1>1, <1>2 DEF FilterInv, IdleIsDone
  <1>4. CASE ws' = [ws EXCEPT ![w].state = "IDLE"] /\ wl' = wl
    <2>1. PICK k : k = [r EXCEPT !.state = "IDLE"]
      OBVIOUS
    <2>2. k.state = "IDLE" /\ k.in = r.in /\ k.outbuf = r.outbuf /\ k.filters = r.filters
      BY <2>1, SetState DEF States
    <2>3. ws' = [ws EXCEPT ![w] = k]
      BY <1>2, <1>4, <2>1 DEF TypeInv
    <2>4. ws'[w] = k /\ \A v \in Worker : v # w => ws'[v] = ws[v]
      BY <2>3 DEF TypeInv
    <2>5. ~AtWork(w)'
      BY <1>2, <1>3, <1>4, <2>2, <2>4 DEF AtWork
    <2> QED BY <1>1, <1>2, <1>3, <1>4, <2>2, <2>4, <2>5, WorkerFilters
  <1>5. CASE ws[w].state = "EXIT" /\ wl' = [wl EXCEPT ![w].pc = "exited"] /\ ws' = ws
    <2>1. ~Settled
      BY <1>5 DEF Account, Stops, Alive, Settled
    <2>2. (\A v \in Worker : v # w => wl'[v] = wl[v]) /\ wl'[w].pc = "exited"
      BY <1>5, MovedPlace DEF ThreadPlaces
    <2> QED BY <1>1, <1>5, <2>1, <2>2, WorkerFilters
  <1>6. CASE /\ ws[w].state \in {"RUN", "FINISH"} /\ ws' = ws
             /\ wl' = [wl EXCEPT ![w] = [IdleThread EXCEPT !.pc = "run", !.state = ws[w].state]]
    <2>1. PICK k : k = [IdleThread EXCEPT !.pc = "run", !.state = ws[w].state]
      OBVIOUS
    <2>2. k.pc = "run" /\ k.content = <<>>
      BY <2>1 DEF IdleThread
    <2>3. wl'[w] = k /\ \A v \in Worker : v # w => wl'[v] = wl[v]
      BY <1>6, <2>1 DEF TypeInv
    <2>4. AtWork(w) /\ Fits(chain_of, wl'[w].content, ws[w].filters)
      BY <1>6, <2>2, <2>3, FitsNone DEF AtWork
    <2> QED BY <1>1, <1>6, <2>2, <2>3, <2>4, WorkerFilters
  <1> QED BY <1>4, <1>5, <1>6 DEF TakeCommand

(* A change of the thread only, in the middle of a job.                    *)
LEMMA BusyFilters ==
  ASSUME TypeInv, FilterInv, NEW w \in Worker, pc' \in {pc, Signalled},
         UNCHANGED <<inits, chain_of, accepted, index, thr, filters, filters_cache, unsettled, outq>>,
         \A v \in Worker : v # w => ws'[v] = ws[v] /\ wl'[v] = wl[v],
         ws'[w].filters = ws[w].filters, ws'[w].in = ws[w].in, ws'[w].outbuf = ws[w].outbuf,
         ws'[w].state = "IDLE" => ws[w].state = "IDLE" \/ wl'[w].pc = "report",
         wl[w].pc \notin {"idle", "report"}, wl'[w].pc # "idle",
         wl'[w].content = wl[w].content \/ (Settled => Fits(chain_of, wl'[w].content, ws[w].filters))
  PROVE  FilterInv'
  <1>1. AtWork(w)
    BY DEF AtWork
  <1>2. Settled => Fits(chain_of, wl'[w].content, ws[w].filters)
    BY <1>1 DEF FilterInv, JobsFit, JobFits
  <1>3. ws'[w].state = "IDLE" => wl'[w].pc \in {"idle", "report"}
    BY DEF FilterInv, IdleIsDone
  <1> QED BY <1>1, <1>2, <1>3, WorkerFilters

LEMMA EncodeChunkFilters == ASSUME TypeInv, FilterInv, NEW w \in Worker, EncodeChunk(w) PROVE FilterInv'
  <1>1. /\ UNCHANGED <<pc, inits, chain_of, accepted, index, thr, filters, filters_cache, unsettled, outq>>
        /\ wl[w].pc = "run"
    BY DEF EncodeChunk, coder, shared, hist
  <1>2. PICK r \in WorkerType, x \in ThreadType : r = ws[w] /\ x = wl[w]
    BY DEF TypeInv
  <1>3. /\ ws'[w].filters = r.filters /\ ws'[w].in = r.in /\ ws'[w].outbuf = r.outbuf /\ ws'[w].state = r.state
        /\ \A v \in Worker : v # w => ws'[v] = ws[v]
    <2>1. PICK done \in Nat : done = Len(x.content)
      BY DEF ThreadType
    <2>2. PICK k : k = [r EXCEPT !.progress_in = done]
      OBVIOUS
    <2>3. k.filters = r.filters /\ k.in = r.in /\ k.outbuf = r.outbuf /\ k.state = r.state
      BY <2>2, SetProgress
    <2>4. ws' = [ws EXCEPT ![w].progress_in = done]
      BY <1>2, <2>1, EncodeStep
    <2>5. ws' = [ws EXCEPT ![w] = k]
      BY <1>2, <2>2, <2>4 DEF TypeInv
    <2> QED BY <2>3, <2>5 DEF TypeInv
  <1>4. CASE ws[w].state \in {"STOP", "EXIT"} /\ wl' = Leave(w, ws[w].state)
    <2>1. (\A v \in Worker : v # w => wl'[v] = wl[v]) /\ wl'[w].pc # "idle" /\ wl'[w].content = wl[w].content
      BY <1>4, LeftPlace DEF States
    <2> QED BY <1>1, <1>2, <1>3, <2>1, BusyFilters
  <1>5. CASE wl' = [wl EXCEPT ![w].pc = "fail"] \/ wl' = [wl EXCEPT ![w].pc = "full"]
    <2>1. (\A v \in Worker : v # w => wl'[v] = wl[v]) /\ wl'[w].pc # "idle" /\ wl'[w].content = wl[w].content
      BY <1>5, MovedPlace DEF ThreadPlaces
    <2> QED BY <1>1, <1>2, <1>3, <2>1, BusyFilters
  <1>6. CASE \E place \in {"release", "run"}, state \in {"FINISH", "RUN"}, size \in Nat :
               wl' = [wl EXCEPT ![w] = Chunked(w, place, state, size)]
    <2>1. PICK place \in {"release", "run"}, state \in {"FINISH", "RUN"}, size \in Nat :
               wl' = [wl EXCEPT ![w] = Chunked(w, place, state, size)]
      BY <1>6
    <2>2. PICK done \in Nat : done = Len(x.content)
      BY DEF ThreadType
    <2>3. r.in \in Seq(Nat) /\ x.content \in Seq(Nat)
      BY DEF WorkerType, ThreadType, Input
    <2>4. PICK chunk \in Seq(Nat) :
            /\ chunk = SubSeq(r.in, done + 1, done + SmallerOf(Len(r.in) - done, ChunkMax))
            /\ \A k \in DOMAIN chunk : \E i \in DOMAIN r.in : chunk[k] = r.in[i]
      BY <2>3, Chunk
    <2>5. PICK c : c = x.content \o chunk
      OBVIOUS
    <2>6. Chunked(w, place, state, size) = [pc |-> place, state |-> state, size |-> size, content |-> c]
      BY <1>2, <2>2, <2>4, <2>5 DEF Chunked
    <2>7. wl'[w].pc = place /\ wl'[w].content = c /\ \A v \in Worker : v # w => wl'[v] = wl[v]
      BY <2>1, <2>6 DEF TypeInv
    <2>8. Settled => Fits(chain_of, c, r.filters)
      <3> SUFFICES ASSUME Settled PROVE Fits(chain_of, c, r.filters)
        OBVIOUS
      <3>1. JobFits(w)
        BY <1>1 DEF FilterInv, JobsFit, AtWork
      <3>2. Fits(chain_of, r.in, r.filters) /\ Fits(chain_of, x.content, r.filters)
        BY <1>2, <3>1 DEF JobFits
      <3>3. Fits(chain_of, chunk, r.filters)
        BY <2>4, <3>2 DEF Fits
      <3> QED BY <2>3, <2>5, <3>2, <3>3, FitsBoth
    <2> QED BY <1>1, <1>2, <1>3, <2>7, <2>8, BusyFilters
  <1> QED BY <1>4, <1>5, <1>6, EncodeStep

LEMMA StoreBlockFilters == ASSUME TypeInv, FilterInv, NEW w \in Worker, StoreBlock(w) PROVE FilterInv'
  <1>1. /\ UNCHANGED <<pc, inits, chain_of, accepted, index, thr, filters, filters_cache, unsettled, outq, ws>>
        /\ wl[w].pc = "full"
    BY DEF StoreBlock, coder, shared, hist
  <1>2. CASE ws[w].state \in {"STOP", "EXIT"} /\ wl' = Leave(w, ws[w].state)
    <2>1. (\A v \in Worker : v # w => wl'[v] = wl[v]) /\ wl'[w].pc # "idle" /\ wl'[w].content = wl[w].content
      BY <1>2, LeftPlace DEF States
    <2> QED BY <1>1, <2>1, BusyFilters
  <1>3. CASE wl' = [wl EXCEPT ![w].pc = "fail"]
    <2>1. (\A v \in Worker : v # w => wl'[v] = wl[v]) /\ wl'[w].pc # "idle" /\ wl'[w].content = wl[w].content
      BY <1>3, MovedPlace DEF ThreadPlaces
    <2> QED BY <1>1, <2>1, BusyFilters
  <1>4. CASE wl' = [wl EXCEPT ![w] = [pc |-> "release", state |-> "FINISH", content |-> ws[w].in, size |-> BufSize]]
    <2>1. (\A v \in Worker : v # w => wl'[v] = wl[v]) /\ wl'[w].pc = "release" /\ wl'[w].content = ws[w].in
      BY <1>4 DEF TypeInv
    <2>2. Settled => Fits(chain_of, wl'[w].content, ws[w].filters)
      BY <1>1, <2>1 DEF FilterInv, JobsFit, JobFits, AtWork
    <2> QED BY <1>1, <2>1, <2>2, BusyFilters
  <1> QED BY <1>2, <1>3, <1>4, StoreStep

LEMMA WorkerErrorFilters == ASSUME TypeInv, FilterInv, NEW w \in Worker, WorkerError(w) PROVE FilterInv'
  <1>1. /\ UNCHANGED <<inits, chain_of, accepted, index, thr, filters, filters_cache, unsettled, outq, ws>>
        /\ wl[w].pc = "fail" /\ pc' = Signalled
    BY DEF WorkerError, coder, hist
  <1>2. (\A v \in Worker : v # w => wl'[v] = wl[v]) /\ wl'[w].pc = "release" /\ wl'[w].content = wl[w].content
    BY LeftPlace DEF WorkerError, States
  <1> QED BY <1>1, <1>2, BusyFilters

LEMMA ReleaseFilters == ASSUME TypeInv, FilterInv, NEW w \in Worker, Release(w) PROVE FilterInv'
  <1>1. /\ UNCHANGED <<pc, inits, chain_of, accepted, index, thr, filters, filters_cache, unsettled, outq>>
        /\ wl[w].pc = "release"
    BY DEF Release, coder, shared, hist
  <1>2. (\A v \in Worker : v # w => wl'[v] = wl[v]) /\ wl'[w].pc = "report" /\ wl'[w].content = wl[w].content
    BY MovedPlace DEF Release, ThreadPlaces
  <1>3. PICK r \in WorkerType : r = ws[w]
    BY DEF TypeInv
  <1>4. PICK s \in {"IDLE", "EXIT"} : s = IdleUnlessExit(r.state)
    BY DEF IdleUnlessExit
  <1>5. PICK k : k = [r EXCEPT !.state = s]
    OBVIOUS
  <1>6. k.in = r.in /\ k.outbuf = r.outbuf /\ k.filters = r.filters
    BY <1>5, SetState DEF States
  <1>7. ws' = [ws EXCEPT ![w] = k]
    BY <1>3, <1>4, <1>5 DEF Release, TypeInv
  <1>8. ws'[w] = k /\ \A v \in Worker : v # w => ws'[v] = ws[v]
    BY <1>7 DEF TypeInv
  <1> QED BY <1>1, <1>2, <1>3, <1>6, <1>8, BusyFilters

(* A thread that reports finishes the buffer of its job, with what it      *)
(* encoded and the filters it used.                                        *)
LEMMA ReportFilters == ASSUME TypeInv, Account, FilterInv, NEW w \in Worker, Report(w) PROVE FilterInv'
  <1>1. /\ UNCHANGED <<inits, chain_of, accepted, index, thr, filters, filters_cache, unsettled>>
        /\ wl[w].pc = "report" /\ pc' = Signalled
    BY DEF Report, coder, hist
  <1>2. PICK r \in WorkerType : r = ws[w]
    BY DEF TypeInv
  <1>3. /\ ws'[w].filters = r.filters /\ ws'[w].in = r.in /\ ws'[w].outbuf = r.outbuf /\ ws'[w].state = r.state
        /\ \A v \in Worker : v # w => ws'[v] = ws[v]
    <2>1. PICK z \in Nat : z = 0
      OBVIOUS
    <2>2. PICK k : k = [r EXCEPT !.progress_in = z]
      OBVIOUS
    <2>3. k.filters = r.filters /\ k.in = r.in /\ k.outbuf = r.outbuf /\ k.state = r.state
      BY <2>2, SetProgress
    <2>4. ws' = [ws EXCEPT ![w] = k]
      BY <1>2, <2>1, <2>2 DEF Report, TypeInv
    <2> QED BY <2>3, <2>4 DEF TypeInv
  <1>4. wl'[w] = IdleThread /\ \A v \in Worker : v # w => wl'[v] = wl[v]
    BY DEF Report, TypeInv
  <1>5. wl'[w].pc = "idle" /\ wl'[w].content = <<>>
    BY <1>4 DEF IdleThread
  <1>6. Settled => ~AtWork(w)'
    <2>1. Settled => ws[w].state \in {"IDLE", "STOP"}
      BY <1>1 DEF Account, ReportsDone, Alive, Settled
    <2> QED BY <1>2, <1>3, <1>5, <2>1 DEF AtWork
  <1>7. BufsFit'
    <2>1. Settled' = Settled
      BY <1>1 DEF Settled, Signalled
    <2> SUFFICES ASSUME Settled, NEW j \in DOMAIN outq'.active, outq'.active[j].finished
                 PROVE  BlockFits(outq'.active[j].ret)
      BY <1>1, <2>1 DEF BufsFit, BlockFits
    <2>2. JobFits(w)
      BY <1>1 DEF FilterInv, JobsFit, AtWork
    <2>3. outq' = outq \/ \E i \in DOMAIN outq.active : outq' = FinishedAt(i, w)
      BY DEF Report, FinishedIfWhole, Places
    <2>4. CASE outq' = outq
      BY <2>4 DEF FilterInv, BufsFit
    <2>5. CASE \E i \in DOMAIN outq.active : outq' = FinishedAt(i, w)
      <3>1. PICK i \in DOMAIN outq.active : outq' = FinishedAt(i, w)
        BY <2>5
      <3>2. PICK result : result = <<wl[w].content, ws[w].filters>>
        OBVIOUS
      <3>3. PICK b \in Buf : /\ b.finished /\ b.ret = <<wl[w].content, ws[w].filters>>
                            /\ FinishedAt(i, w).active = [outq.active EXCEPT ![i] = b]
        <4>1. TypeInv
          BY <1>1
        <4>2. \E b \in Buf : /\ b.finished /\ b.ret = <<wl[w].content, ws[w].filters>> /\ b.job = outq.active[i].job
                             /\ FinishedAt(i, w).active = [outq.active EXCEPT ![i] = b]
                             /\ IsQueue(FinishedAt(i, w), Buf, {BufSize})
                             /\ FinishedAt(i, w).cache = outq.cache
          BY ONLY <4>1, Finished
        <4> QED BY <4>2
      <3>4. b.ret = result /\ outq'.active = [outq.active EXCEPT ![i] = b]
        BY <3>1, <3>2, <3>3
      <3>5. BlockFits(result)
        <4>1. wl[w].content \in Seq(Nat) /\ ws[w].filters \in Nat
          BY DEF TypeInv, ThreadType, WorkerType
        <4>2. Fits(chain_of, wl[w].content, ws[w].filters)
          BY <2>2 DEF JobFits
        <4> QED BY <3>2, <4>1, <4>2 DEF BlockFits
      <3>6. CASE j = i
        BY <3>4, <3>5, <3>6
      <3>7. CASE j # i
        <4>1. j \in DOMAIN outq.active /\ outq'.active[j] = outq.active[j]
          BY <3>4, <3>7
        <4> QED BY <4>1 DEF FilterInv, BufsFit
      <3> QED BY <3>6, <3>7
    <2> QED BY <2>3, <2>4, <2>5
  <1> QED BY <1>1, <1>2, <1>3, <1>4, <1>5, <1>6, <1>7, WorkerFilters

LEMMA FilterInit == Init => FilterInv
  <1> SUFFICES ASSUME Init PROVE FilterInv
    OBVIOUS
  <1>1. \A w \in Worker : ws[w].state = "IDLE" /\ wl[w].pc = "idle" /\ wl[w].content = <<>>
    BY DEF Init, IdleWorker, IdleThread
  <1>2. chain_of = <<>> /\ accepted = 0 /\ index = <<>> /\ outq.active = <<>> /\ thr = None /\ pc = "app"
    BY DEF Init, Empty
  <1>3. Recorded /\ IdleIsDone
    BY <1>1, <1>2 DEF Recorded, IdleIsDone
  <1>4. JobsFit
    BY <1>1 DEF JobsFit, AtWork
  <1>5. BufsFit /\ IndexFits /\ CacheFits
    BY <1>2 DEF BufsFit, IndexFits, CacheFits
  <1> QED BY <1>3, <1>4, <1>5 DEF FilterInv

LEMMA FilterStep == TypeInv /\ Account /\ FilterInv /\ [Next]_vars => FilterInv'
<1> SUFFICES ASSUME TypeInv, Account, FilterInv, [Next]_vars PROVE FilterInv'
  OBVIOUS
<1> USE DEF coder, shared, hist, app, Settled
<1>1. CASE CopyFixed
  <2>1. pc = "copy" /\ pc' \in {"app", "read", "copy"}
    BY <1>1 DEF CopyFixed, Return, Proceed
  <2> QED BY <1>1, <2>1, KeptFilters DEF CopyFixed
<1>2. CASE ReadOutput
  BY <1>2, ReadOutputFilters
<1>3. CASE GetThread
  BY <1>3, GetThreadFilters
<1>4. CASE AssignThread
  BY <1>4, AssignFilters
<1>5. CASE FeedThread
  BY <1>5, FeedFilters
<1>6. CASE BlockError
  <2>1. pc = "blockerror" /\ pc' \in {"app", "decide"} /\ (ws' = ws \/ ws' = AllTold("STOP"))
    BY <1>6 DEF BlockError, StopAndFail, Return, Proceed
  <2> QED BY <1>6, <2>1, KeptFilters DEF BlockError
<1>7. CASE FedAll
  BY <1>7, KeptFilters DEF FedAll
<1>8. CASE Decide
  <2>1. pc = "decide" /\ pc' \in {"app", "wait", "copy"}
    BY <1>8 DEF Decide, Return, Proceed
  <2> QED BY <1>8, <2>1, KeptFilters DEF Decide
<1>9. CASE Wait
  BY <1>9, KeptFilters DEF Wait
<1>10. CASE TimeOut
  BY <1>10, KeptFilters DEF TimeOut, Return
<1>11. CASE Restart
  BY <1>11, RestartFilters
<1>12. CASE Join
  <2>1. outq'.active = <<>>
    BY <1>12 DEF Join, Empty
  <2> QED BY <1>12, <2>1, KeptFilters DEF Join
<1>13. CASE Call
  <2>1. pc = "app" /\ pc' \in {"read", "copy"}
    BY <1>13 DEF Call
  <2> QED BY <1>13, <2>1, KeptFilters DEF Call
<1>14. CASE UpdateFilters
  BY <1>14, UpdatedFilters
<1>15. CASE Reinit
  BY <1>15, KeptFilters DEF Reinit
<1>16. CASE End
  BY <1>16, KeptFilters DEF End
<1>17. ASSUME NEW w \in Worker, WorkerThread(w) PROVE FilterInv'
  BY <1>17, TakeCommandFilters, EncodeChunkFilters, StoreBlockFilters, WorkerErrorFilters, ReleaseFilters, ReportFilters
     DEF WorkerThread
<1>18. CASE UNCHANGED vars
  BY <1>18 DEF vars, FilterInv, Recorded, IdleIsDone, JobsFit, JobFits, BufsFit, IndexFits, BlockFits, CacheFits, AtWork
<1> QED
  BY <1>1, <1>2, <1>3, <1>4, <1>5, <1>6, <1>7, <1>8, <1>9, <1>10, <1>11, <1>12, <1>13, <1>14, <1>15, <1>16, <1>17, <1>18
     DEF Next, AppThread

(* A Block is encoded with the filters that were in force when its input   *)
(* was taken (get_thread, stream_encoder_mt_update, worker_encode).        *)
THEOREM EncoderFiltersPerBlock == Spec => []FiltersPerBlock
  <1>1. Init => FilterInv
    BY FilterInit
  <1>2. TypeInv /\ Account /\ FilterInv /\ [Next]_vars => FilterInv'
    BY FilterStep
  <1>3. FilterInv => FiltersPerBlock
    <2> SUFFICES ASSUME FilterInv, ~unsettled, NEW b \in DOMAIN index, NEW u \in ToSet(index[b][1])
                 PROVE  index[b][2] = chain_of[u]
      BY DEF FiltersPerBlock
    <2>1. Fits(chain_of, index[b][1], index[b][2])
      BY DEF FilterInv, IndexFits, BlockFits
    <2>2. PICK k \in DOMAIN index[b][1] : u = index[b][1][k]
      BY DEF ToSet
    <2> QED BY <2>1, <2>2 DEF Fits
  <1> QED BY <1>1, <1>2, <1>3, EncoderAccount, PTL DEF Spec

-----------------------------------------------------------------------------
(* What a thread encoded is the beginning of what it was given, and it has *)
(* not said that it encoded more.                                          *)
Pieces ==
  \A w \in Worker :
    /\ Len(wl[w].content) <= Len(ws[w].in)
    /\ wl[w].content = SubSeq(ws[w].in, 1, Len(wl[w].content))
    /\ ws[w].progress_in <= Len(wl[w].content)

(* A Block is being fed. A thread done with a Block encoded all of it, and *)
(* is not being fed; the thread being fed has not been told of the end.    *)
Open == thr # None /\ pc # "assign"
Done(w) == wl[w].pc \in {"release", "report"} /\ wl[w].state = "FINISH"
Wholes   == \A w \in Worker : Done(w) => wl[w].content = ws[w].in /\ ~(Open /\ w = thr)
OpenRuns == Open => ws[thr].state # "FINISH"

(* Every thread was told to leave before they are joined.                  *)
Leaving == ~Alive => \A w \in 1 .. threads_initialized : ws[w].state = "EXIT"

ThreadInv == Pieces /\ Wholes /\ OpenRuns /\ Leaving

(* The call in progress, and how far the Stream has come.                  *)
Streaming == Settled /\ pending # "Error"
InBlocks  == {"read", "encode", "assign", "blockerror", "decide", "wait", "sleep"}
CallFits ==
  /\ pc \in InBlocks => sequence = "BLOCK"
  /\ pc # "app" => call.action = pending
  /\ pending = "End" => pc = "app"
  /\ sequence \in {"INDEX", "STREAM_FOOTER"} =>
       outq.active = <<>> /\ thr = None /\ pending \in {"FINISH", "End"}

(* Every Block that was begun is in the Index or queued, and all but the   *)
(* one being fed, which is not empty, are closed.                          *)
OpenBlock == IF Open THEN 1 ELSE 0
Counts ==
  /\ Promise!LastCut <= accepted
  /\ ~Open => Promise!LastCut = accepted
  /\ Open /\ ws[thr].state = "RUN" => Promise!LastCut < accepted \/ (pc = "encode" /\ call.avail > 0)
  /\ pc = "assign" => call.avail > 0
  /\ Len(index) <= Len(cuts)
  /\ Len(index) + Len(outq.active) = Len(cuts) + OpenBlock

(* Buffers are queued in the order of their Blocks, and what is finished   *)
(* is the Block.                                                           *)
IsBlock(b, content) == b \in 1 .. Len(cuts) /\ content = Promise!BlockData(b)
QueueFits ==
  \A i \in DOMAIN outq.active :
    /\ outq.active[i].job = <<inits, Len(index) + i>>
    /\ outq.active[i].finished => IsBlock(Len(index) + i, outq.active[i].ret[1])

(* A thread at work was given all of its Block, or what was accepted of    *)
(* the Block being fed.                                                    *)
FedSoFar(w) ==
  /\ ws[w].in = Promise!Interval(Promise!LastCut, accepted)
  /\ ws[w].outbuf[2] = Len(cuts) + 1 /\ Len(ws[w].in) < BlockSize
GivenTo(w) ==
  IF Open /\ w = thr THEN ws[w].state = "RUN" => FedSoFar(w)
  ELSE IsBlock(ws[w].outbuf[2], ws[w].in)
Given == \A w \in Worker : AtWork(w) => GivenTo(w)

DataInv ==
  /\ cuts \in Seq(Nat) /\ pending \in {"RUN", "End", "Error"} \cup Flushes
  /\ Streaming => CallFits /\ Counts /\ QueueFits /\ Given
-----------------------------------------------------------------------------
(* A prefix of a sequence; one that is continued; all of it.               *)
LEMMA Prefix ==
  ASSUME NEW S, NEW s \in Seq(S), NEW n \in 0 .. Len(s)
  PROVE  /\ SubSeq(s, 1, n) \in Seq(S) /\ Len(SubSeq(s, 1, n)) = n
         /\ \A i \in 1 .. n : SubSeq(s, 1, n)[i] = s[i]
  <1>1. \A i \in 1 .. n : s[i] \in S
    OBVIOUS
  <1>2. /\ SubSeq(s, 1, n) \in Seq(S) /\ Len(SubSeq(s, 1, n)) = IF 1 <= n THEN n - 1 + 1 ELSE 0
        /\ \A i \in 1 .. n - 1 + 1 : SubSeq(s, 1, n)[i] = s[1 + i - 1]
    <2>1. 1 \in Int /\ n \in Int
      OBVIOUS
    <2> QED  BY <1>1, <2>1, SubSeqProperties
  <1> QED  BY <1>2

LEMMA Continued ==
  ASSUME NEW S, NEW s \in Seq(S), NEW m \in Nat, NEW n \in Nat, NEW l \in 0 .. Len(s), l = m + n
  PROVE  SubSeq(s, 1, m) \o SubSeq(s, m + 1, l) = SubSeq(s, 1, l)
  <1>1. PICK a : a = SubSeq(s, 1, m)
    OBVIOUS
  <1>2. a \in Seq(S) /\ Len(a) = m /\ \A i \in 1 .. m : a[i] = s[i]
    BY <1>1, Prefix
  <1>3. PICK b : b = SubSeq(s, m + 1, l)
    OBVIOUS
  <1>4. b \in Seq(S) /\ Len(b) = n /\ \A i \in 1 .. n : b[i] = s[m + i]
    <2>1. \A i \in m + 1 .. l : s[i] \in S
      OBVIOUS
    <2>2. m + 1 \in Int /\ l \in Int
      OBVIOUS
    <2>3. /\ b \in Seq(S) /\ Len(b) = IF m + 1 <= l THEN l - (m + 1) + 1 ELSE 0
          /\ \A i \in 1 .. l - (m + 1) + 1 : b[i] = s[m + 1 + i - 1]
      BY <1>3, <2>1, <2>2, SubSeqProperties
    <2> QED  BY <2>3
  <1>5. PICK c : c = SubSeq(s, 1, l)
    OBVIOUS
  <1>6. c \in Seq(S) /\ Len(c) = l /\ \A i \in 1 .. l : c[i] = s[i]
    BY <1>5, Prefix
  <1>7. /\ a \o b \in Seq(S) /\ Len(a \o b) = m + n
        /\ \A i \in 1 .. m + n : (a \o b)[i] = IF i <= m THEN a[i] ELSE b[i - m]
    <2>1. ASSUME NEW x \in Seq(S), NEW y \in Seq(S)
          PROVE  /\ x \o y \in Seq(S) /\ Len(x \o y) = Len(x) + Len(y)
                 /\ \A i \in 1 .. Len(x) + Len(y) : (x \o y)[i] = IF i <= Len(x) THEN x[i] ELSE y[i - Len(x)]
      BY ONLY <2>1, ConcatProperties
    <2> QED  BY ONLY <1>2, <1>4, <2>1
  <1>8. ASSUME NEW i \in 1 .. l PROVE (a \o b)[i] = c[i]
    <2>1. CASE i <= m
      <3>1. i \in 1 .. m /\ i \in 1 .. m + n
        BY <2>1
      <3> QED  BY <1>2, <1>6, <1>7, <2>1, <3>1
    <2>2. CASE i > m
      <3>1. i - m \in 1 .. n /\ m + (i - m) = i
        BY <2>2
      <3>2. b[i - m] = s[m + (i - m)]
        BY <1>4, <3>1
      <3>3. (a \o b)[i] = b[i - m]
        BY <1>7, <2>2
      <3> QED  BY <1>6, <3>1, <3>2, <3>3
    <2>3. i \in Int /\ m \in Int
      OBVIOUS
    <2>4. i <= m \/ i > m
      BY ONLY <2>3
    <2> QED  BY <2>1, <2>2, <2>4
  <1>9. a \o b = c
    BY <1>6, <1>7, <1>8, SeqEqual
  <1> QED  BY <1>1, <1>3, <1>5, <1>9

LEMMA Everything == ASSUME NEW S, NEW s \in Seq(S) PROVE SubSeq(s, 1, Len(s)) = s
  <1>1. PICK n \in Nat : n = Len(s)
    OBVIOUS
  <1>2. PICK c : c = SubSeq(s, 1, n)
    OBVIOUS
  <1>3. c \in Seq(S) /\ Len(c) = n /\ \A i \in 1 .. n : c[i] = s[i]
    BY <1>1, <1>2, Prefix
  <1>4. c = s
    BY <1>1, <1>3, SeqEqual
  <1> QED  BY <1>1, <1>2, <1>4

(* The units of a Block, and how more are added.                           *)
LEMMA IntervalIs ==
  ASSUME NEW m \in Nat, NEW n \in Nat, m <= n
  PROVE  /\ Promise!Interval(m, n) \in Seq(Nat) /\ Len(Promise!Interval(m, n)) = n - m
         /\ \A i \in 1 .. n - m : Promise!Interval(m, n)[i] = m + i
  <1>1. PICK k \in Nat : k = n - m
    OBVIOUS
  <1>2. PICK s : s = [i \in 1 .. k |-> m + i]
    OBVIOUS
  <1>3. s \in [1 .. k -> Nat] /\ DOMAIN s = 1 .. k
    BY <1>2
  <1>4. s \in Seq(Nat) /\ Len(s) = k
    BY <1>3
  <1> QED BY <1>1, <1>2, <1>4 DEF Promise!Interval

LEMMA IntervalGrows ==
  ASSUME NEW m \in Nat, NEW a \in Nat, NEW n \in Nat, m <= a
  PROVE  Promise!Interval(m, a) \o [i \in 1 .. n |-> a + i] = Promise!Interval(m, a + n)
  <1>1. PICK s \in Seq(Nat) : s = Promise!Interval(m, a)
    BY IntervalIs
  <1>2. PICK k \in Nat : k = a - m
    OBVIOUS
  <1>3. Len(s) = k /\ \A i \in 1 .. k : s[i] = m + i
    BY <1>1, <1>2, IntervalIs
  <1>4. PICK t : t = [i \in 1 .. n |-> a + i]
    OBVIOUS
  <1>5. t \in Seq(Nat) /\ Len(t) = n /\ \A i \in 1 .. n : t[i] = a + i
    <2>1. t \in [1 .. n -> Nat] /\ DOMAIN t = 1 .. n
      BY <1>4
    <2> QED BY <1>4, <2>1
  <1>6. PICK b \in Nat : b = a + n /\ m <= b /\ b - m = k + n
    BY <1>2
  <1>7. PICK u \in Seq(Nat) : u = Promise!Interval(m, b) /\ Len(u) = k + n /\ \A i \in 1 .. k + n : u[i] = m + i
    <2>1. PICK u : u = Promise!Interval(m, b)
      OBVIOUS
    <2>2. u \in Seq(Nat) /\ Len(u) = b - m /\ \A i \in 1 .. b - m : u[i] = m + i
      BY <1>6, <2>1, IntervalIs
    <2> QED BY <1>6, <2>1, <2>2
  <1>8. /\ s \o t \in Seq(Nat) /\ Len(s \o t) = k + n
        /\ \A i \in 1 .. k + n : (s \o t)[i] = IF i <= k THEN s[i] ELSE t[i - k]
    <2>1. ASSUME NEW x \in Seq(Nat), NEW y \in Seq(Nat)
          PROVE  /\ x \o y \in Seq(Nat) /\ Len(x \o y) = Len(x) + Len(y)
                 /\ \A i \in 1 .. Len(x) + Len(y) : (x \o y)[i] = IF i <= Len(x) THEN x[i] ELSE y[i - Len(x)]
      BY ONLY <2>1, ConcatProperties
    <2>2. s \in Seq(Nat)
      BY <1>1
    <2> QED BY ONLY <1>3, <1>5, <2>1, <2>2
  <1>9. ASSUME NEW i \in 1 .. k + n PROVE (s \o t)[i] = u[i]
    <2>1. CASE i <= k
      <3>1. i \in 1 .. k
        BY <2>1
      <3> QED BY <1>3, <1>7, <1>8, <2>1, <3>1
    <2>2. CASE ~(i <= k)
      <3>1. i - k \in 1 .. n /\ a + (i - k) = m + i
        BY <1>2, <2>2
      <3>2. t[i - k] = a + (i - k)
        BY <1>5, <3>1
      <3>3. (s \o t)[i] = t[i - k]
        BY <1>8, <2>2
      <3> QED BY <1>7, <3>1, <3>2, <3>3
    <2> QED BY <2>1, <2>2
  <1>10. s \o t = u
    <2>1. PICK v : v = s \o t
      OBVIOUS
    <2>2. v \in Seq(Nat) /\ Len(v) = Len(u) /\ \A i \in 1 .. Len(v) : v[i] = u[i]
      BY <1>7, <1>8, <1>9, <2>1
    <2>3. v = u
      BY <1>7, <2>2, SeqEqual
    <2> QED BY <2>1, <2>3
  <1> QED BY <1>1, <1>4, <1>6, <1>7, <1>10

(* What is encoded stays the beginning of the input when more comes.       *)
LEMMA PrefixKept ==
  ASSUME NEW S, NEW s \in Seq(S), NEW t \in Seq(S), NEW k \in Nat, k <= Len(s)
  PROVE  SubSeq(s \o t, 1, k) = SubSeq(s, 1, k) /\ k <= Len(s \o t)
  <1>1. PICK u \in Seq(S) : u = s \o t /\ Len(u) = Len(s) + Len(t)
    BY ConcatProperties
  <1>2. \A i \in 1 .. Len(s) : u[i] = s[i]
    <2>1. ASSUME NEW x \in Seq(S), NEW y \in Seq(S)
          PROVE  /\ x \o y \in Seq(S) /\ Len(x \o y) = Len(x) + Len(y)
                 /\ \A i \in 1 .. Len(x) + Len(y) : (x \o y)[i] = IF i <= Len(x) THEN x[i] ELSE y[i - Len(x)]
      BY ONLY <2>1, ConcatProperties
    <2>2. PICK n \in Nat, m \in Nat : n = Len(s) /\ m = Len(t)
      OBVIOUS
    <2>3. \A i \in 1 .. n : i \in 1 .. n + m /\ i <= n
      OBVIOUS
    <2>4. \A i \in 1 .. n + m : (s \o t)[i] = IF i <= n THEN s[i] ELSE t[i - n]
      BY <2>1, <2>2
    <2> QED BY <1>1, <2>2, <2>3, <2>4
  <1>3. k \in 0 .. Len(s) /\ k \in 0 .. Len(u)
    BY <1>1
  <1>4. PICK a : a = SubSeq(u, 1, k)
    OBVIOUS
  <1>5. PICK b : b = SubSeq(s, 1, k)
    OBVIOUS
  <1>6. a \in Seq(S) /\ Len(a) = k /\ \A i \in 1 .. k : a[i] = u[i]
    BY <1>3, <1>4, Prefix
  <1>7. b \in Seq(S) /\ Len(b) = k /\ \A i \in 1 .. k : b[i] = s[i]
    BY <1>3, <1>5, Prefix
  <1>8. \A i \in 1 .. k : i \in 1 .. Len(s)
    OBVIOUS
  <1>9. \A i \in 1 .. k : a[i] = b[i]
    BY <1>2, <1>6, <1>7, <1>8
  <1>10. a = b
    BY <1>6, <1>7, <1>9, SeqEqual
  <1> QED BY <1>1, <1>3, <1>4, <1>5, <1>10

(* Types of what a worker and its thread hold.                             *)
LEMMA Holdings ==
  ASSUME TypeInv, NEW w \in Worker
  PROVE  /\ ws[w].in \in Seq(Nat) /\ Len(ws[w].in) \in Nat /\ Len(ws[w].in) <= BlockSize
         /\ wl[w].content \in Seq(Nat) /\ Len(wl[w].content) \in Nat
         /\ ws[w].progress_in \in Nat /\ ws[w].outbuf \in Nat \X Nat /\ ws[w].state \in States
         /\ wl[w].pc \in ThreadPlaces
  <1>1. ws[w] \in WorkerType /\ wl[w] \in ThreadType
    BY DEF TypeInv
  <1> QED BY <1>1 DEF WorkerType, ThreadType, Input

(* A thread that is told to stop or to leave keeps the rest.               *)
LEMMA Told ==
  ASSUME TypeInv, NEW x \in {"STOP", "EXIT"}, ws' = AllTold(x)
  PROVE  \A w \in Worker : /\ ws'[w].in = ws[w].in /\ ws'[w].outbuf = ws[w].outbuf
                           /\ ws'[w].progress_in = ws[w].progress_in
                           /\ ws'[w].state = IF w <= threads_initialized THEN x ELSE ws[w].state
  <1> SUFFICES ASSUME NEW w \in Worker
               PROVE  /\ ws'[w].in = ws[w].in /\ ws'[w].outbuf = ws[w].outbuf
                      /\ ws'[w].progress_in = ws[w].progress_in
                      /\ ws'[w].state = IF w <= threads_initialized THEN x ELSE ws[w].state
    OBVIOUS
  <1>1. PICK r \in WorkerType : r = ws[w]
    BY DEF TypeInv
  <1>2. PICK k : k = [r EXCEPT !.state = x]
    OBVIOUS
  <1>3. k.in = r.in /\ k.outbuf = r.outbuf /\ k.progress_in = r.progress_in /\ k.state = x
    BY <1>2, SetState DEF States
  <1>4. ws'[w] = IF w <= threads_initialized THEN k ELSE ws[w]
    BY <1>1, <1>2 DEF AllTold
  <1> QED BY <1>1, <1>3, <1>4

-----------------------------------------------------------------------------
(* ThreadInv: the application's thread gives no input but in FeedThread.   *)
LEMMA QuietThreads ==
  ASSUME TypeInv, ThreadInv, wl' = wl, ws' = ws \/ \E x \in {"STOP", "EXIT"} : ws' = AllTold(x),
         Open' => Open /\ thr' = thr, Leaving'
  PROVE  ThreadInv'
  <1>1. \A w \in Worker : /\ ws'[w].in = ws[w].in /\ ws'[w].progress_in = ws[w].progress_in
                          /\ ws'[w].state \in {ws[w].state, "STOP", "EXIT"}
    <2>1. CASE ws' = ws
      BY <2>1
    <2>2. ASSUME NEW x \in {"STOP", "EXIT"}, ws' = AllTold(x)
          PROVE  \A w \in Worker : /\ ws'[w].in = ws[w].in /\ ws'[w].progress_in = ws[w].progress_in
                                   /\ ws'[w].state \in {ws[w].state, "STOP", "EXIT"}
      BY <2>2, Told
    <2> QED BY <2>1, <2>2
  <1>2. Pieces'
    BY <1>1 DEF ThreadInv, Pieces
  <1>3. Wholes'
    BY <1>1 DEF ThreadInv, Wholes, Done
  <1>4. OpenRuns'
    <2>1. thr # None => thr \in Worker
      BY ThrIsMade
    <2> QED BY <1>1, <2>1 DEF ThreadInv, OpenRuns, Open
  <1> QED BY <1>2, <1>3, <1>4 DEF ThreadInv

LEMMA AssignThreads == ASSUME TypeInv, Account, FilterInv, ThreadInv, AssignThread PROVE ThreadInv'
  <1>1. wl' = wl /\ thr' = thr /\ threads_initialized' = threads_initialized /\ pc = "assign" /\ pc' = "encode"
    BY DEF AssignThread
  <1>2. thr \in Worker /\ thr # None /\ wl[thr].pc = "idle" /\ wl[thr].content = <<>>
    BY <1>1, QueueAssumption DEF Account, Chosen, TypeInv, Worker, FilterInv, IdleIsDone
  <1>3. PICK job : job = NextJob
    OBVIOUS
  <1>4. ws' = [ws EXCEPT ![thr] = Assigned(job)]
    BY <1>3, AssignedWorker
  <1>5. /\ \A w \in Worker : w # thr => ws'[w] = ws[w]
        /\ ws'[thr].state = "RUN" /\ ws'[thr].in = <<>> /\ ws'[thr].progress_in = ws[thr].progress_in
    BY <1>2, <1>4 DEF Assigned, TypeInv
  <1>6. Pieces'
    <2> SUFFICES ASSUME NEW w \in Worker
                 PROVE  /\ Len(wl[w].content) <= Len(ws'[w].in)
                        /\ wl[w].content = SubSeq(ws'[w].in, 1, Len(wl[w].content))
                        /\ ws'[w].progress_in <= Len(wl[w].content)
      BY <1>1 DEF Pieces
    <2>1. CASE w = thr
      <3>1. ws'[w].progress_in <= Len(wl[w].content)
        BY <1>5, <2>1 DEF ThreadInv, Pieces
      <3>2. Len(<<>>) = 0 /\ <<>> = SubSeq(<<>>, 1, 0)
        <4>1. <<>> \in Seq(Nat) /\ Len(<<>>) = 0
          OBVIOUS
        <4>2. PICK e \in Seq(Nat) : e = <<>> /\ Len(e) = 0
          BY <4>1
        <4>3. SubSeq(e, 1, 0) = e
          BY <4>2, Everything
        <4> QED BY <4>2, <4>3
      <3>3. PICK c : c = wl[w].content
        OBVIOUS
      <3>4. c = <<>> /\ ws'[w].in = <<>>
        BY <1>2, <1>5, <2>1, <3>3
      <3>5. Len(c) <= Len(ws'[w].in) /\ c = SubSeq(ws'[w].in, 1, Len(c))
        BY ONLY <3>2, <3>4
      <3> QED BY <3>1, <3>3, <3>5
    <2>2. CASE w # thr
      BY <1>5, <2>2 DEF ThreadInv, Pieces
    <2> QED BY <2>1, <2>2
  <1>7. Wholes'
    BY <1>1, <1>2, <1>5 DEF ThreadInv, Wholes, Done, Open
  <1>8. OpenRuns' /\ Leaving'
    BY <1>1, <1>5 DEF OpenRuns, Leaving, Alive
  <1> QED BY <1>6, <1>7, <1>8 DEF ThreadInv

-----------------------------------------------------------------------------
(* What a worker does with its Block until it reports: it encodes the next *)
(* of what it was given, and it is done only when that is all and the      *)
(* thread is not fed any more.                                             *)
Busy(w) == ws[w].state \in {"RUN", "FINISH"} \/ wl[w].pc \notin {"idle", "exited"}
Begins(s, t) == Len(s) <= Len(t) /\ s = SubSeq(t, 1, Len(s))
Works(w) ==
  /\ \A v \in Worker : v # w => wl'[v] = wl[v] /\ ws'[v] = ws[v]
  /\ ws'[w].in = ws[w].in /\ ws'[w].outbuf = ws[w].outbuf
  /\ ws'[w].state \in {ws[w].state, "IDLE"} /\ (ws[w].state = "EXIT" => ws'[w].state = "EXIT")
  /\ Begins(wl'[w].content, ws[w].in) /\ ws'[w].progress_in <= Len(wl'[w].content)
  /\ ws'[w].progress_in >= ws[w].progress_in
  /\ Done(w)' => wl'[w].content = ws[w].in /\ ~(Open /\ w = thr)
  /\ AtWork(w)' => AtWork(w) \/ ws[w].state = "EXIT"
  /\ Busy(w)' => Busy(w)
  /\ ~Busy(w) => ws'[w].progress_in = ws[w].progress_in

LEMMA WorkedThreads ==
  ASSUME TypeInv, ThreadInv, NEW w \in Worker, Works(w), UNCHANGED <<thr, threads_initialized>>,
         pc' = pc \/ pc' = Signalled
  PROVE  ThreadInv'
  <1>1. Pieces'
    BY DEF ThreadInv, Pieces, Works, Begins
  <1>2. Open' = Open /\ Alive' = Alive
    BY DEF Open, Alive, Signalled
  <1>3. Wholes'
    BY <1>2 DEF ThreadInv, Wholes, Works, Done
  <1>4. OpenRuns'
    <2>1. thr # None => thr \in Worker
      BY ThrIsMade
    <2> QED BY <1>2, <2>1 DEF ThreadInv, OpenRuns, Open, Works
  <1>5. Leaving'
    <2>1. 1 .. threads_initialized \subseteq Worker
      BY Made
    <2> QED BY <1>2, <2>1 DEF ThreadInv, Leaving, Works
  <1> QED BY <1>1, <1>3, <1>4, <1>5 DEF ThreadInv

(* The worker keeps what it has encoded, and is not done.                  *)
LEMMA KeptWorks ==
  ASSUME TypeInv, ThreadInv, NEW w \in Worker,
         \A v \in Worker : v # w => wl'[v] = wl[v] /\ ws'[v] = ws[v],
         ws'[w].in = ws[w].in, ws'[w].outbuf = ws[w].outbuf,
         ws'[w].state \in {ws[w].state, "IDLE"}, ws[w].state = "EXIT" => ws'[w].state = "EXIT",
         wl'[w].content = wl[w].content, ws'[w].progress_in \in {ws[w].progress_in, Len(wl[w].content)},
         Done(w)' => Done(w),
         AtWork(w)' => AtWork(w) \/ ws[w].state = "EXIT",
         Busy(w)' => Busy(w), ~Busy(w) => ws'[w].progress_in = ws[w].progress_in
  PROVE  Works(w)
  <1>1. /\ Len(wl[w].content) <= Len(ws[w].in) /\ wl[w].content = SubSeq(ws[w].in, 1, Len(wl[w].content))
        /\ ws[w].progress_in <= Len(wl[w].content)
    BY DEF ThreadInv, Pieces
  <1>2. ws[w].progress_in \in Nat /\ Len(wl[w].content) \in Nat
    BY Holdings
  <1>3. Begins(wl'[w].content, ws[w].in)
    BY <1>1 DEF Begins
  <1>4. ws'[w].progress_in <= Len(wl'[w].content) /\ ws'[w].progress_in >= ws[w].progress_in
    BY <1>1, <1>2
  <1>5. Done(w)' => wl'[w].content = ws[w].in /\ ~(Open /\ w = thr)
    BY DEF ThreadInv, Wholes
  <1> QED BY <1>3, <1>4, <1>5 DEF Works

LEMMA TakeCommandWorks ==
  ASSUME TypeInv, Account, FilterInv, ThreadInv, NEW w \in Worker, TakeCommand(w) PROVE Works(w)
  <1>1. wl[w].pc = "idle" /\ wl[w].content = <<>>
    BY DEF TakeCommand, FilterInv, IdleIsDone
  <1>2. PICK r \in WorkerType, x \in ThreadType : r = ws[w] /\ x = wl[w]
    BY DEF TypeInv
  <1>3. CASE ws[w].state = "STOP"
    <2>1. ws' = [ws EXCEPT ![w].state = "IDLE"] /\ wl' = wl
      BY <1>3 DEF TakeCommand
    <2>2. PICK k : k = [r EXCEPT !.state = "IDLE"]
      OBVIOUS
    <2>3. k.state = "IDLE" /\ k.in = r.in /\ k.outbuf = r.outbuf /\ k.progress_in = r.progress_in
      BY <2>2, SetState DEF States
    <2>4. ws' = [ws EXCEPT ![w] = k]
      BY <1>2, <2>1, <2>2 DEF TypeInv
    <2>5. (\A v \in Worker : v # w => ws'[v] = ws[v]) /\ ws'[w] = k
      BY <2>4 DEF TypeInv
    <2>6. ~Done(w)' /\ ~AtWork(w)' /\ ~Busy(w)'
      BY <1>1, <2>1, <2>3, <2>5 DEF Done, AtWork, Busy
    <2> QED BY <1>2, <1>3, <2>1, <2>3, <2>5, <2>6, KeptWorks
  <1>4. CASE ws[w].state = "EXIT"
    <2>1. ws' = ws /\ wl' = [wl EXCEPT ![w].pc = "exited"]
      BY <1>4 DEF TakeCommand
    <2>2. (\A v \in Worker : v # w => wl'[v] = wl[v]) /\ wl'[w].pc = "exited" /\ wl'[w].content = wl[w].content
      BY <2>1, MovedPlace DEF ThreadPlaces
    <2>3. ~Done(w)' /\ ~Busy(w)'
      BY <1>4, <2>1, <2>2 DEF Done, Busy
    <2> QED BY <1>4, <2>1, <2>2, <2>3, KeptWorks
  <1>5. CASE ws[w].state \in {"RUN", "FINISH"}
    <2>1. ws' = ws /\ wl' = [wl EXCEPT ![w] = [IdleThread EXCEPT !.pc = "run", !.state = ws[w].state]]
      BY <1>5 DEF TakeCommand
    <2>2. PICK k : k = [IdleThread EXCEPT !.pc = "run", !.state = r.state]
      OBVIOUS
    <2>3. k.pc = "run" /\ k.content = <<>>
      BY <2>2 DEF IdleThread
    <2>4. (\A v \in Worker : v # w => wl'[v] = wl[v]) /\ wl'[w] = k
      BY <1>2, <2>1, <2>2 DEF TypeInv
    <2>5. ~Done(w)' /\ AtWork(w) /\ Busy(w)
      BY <1>5, <2>3, <2>4 DEF Done, AtWork, Busy
    <2> QED BY <1>1, <2>1, <2>3, <2>4, <2>5, KeptWorks
  <1> QED BY <1>3, <1>4, <1>5 DEF TakeCommand

(* EncodeChunk appends the next of the input, up to all of it.             *)
LEMMA ChunkBegins ==
  ASSUME NEW s \in Seq(Nat), NEW c \in Seq(Nat), Begins(c, s), NEW k,
         k = c \o SubSeq(s, Len(c) + 1, Len(c) + SmallerOf(Len(s) - Len(c), ChunkMax))
  PROVE  /\ Begins(k, s) /\ Len(c) <= Len(k)
         /\ Len(c) + SmallerOf(Len(s) - Len(c), ChunkMax) = Len(s) => k = s
  <1>1. PICK m \in Nat, d \in Nat : m = Len(s) /\ d = Len(c) /\ d <= m
    <2>1. Len(s) \in Nat /\ Len(c) \in Nat /\ Len(c) <= Len(s)
      BY DEF Begins
    <2> QED BY <2>1
  <1>2. PICK n \in Nat : n = SmallerOf(m - d, ChunkMax) /\ d + n <= m
    <2>1. PICK max \in Nat : max = ChunkMax
      BY StreamEncoderAssumption
    <2>2. PICK j \in Nat : j = m - d
      <3>1. m - d \in Nat
        BY <1>1
      <3> QED BY <3>1
    <2>3. SmallerOf(j, max) \in Nat /\ SmallerOf(j, max) <= j
      BY DEF SmallerOf
    <2>4. PICK n \in Nat : n = SmallerOf(j, max)
      BY <2>3
    <2>5. d + n <= m
      BY <1>1, <2>2, <2>3, <2>4
    <2> QED BY <2>1, <2>2, <2>4, <2>5
  <1>3. PICK l \in 0 .. Len(s) : l = d + n
    BY <1>1, <1>2
  <1>4. c = SubSeq(s, 1, d)
    BY <1>1 DEF Begins
  <1>5. k = SubSeq(s, 1, d) \o SubSeq(s, d + 1, l)
    BY <1>1, <1>2, <1>3, <1>4
  <1>6. SubSeq(s, 1, d) \o SubSeq(s, d + 1, l) = SubSeq(s, 1, l)
    BY <1>3, Continued
  <1>7. Len(SubSeq(s, 1, l)) = l
    BY <1>3, Prefix
  <1>8. Len(k) = l /\ k = SubSeq(s, 1, l)
    BY <1>5, <1>6, <1>7
  <1>9. Begins(k, s) /\ d <= l
    <2>1. Len(k) <= Len(s)
      BY <1>1, <1>2, <1>3, <1>8
    <2>2. k = SubSeq(s, 1, Len(k))
      BY <1>8
    <2>3. d <= l
      BY <1>2, <1>3
    <2> QED BY <2>1, <2>2, <2>3 DEF Begins
  <1>10. l = m => k = s
    BY <1>1, <1>8, Everything
  <1> QED BY <1>1, <1>2, <1>3, <1>8, <1>9, <1>10

LEMMA EncodeChunkWorks ==
  ASSUME TypeInv, Account, FilterInv, ThreadInv, NEW w \in Worker, EncodeChunk(w) PROVE Works(w)
  <1>1. wl[w].pc = "run" /\ AtWork(w) /\ Busy(w)
    <2>1. wl[w].pc = "run"
      BY Zenon DEF EncodeChunk
    <2> QED BY <2>1 DEF AtWork, Busy
  <1>2. /\ \A v \in Worker : v # w => ws'[v] = ws[v]
        /\ ws'[w].state = ws[w].state /\ ws'[w].in = ws[w].in /\ ws'[w].outbuf = ws[w].outbuf
        /\ ws'[w].progress_in = Len(wl[w].content)
    <2>1. PICK r \in WorkerType : r = ws[w]
      BY DEF TypeInv
    <2>2. PICK done \in Nat : done = Len(wl[w].content)
      BY Holdings
    <2>3. PICK k : k = [r EXCEPT !.progress_in = done]
      OBVIOUS
    <2>4. k.state = r.state /\ k.in = r.in /\ k.outbuf = r.outbuf /\ k.progress_in = done
      BY <2>3, SetProgress
    <2>5. ws' = [ws EXCEPT ![w].progress_in = done]
      BY <2>2, EncodeStep
    <2>6. ws' = [ws EXCEPT ![w] = k]
      BY <2>1, <2>3, <2>5 DEF TypeInv
    <2> QED BY <2>1, <2>2, <2>4, <2>6 DEF TypeInv
  <1>3. CASE ws[w].state \in {"STOP", "EXIT"} /\ wl' = Leave(w, ws[w].state)
    <2>1. /\ \A v \in Worker : v # w => wl'[v] = wl[v]
          /\ wl'[w].content = wl[w].content /\ wl'[w].state = ws[w].state
      BY <1>3, LeftPlace DEF States
    <2>2. ~Done(w)'
      BY <1>3, <2>1 DEF Done
    <2> QED BY <1>1, <1>2, <2>1, <2>2, KeptWorks
  <1>4. CASE /\ ws[w].state \in {"RUN", "FINISH"}
             /\ \E place \in {"release", "run"}, state \in {"FINISH", "RUN"}, size \in Nat :
                    /\ wl' = [wl EXCEPT ![w] = Chunked(w, place, state, size)]
                    /\ place = "release" => state = "FINISH" /\ ws[w].state = "FINISH" /\ Completes(w)
    <2>1. PICK place \in {"release", "run"}, state \in {"FINISH", "RUN"}, size \in Nat :
                    /\ wl' = [wl EXCEPT ![w] = Chunked(w, place, state, size)]
                    /\ place = "release" => state = "FINISH" /\ ws[w].state = "FINISH" /\ Completes(w)
      BY <1>4
    <2>2. /\ \A v \in Worker : v # w => wl'[v] = wl[v]
          /\ wl'[w] = Chunked(w, place, state, size)
      BY <2>1 DEF TypeInv
    <2>3. PICK s \in Seq(Nat), c \in Seq(Nat) : s = ws[w].in /\ c = wl[w].content
      BY Holdings
    <2>4. Begins(c, s)
      BY <2>3 DEF ThreadInv, Pieces, Begins
    <2>5. PICK k : k = c \o SubSeq(s, Len(c) + 1, Len(c) + SmallerOf(Len(s) - Len(c), ChunkMax))
      OBVIOUS
    <2>6. wl'[w].content = k /\ wl'[w].pc = place
      <3>1. Chunked(w, place, state, size) = [pc |-> place, state |-> state, size |-> size, content |-> k]
        BY <2>3, <2>5 DEF Chunked
      <3> QED BY <2>2, <3>1
    <2>7. /\ Begins(k, s) /\ Len(c) <= Len(k)
          /\ Len(c) + SmallerOf(Len(s) - Len(c), ChunkMax) = Len(s) => k = s
      BY <2>4, <2>5, ChunkBegins
    <2>8. Done(w)' => wl'[w].content = ws[w].in /\ ~(Open /\ w = thr)
      <3> SUFFICES ASSUME Done(w)' PROVE wl'[w].content = ws[w].in /\ ~(Open /\ w = thr)
        OBVIOUS
      <3>1. place = "release"
        BY <2>6 DEF Done
      <3>2. Completes(w) /\ ws[w].state = "FINISH"
        BY <2>1, <3>1
      <3>3. wl'[w].content = ws[w].in
        BY <2>3, <2>6, <2>7, <3>2 DEF Completes
      <3> QED BY <3>2, <3>3 DEF ThreadInv, OpenRuns
    <2>9. ws'[w].progress_in >= ws[w].progress_in
      BY <1>2, Holdings DEF ThreadInv, Pieces
    <2> QED BY <1>1, <1>2, <2>2, <2>3, <2>6, <2>7, <2>8, <2>9 DEF Works
  <1>5. CASE wl' = [wl EXCEPT ![w].pc = "fail"] \/ wl' = [wl EXCEPT ![w].pc = "full"]
    <2>1. PICK place \in {"fail", "full"} : wl' = [wl EXCEPT ![w].pc = place]
      BY <1>5
    <2>2. place \in ThreadPlaces
      BY DEF ThreadPlaces
    <2>3. (\A v \in Worker : v # w => wl'[v] = wl[v]) /\ wl'[w].content = wl[w].content /\ wl'[w].pc = place
      BY <2>1, <2>2, MovedPlace
    <2>4. ~Done(w)'
      BY <2>3 DEF Done
    <2> QED BY <1>1, <1>2, <2>3, <2>4, KeptWorks
  <1> QED BY <1>3, <1>4, <1>5, EncodeStep

LEMMA StoreBlockWorks ==
  ASSUME TypeInv, Account, FilterInv, ThreadInv, NEW w \in Worker, StoreBlock(w) PROVE Works(w)
  <1>1. wl[w].pc = "full" /\ AtWork(w) /\ Busy(w) /\ ws' = ws
    BY DEF StoreBlock, AtWork, Busy
  <1>2. ws[w].state # "IDLE"
    BY <1>1 DEF FilterInv, IdleIsDone
  <1>3. CASE ws[w].state \in {"STOP", "EXIT"} /\ wl' = Leave(w, ws[w].state)
    <2>1. /\ \A v \in Worker : v # w => wl'[v] = wl[v]
          /\ wl'[w].content = wl[w].content /\ wl'[w].state = ws[w].state
      BY <1>3, LeftPlace DEF States
    <2>2. ~Done(w)'
      BY <1>3, <2>1 DEF Done
    <2> QED BY <1>1, <2>1, <2>2, KeptWorks
  <1>4. CASE /\ ws[w].state \notin {"RUN", "STOP", "EXIT"}
             /\ wl' = [wl EXCEPT ![w] = [pc |-> "release", state |-> "FINISH", content |-> ws[w].in, size |-> BufSize]]
    <2>1. ws[w].state = "FINISH"
      BY <1>2, <1>4, Holdings DEF States
    <2>2. (\A v \in Worker : v # w => wl'[v] = wl[v]) /\ wl'[w].content = ws[w].in
      BY <1>4 DEF TypeInv
    <2>3. PICK s \in Seq(Nat), n \in Nat : s = ws[w].in /\ n = Len(s)
      BY Holdings
    <2>4. Begins(wl'[w].content, ws[w].in)
      BY <2>2, <2>3, Everything DEF Begins
    <2>5. ws'[w].progress_in <= Len(wl'[w].content)
      <3>1. ws[w].progress_in <= Len(wl[w].content) /\ Len(wl[w].content) <= Len(ws[w].in)
        BY DEF ThreadInv, Pieces
      <3>2. ws[w].progress_in \in Nat /\ Len(wl[w].content) \in Nat /\ Len(ws[w].in) \in Nat
        BY Holdings
      <3>3. ws'[w].progress_in = ws[w].progress_in /\ Len(wl'[w].content) = Len(ws[w].in)
        BY <1>1, <2>2
      <3> QED BY <3>1, <3>2, <3>3
    <2>6. ~(Open /\ w = thr)
      BY <2>1 DEF ThreadInv, OpenRuns
    <2> QED BY <1>1, <2>2, <2>4, <2>5, <2>6, Holdings DEF Works
  <1>5. CASE wl' = [wl EXCEPT ![w].pc = "fail"]
    <2>1. (\A v \in Worker : v # w => wl'[v] = wl[v]) /\ wl'[w].content = wl[w].content /\ wl'[w].pc = "fail"
      BY <1>5, MovedPlace DEF ThreadPlaces
    <2>2. ~Done(w)'
      BY <2>1 DEF Done
    <2> QED BY <1>1, <2>1, <2>2, KeptWorks
  <1> QED BY <1>3, <1>4, <1>5, StoreStep

LEMMA WorkerErrorWorks ==
  ASSUME TypeInv, Account, FilterInv, ThreadInv, NEW w \in Worker, WorkerError(w) PROVE Works(w)
  <1>1. wl[w].pc = "fail" /\ AtWork(w) /\ Busy(w) /\ ws' = ws
    BY DEF WorkerError, AtWork, Busy
  <1>2. /\ \A v \in Worker : v # w => wl'[v] = wl[v]
        /\ wl'[w].content = wl[w].content /\ wl'[w].state = "STOP"
    BY LeftPlace DEF WorkerError, States
  <1>3. ~Done(w)'
    BY <1>2 DEF Done
  <1> QED BY <1>1, <1>2, <1>3, KeptWorks

LEMMA ReleaseWorks ==
  ASSUME TypeInv, Account, FilterInv, ThreadInv, NEW w \in Worker, Release(w) PROVE Works(w)
  <1>1. wl[w].pc = "release" /\ AtWork(w) /\ Busy(w)
    BY DEF Release, AtWork, Busy
  <1>2. /\ \A v \in Worker : v # w => wl'[v] = wl[v]
        /\ wl'[w].pc = "report" /\ wl'[w].content = wl[w].content /\ wl'[w].state = wl[w].state
    BY MovedPlace DEF Release, ThreadPlaces
  <1>3. /\ \A v \in Worker : v # w => ws'[v] = ws[v]
        /\ ws'[w].state = IdleUnlessExit(ws[w].state) /\ ws'[w].in = ws[w].in /\ ws'[w].outbuf = ws[w].outbuf
        /\ ws'[w].progress_in = ws[w].progress_in
    <2>1. PICK r \in WorkerType : r = ws[w]
      BY DEF TypeInv
    <2>2. PICK s \in {"IDLE", "EXIT"} : s = IdleUnlessExit(r.state)
      BY DEF IdleUnlessExit
    <2>3. PICK k : k = [r EXCEPT !.state = s]
      OBVIOUS
    <2>4. k.state = s /\ k.in = r.in /\ k.outbuf = r.outbuf /\ k.progress_in = r.progress_in
      BY <2>3, SetState DEF States
    <2>5. ws' = [ws EXCEPT ![w] = k]
      BY <2>1, <2>2, <2>3 DEF Release, TypeInv
    <2> QED BY <2>1, <2>2, <2>4, <2>5 DEF TypeInv
  <1>4. ws'[w].state \in {ws[w].state, "IDLE"} /\ (ws[w].state = "EXIT" => ws'[w].state = "EXIT")
    BY <1>3 DEF IdleUnlessExit
  <1>5. Done(w)' => Done(w)
    BY <1>1, <1>2 DEF Done
  <1> QED BY <1>1, <1>2, <1>3, <1>4, <1>5, KeptWorks

-----------------------------------------------------------------------------
(* A thread that reports is idle, and what it was given is left as it is.  *)
LEMMA Reported ==
  ASSUME TypeInv, NEW w \in Worker, Report(w)
  PROVE  /\ \A v \in Worker : v # w => wl'[v] = wl[v] /\ ws'[v] = ws[v]
         /\ ws'[w].in = ws[w].in /\ ws'[w].outbuf = ws[w].outbuf /\ ws'[w].state = ws[w].state
         /\ ws'[w].progress_in = 0 /\ wl'[w] = IdleThread /\ wl[w].pc = "report"
  <1>1. PICK r \in WorkerType : r = ws[w]
    BY DEF TypeInv
  <1>2. PICK z \in Nat : z = 0
    OBVIOUS
  <1>3. PICK k : k = [r EXCEPT !.progress_in = z]
    OBVIOUS
  <1>4. k.state = r.state /\ k.in = r.in /\ k.outbuf = r.outbuf /\ k.progress_in = z
    BY <1>3, SetProgress
  <1>5. ws' = [ws EXCEPT ![w] = k] /\ wl' = [wl EXCEPT ![w] = IdleThread] /\ wl[w].pc = "report"
    BY <1>1, <1>2, <1>3 DEF Report, TypeInv
  <1> QED BY <1>1, <1>2, <1>4, <1>5 DEF TypeInv

LEMMA NoneBegins == ASSUME NEW s \in Seq(Nat) PROVE Begins(<<>>, s)
  <1>1. <<>> \in Seq(Nat) /\ Len(<<>>) = 0
    OBVIOUS
  <1>2. PICK e \in Seq(Nat) : e = <<>> /\ Len(e) = 0
    BY <1>1
  <1>3. PICK t : t = SubSeq(s, 1, 0)
    OBVIOUS
  <1>4. t \in Seq(Nat) /\ Len(t) = 0
    BY <1>3, Prefix
  <1>5. e = t
    BY <1>2, <1>4, SeqEqual
  <1>6. 0 <= Len(s)
    OBVIOUS
  <1> QED BY <1>2, <1>3, <1>5, <1>6 DEF Begins

LEMMA ReportThreads ==
  ASSUME TypeInv, ThreadInv, NEW w \in Worker, Report(w) PROVE ThreadInv'
  <1>1. /\ \A v \in Worker : v # w => wl'[v] = wl[v] /\ ws'[v] = ws[v]
        /\ ws'[w].in = ws[w].in /\ ws'[w].state = ws[w].state
        /\ ws'[w].progress_in = 0 /\ wl'[w].content = <<>> /\ wl'[w].pc = "idle"
    BY Reported DEF IdleThread
  <1>2. thr' = thr /\ threads_initialized' = threads_initialized /\ pc' = Signalled
    BY DEF Report, coder
  <1>3. Pieces'
    <2>1. ws[w].in \in Seq(Nat)
      BY Holdings
    <2>2. Begins(<<>>, ws[w].in) /\ Len(<<>>) = 0
      BY <2>1, NoneBegins
    <2>3. /\ Len(wl'[w].content) <= Len(ws'[w].in) /\ wl'[w].content = SubSeq(ws'[w].in, 1, Len(wl'[w].content))
          /\ ws'[w].progress_in <= Len(wl'[w].content)
      <3>1. PICK e : e = <<>>
        OBVIOUS
      <3>2. Len(e) <= Len(ws[w].in) /\ e = SubSeq(ws[w].in, 1, Len(e)) /\ 0 <= Len(e)
        BY <2>2, <3>1 DEF Begins
      <3>3. wl'[w].content = e /\ ws'[w].in = ws[w].in /\ ws'[w].progress_in = 0
        BY <1>1, <3>1
      <3> QED BY ONLY <3>2, <3>3
    <2> QED BY <1>1, <2>3 DEF ThreadInv, Pieces
  <1>4. Open' = Open /\ Alive' = Alive
    BY <1>2 DEF Open, Alive, Signalled
  <1>5. Wholes'
    BY <1>1, <1>2, <1>4 DEF ThreadInv, Wholes, Done
  <1>6. OpenRuns'
    <2>1. thr # None => thr \in Worker
      BY ThrIsMade
    <2> QED BY <1>1, <1>2, <1>4, <2>1 DEF ThreadInv, OpenRuns, Open
  <1>7. Leaving'
    <2>1. 1 .. threads_initialized \subseteq Worker
      BY Made
    <2> QED BY <1>1, <1>2, <1>4, <2>1 DEF ThreadInv, Leaving
  <1> QED BY <1>3, <1>5, <1>6, <1>7 DEF ThreadInv

-----------------------------------------------------------------------------
(* FeedThread gives n units to the thread, and closes its Block or not.    *)
Feeds(n, more, done) ==
  /\ n <= call.avail /\ Len(ws[thr].in) + n <= BlockSize
  /\ n = BlockSize - Len(ws[thr].in) \/ n = call.avail
  /\ done = ClosesBlock(Len(ws[thr].in) + n, call.avail - n)
  /\ accepted' = accepted + n /\ more = [i \in 1 .. n |-> accepted + i] /\ Len(more) = n
  /\ call'.avail = call.avail - n /\ call'.action = call.action
  /\ \A v \in Worker : v # thr => ws'[v] = ws[v]
  /\ ws[thr].state = "IDLE" => pc' = "blockerror" /\ UNCHANGED <<thr, ws, cuts>>
  /\ ws[thr].state # "IDLE" =>
       /\ ws'[thr].in = ws[thr].in \o more /\ ws'[thr].outbuf = ws[thr].outbuf
       /\ ws'[thr].progress_in = ws[thr].progress_in
       /\ ws'[thr].state = IF done THEN "FINISH" ELSE ws[thr].state
       /\ thr' = (IF done THEN None ELSE thr) /\ pc' = pc
       /\ cuts' = IF done THEN Append(cuts, accepted + n) ELSE cuts

LEMMA FedMore ==
  ASSUME TypeInv, FeedThread
  PROVE  \E n \in Nat, more \in Seq(Nat), done \in BOOLEAN : Feeds(n, more, done)
  <1>1. thr \in Worker
    BY ThrIsMade DEF FeedThread
  <1>2. PICK r \in WorkerType : r = ws[thr]
    BY <1>1 DEF TypeInv
  <1>3. r.in \in Seq(Nat) /\ Len(r.in) \in Nat /\ Len(r.in) <= BlockSize /\ call.avail \in Nat /\ BlockSize \in Nat /\ accepted \in Nat
    BY StreamEncoderAssumption DEF WorkerType, Input, TypeInv
  <1>4. PICK n : n = CopySize(BlockSize - Len(r.in), call.avail)
    OBVIOUS
  <1>5. n \in Nat /\ n <= call.avail /\ Len(r.in) + n <= BlockSize
    BY <1>3, <1>4, CopySizeFits
  <1>6. n = BlockSize - Len(r.in) \/ n = call.avail
    BY <1>4 DEF CopySize, SmallerOf
  <1>7. PICK more : more = [i \in 1 .. n |-> accepted + i]
    OBVIOUS
  <1>8. more \in Seq(Nat) /\ Len(more) = n
    BY <1>3, <1>5, <1>7
  <1>9. PICK done \in BOOLEAN : done = ClosesBlock(Len(r.in) + n, call.avail - n)
    BY DEF ClosesBlock
  <1>10. PICK state \in States : state = IF done THEN "FINISH" ELSE r.state
    BY DEF WorkerType, States
  <1>11. /\ accepted' = accepted + n
         /\ call' = [call EXCEPT !.avail = @ - n]
         /\ IF ws[thr].state = "IDLE"
            THEN pc' = "blockerror" /\ UNCHANGED <<thr, ws, cuts>>
            ELSE /\ ws' = [ws EXCEPT ![thr].in = @ \o more, ![thr].state = IF done THEN "FINISH" ELSE @]
                 /\ thr' = IF done THEN None ELSE thr
                 /\ cuts' = IF done THEN Append(cuts, accepted + n) ELSE cuts
                 /\ UNCHANGED pc
    <2>1. ClosesBlock(Len(ws[thr].in) + n, call.avail - n) = done
      BY <1>2, <1>9
    <2>2. n = CopySize(BlockSize - Len(ws[thr].in), call.avail)
      BY <1>2, <1>4
    <2>3. /\ accepted' = accepted + n
          /\ call' = [call EXCEPT !.avail = @ - n]
          /\ IF ws[thr].state = "IDLE"
             THEN pc' = "blockerror" /\ UNCHANGED <<thr, ws, cuts>>
             ELSE /\ ws' = [ws EXCEPT ![thr].in = @ \o [i \in 1 .. n |-> accepted + i],
                             ![thr].state = IF ClosesBlock(Len(ws[thr].in) + n, call.avail - n) THEN "FINISH" ELSE @]
                  /\ thr' = IF ClosesBlock(Len(ws[thr].in) + n, call.avail - n) THEN None ELSE thr
                  /\ cuts' = IF ClosesBlock(Len(ws[thr].in) + n, call.avail - n) THEN Append(cuts, accepted + n) ELSE cuts
                  /\ UNCHANGED pc
      BY <2>2 DEF FeedThread
    <2> QED BY <1>7, <2>1, <2>3
  <1>12. PICK u \in Input : u = r.in \o more
    <2>1. r.in \o more \in Seq(Nat) /\ Len(r.in \o more) = Len(r.in) + Len(more)
      BY <1>3, <1>8, ConcatProperties
    <2> QED BY <1>5, <1>8, <2>1 DEF Input
  <1>13. PICK k1 : k1 = [r EXCEPT !.in = u]
    OBVIOUS
  <1>14. PICK k : k = [k1 EXCEPT !.state = state]
    OBVIOUS
  <1>15. k1 \in WorkerType /\ k1.in = u /\ k1.outbuf = r.outbuf /\ k1.progress_in = r.progress_in
    BY <1>13, SetIn
  <1>16. k.in = u /\ k.outbuf = r.outbuf /\ k.progress_in = r.progress_in /\ k.state = state
    BY <1>14, <1>15, SetState
  <1>17. [ws EXCEPT ![thr].in = @ \o more, ![thr].state = IF done THEN "FINISH" ELSE @] = [ws EXCEPT ![thr] = k]
    BY <1>1, <1>2, <1>10, <1>12, <1>13, <1>14 DEF TypeInv
  <1>18. ws[thr].state # "IDLE" => ws'[thr] = k /\ \A v \in Worker : v # thr => ws'[v] = ws[v]
    <2>1. ws[thr].state # "IDLE" => ws' = [ws EXCEPT ![thr] = k]
      BY <1>11, <1>17
    <2> QED BY <1>1, <2>1 DEF TypeInv
  <1>19. call'.avail = call.avail - n /\ call'.action = call.action
    <2>1. call = [action |-> call.action, avail |-> call.avail, space |-> call.space]
      BY DEF TypeInv
    <2> QED BY <1>11, <2>1
  <1>20. ws[thr].state = "IDLE" => pc' = "blockerror" /\ UNCHANGED <<thr, ws, cuts>>
    BY <1>11
  <1>21. ws[thr].state # "IDLE" =>
       /\ ws'[thr].in = ws[thr].in \o more /\ ws'[thr].outbuf = ws[thr].outbuf
       /\ ws'[thr].progress_in = ws[thr].progress_in
       /\ ws'[thr].state = IF done THEN "FINISH" ELSE ws[thr].state
       /\ thr' = (IF done THEN None ELSE thr) /\ pc' = pc
       /\ cuts' = IF done THEN Append(cuts, accepted + n) ELSE cuts
    BY <1>2, <1>10, <1>11, <1>12, <1>16, <1>18
  <1>22. \A v \in Worker : v # thr => ws'[v] = ws[v]
    BY <1>18, <1>20
  <1>23. Feeds(n, more, done)
    BY <1>2, <1>5, <1>6, <1>7, <1>8, <1>9, <1>11, <1>19, <1>20, <1>21, <1>22 DEF Feeds
  <1> QED BY <1>5, <1>8, <1>23

LEMMA FeedThreads == ASSUME TypeInv, Account, ThreadInv, FeedThread PROVE ThreadInv'
  <1>1. PICK n \in Nat, more \in Seq(Nat), done \in BOOLEAN : Feeds(n, more, done)
    BY FedMore
  <1>2. thr \in Worker /\ pc = "encode" /\ thr # None /\ wl' = wl /\ threads_initialized' = threads_initialized
    BY ThrIsMade DEF FeedThread
  <1>3. Open /\ Alive /\ Alive' /\ pc' \in {"encode", "blockerror"} /\ thr' \in {None, thr}
    BY <1>1, <1>2 DEF Open, Alive, Feeds
  <1>4. CASE ws[thr].state = "IDLE"
    <2>1. ws' = ws /\ thr' = thr /\ Open'
      BY <1>1, <1>2, <1>3, <1>4 DEF Feeds, Open
    <2> QED BY <1>2, <1>3, <2>1 DEF ThreadInv, Pieces, Wholes, OpenRuns, Leaving, Done
  <1>5. CASE ws[thr].state # "IDLE"
    <2>1. /\ ws'[thr].in = ws[thr].in \o more /\ ws'[thr].progress_in = ws[thr].progress_in
          /\ ws'[thr].state = IF done THEN "FINISH" ELSE ws[thr].state
          /\ thr' = IF done THEN None ELSE thr
          /\ \A v \in Worker : v # thr => ws'[v] = ws[v]
      BY <1>1, <1>5 DEF Feeds
    <2>2. Pieces'
      <3>1. Begins(wl[thr].content, ws[thr].in) /\ ws[thr].progress_in <= Len(wl[thr].content)
        BY <1>2 DEF ThreadInv, Pieces, Begins
      <3>2. PICK s \in Seq(Nat), k \in Nat : s = ws[thr].in /\ k = Len(wl[thr].content)
        BY <1>2, Holdings
      <3>3. k <= Len(s) /\ wl[thr].content = SubSeq(s, 1, k)
        BY <3>1, <3>2 DEF Begins
      <3>4. SubSeq(s \o more, 1, k) = SubSeq(s, 1, k) /\ k <= Len(s \o more)
        BY <3>3, PrefixKept
      <3>5. /\ Len(wl'[thr].content) <= Len(ws'[thr].in)
            /\ wl'[thr].content = SubSeq(ws'[thr].in, 1, Len(wl'[thr].content))
            /\ ws'[thr].progress_in <= Len(wl'[thr].content)
        BY <1>2, <2>1, <3>1, <3>2, <3>3, <3>4
      <3> QED BY <1>2, <2>1, <3>5 DEF ThreadInv, Pieces
    <2>3. Wholes'
      <3>1. ~Done(thr)
        BY <1>2, <1>3 DEF ThreadInv, Wholes
      <3>2. \A v \in Worker : Done(v)' => v # thr /\ Done(v)
        BY <1>2, <3>1 DEF Done
      <3> QED BY <1>2, <1>3, <2>1, <3>2 DEF ThreadInv, Wholes, Open
    <2>4. OpenRuns'
      <3>1. ws[thr].state # "FINISH"
        BY <1>3 DEF ThreadInv, OpenRuns
      <3> QED BY <2>1, <3>1 DEF OpenRuns, Open
    <2> QED BY <1>3, <2>2, <2>3, <2>4 DEF ThreadInv, Leaving
  <1> QED BY <1>4, <1>5

-----------------------------------------------------------------------------
(* What the workers leave alone.                                           *)
LEMMA WorkerKeeps ==
  ASSUME NEW w \in Worker, WorkerThread(w)
  PROVE  /\ UNCHANGED <<setup, call, pending, ret, sequence, thr, filters, filters_cache, index,
                        threads_initialized, inits, accepted, cuts, chain_of, unsettled>>
         /\ pc' = pc \/ pc' = Signalled
         /\ ~Report(w) => outq' = outq /\ progress_in' = progress_in
  <1>1. CASE TakeCommand(w)
    BY <1>1 DEF TakeCommand, app, coder, shared
  <1>2. CASE EncodeChunk(w)
    BY <1>2, Zenon DEF EncodeChunk, app, coder, shared, hist
  <1>3. CASE StoreBlock(w)
    BY <1>3 DEF StoreBlock, app, coder, shared, hist
  <1>4. CASE WorkerError(w)
    BY <1>4 DEF WorkerError, app, coder, hist
  <1>5. CASE Release(w)
    BY <1>5 DEF Release, app, coder, shared, hist
  <1>6. CASE Report(w)
    BY <1>6 DEF Report, app, coder, hist
  <1> QED BY <1>1, <1>2, <1>3, <1>4, <1>5, <1>6 DEF WorkerThread

LEMMA ThreadInit == Init => ThreadInv
  <1> SUFFICES ASSUME Init PROVE ThreadInv
    OBVIOUS
  <1>1. \A w \in Worker : ws[w] = IdleWorker /\ wl[w] = IdleThread
    BY DEF Init
  <1>2. thr = None /\ pc = "app"
    BY DEF Init
  <1>3. Pieces
    <2>1. PICK e \in Seq(Nat) : e = <<>> /\ Len(e) = 0
      <3>1. <<>> \in Seq(Nat) /\ Len(<<>>) = 0
        OBVIOUS
      <3> QED BY <3>1
    <2>2. Begins(e, e)
      BY <2>1, NoneBegins
    <2>3. \A w \in Worker : wl[w].content = e /\ ws[w].in = e /\ ws[w].progress_in = 0
      BY <1>1, <2>1 DEF IdleWorker, IdleThread
    <2> QED BY <2>1, <2>2, <2>3 DEF Pieces, Begins
  <1>4. Wholes
    BY <1>1 DEF Wholes, Done, IdleThread
  <1> QED BY <1>2, <1>3, <1>4 DEF ThreadInv, OpenRuns, Open, Leaving, Alive

LEMMA ThreadStep == TypeInv /\ Account /\ FilterInv /\ ThreadInv /\ [Next]_vars => ThreadInv'
  <1> SUFFICES ASSUME TypeInv, Account, FilterInv, ThreadInv, [Next]_vars PROVE ThreadInv'
    OBVIOUS
  <1>1. CASE \/ Call \/ UpdateFilters \/ CopyFixed \/ FedAll \/ Decide \/ Wait \/ TimeOut
    <2>1. UNCHANGED <<ws, wl, thr, threads_initialized>> /\ pc \notin {"assign", "join", "ended"} /\ pc' \notin {"assign", "join", "ended"}
      BY <1>1 DEF Call, UpdateFilters, CopyFixed, FedAll, Decide, Wait, TimeOut, Proceed, Return, coder, shared
    <2>2. Open' = Open /\ Leaving'
      BY <2>1 DEF Open, Leaving, Alive
    <2> QED BY <2>1, <2>2, QuietThreads
  <1>2. CASE ReadOutput \/ BlockError \/ GetThread
    <2>1. wl' = wl /\ (ws' = ws \/ ws' = AllTold("STOP"))
      BY <1>2 DEF ReadOutput, BlockError, GetThread, StopAndFail, Proceed
    <2>2. pc' \notin {"join", "ended"} /\ pc \notin {"assign", "join", "ended"}
      BY <1>2 DEF ReadOutput, BlockError, GetThread, StopAndFail, Proceed, Return
    <2>3. thr' = thr \/ (pc' = "assign" /\ GetThread)
      BY <1>2 DEF ReadOutput, BlockError, GetThread, coder, Proceed
    <2>4. Open' => Open /\ thr' = thr
      BY <2>2, <2>3 DEF Open
    <2>5. Leaving'
      BY <2>2 DEF Leaving, Alive
    <2> QED BY <2>1, <2>4, <2>5, QuietThreads
  <1>3. CASE AssignThread
    BY <1>3, AssignThreads
  <1>4. CASE FeedThread
    BY <1>4, FeedThreads
  <1>5. CASE Reinit
    <2>1. wl' = wl /\ ws' = AllTold("STOP") /\ thr' = thr /\ pc = "app" /\ pc' = "settle"
      BY <1>5 DEF Reinit, coder
    <2>2. (Open' => Open /\ thr' = thr) /\ Leaving'
      BY <2>1 DEF Open, Leaving, Alive
    <2> QED BY <2>1, <2>2, QuietThreads
  <1>6. CASE Restart
    <2>1. wl' = wl /\ ws' = ws /\ thr' = None /\ pc' = "app"
      BY <1>6 DEF Restart
    <2>2. (Open' => Open /\ thr' = thr) /\ Leaving'
      BY <2>1 DEF Open, Leaving, Alive
    <2> QED BY <2>1, <2>2, QuietThreads
  <1>7. CASE End
    <2>1. wl' = wl /\ ws' = AllTold("EXIT") /\ thr' = thr /\ threads_initialized' = threads_initialized /\ pc = "app" /\ pc' = "join"
      BY <1>7 DEF End, coder
    <2>2. Open' => Open /\ thr' = thr
      BY <2>1 DEF Open
    <2>3. Leaving'
      <3>1. \A w \in Worker : ws'[w].state = IF w <= threads_initialized THEN "EXIT" ELSE ws[w].state
        BY <2>1, Told
      <3>2. 1 .. threads_initialized \subseteq Worker
        BY Made
      <3>3. \A w \in 1 .. threads_initialized : w <= threads_initialized
        BY QueueAssumption DEF TypeInv
      <3> QED BY <2>1, <3>1, <3>2, <3>3 DEF Leaving
    <2> QED BY <2>1, <2>2, <2>3, QuietThreads
  <1>8. CASE Join
    <2>1. UNCHANGED <<ws, wl, thr, threads_initialized>> /\ pc = "join" /\ pc' = "ended"
      BY <1>8 DEF Join, coder
    <2>2. (Open' => Open /\ thr' = thr) /\ Leaving'
      BY <2>1 DEF Open, Leaving, Alive, ThreadInv
    <2> QED BY <2>1, <2>2, QuietThreads
  <1>9. CASE UNCHANGED vars
    <2>1. UNCHANGED <<ws, wl, thr, threads_initialized, pc>>
      BY <1>9 DEF vars, coder
    <2>2. (Open' => Open /\ thr' = thr) /\ Leaving'
      BY <2>1 DEF Open, Leaving, Alive, ThreadInv
    <2> QED BY <2>1, <2>2, QuietThreads
  <1>10. ASSUME NEW w \in Worker, WorkerThread(w) PROVE ThreadInv'
    <2>1. CASE Report(w)
      BY <2>1, ReportThreads
    <2>2. CASE ~Report(w)
      <3>1. Works(w)
        BY <1>10, <2>2, TakeCommandWorks, EncodeChunkWorks, StoreBlockWorks, WorkerErrorWorks, ReleaseWorks
        DEF WorkerThread
      <3>2. UNCHANGED <<thr, threads_initialized>> /\ (pc' = pc \/ pc' = Signalled)
        BY <1>10, <2>2, WorkerKeeps
      <3> QED BY <3>1, <3>2, WorkedThreads
    <2> QED BY <2>1, <2>2
  <1> QED BY <1>1, <1>2, <1>3, <1>4, <1>5, <1>6, <1>7, <1>8, <1>9, <1>10 DEF Next, AppThread

-----------------------------------------------------------------------------
(* Where Blocks are cut.                                                   *)
LEMMA SameCut ==
  UNCHANGED cuts => /\ Promise!LastCut' = Promise!LastCut
                    /\ \A b, content : IsBlock(b, content)' <=> IsBlock(b, content)
  BY DEF Promise!LastCut, Promise!CutBefore, IsBlock, Promise!BlockData, Promise!Interval

LEMMA CutTypes ==
  ASSUME cuts \in Seq(Nat)
  PROVE  Promise!LastCut \in Nat /\ Len(cuts) \in Nat /\ \A b \in 1 .. Len(cuts) : Promise!CutBefore(b) \in Nat
  <1>1. PICK n \in Nat : n = Len(cuts)
    OBVIOUS
  <1>2. \A b \in 1 .. n : cuts[b] \in Nat
    BY <1>1
  <1>3. ASSUME NEW b \in 1 .. n + 1 PROVE Promise!CutBefore(b) \in Nat
    <2>1. b # 1 => b - 1 \in 1 .. n
      OBVIOUS
    <2> QED BY <1>2, <2>1 DEF Promise!CutBefore
  <1>4. n + 1 \in 1 .. n + 1 /\ 1 .. n \subseteq 1 .. n + 1
    OBVIOUS
  <1> QED BY <1>1, <1>3, <1>4 DEF Promise!LastCut

LEMMA CutAdded ==
  ASSUME cuts \in Seq(Nat), NEW c \in Nat, cuts' = Append(cuts, c)
  PROVE  /\ cuts' \in Seq(Nat) /\ Len(cuts') = Len(cuts) + 1 /\ Promise!LastCut' = c
         /\ \A b, content : IsBlock(b, content) => IsBlock(b, content)'
         /\ \A b, content : (b = Len(cuts) + 1 /\ content = Promise!Interval(Promise!LastCut, c))
                              => IsBlock(b, content)'
  <1>1. PICK n \in Nat : n = Len(cuts)
    OBVIOUS
  <1>2. /\ cuts' \in Seq(Nat) /\ Len(cuts') = n + 1 /\ cuts'[n + 1] = c
        /\ \A b \in 1 .. n : cuts'[b] = cuts[b]
    BY <1>1, AppendProperties
  <1>3. ASSUME NEW b \in 1 .. n + 1 PROVE Promise!CutBefore(b)' = Promise!CutBefore(b)
    <2>1. b # 1 => b - 1 \in 1 .. n
      OBVIOUS
    <2> QED BY <1>2, <2>1 DEF Promise!CutBefore
  <1>4. ASSUME NEW b, NEW content, IsBlock(b, content) PROVE IsBlock(b, content)'
    <2>1. b \in 1 .. n /\ content = Promise!BlockData(b) /\ b \in 1 .. n + 1
      BY <1>1, <1>4 DEF IsBlock
    <2>2. Promise!BlockData(b)' = Promise!BlockData(b)
      BY <1>2, <1>3, <2>1 DEF Promise!BlockData, Promise!Interval
    <2> QED BY <1>2, <2>1, <2>2 DEF IsBlock
  <1>5. Promise!LastCut' = c
    <2>1. Promise!LastCut' = IF n + 1 + 1 = 1 THEN 0 ELSE cuts'[n + 1 + 1 - 1]
      BY <1>2 DEF Promise!LastCut, Promise!CutBefore
    <2>2. n + 1 + 1 # 1 /\ n + 1 + 1 - 1 = n + 1
      OBVIOUS
    <2> QED BY <1>2, <2>1, <2>2
  <1>6. ASSUME NEW content, content = Promise!Interval(Promise!LastCut, c) PROVE IsBlock(n + 1, content)'
    <2>1. n + 1 \in 1 .. Len(cuts')
      BY <1>2
    <2>2. Promise!CutBefore(n + 1)' = Promise!LastCut
      <3>1. n + 1 \in 1 .. n + 1
        OBVIOUS
      <3> QED BY <1>1, <1>3, <3>1 DEF Promise!LastCut
    <2>3. PICK m : m = Promise!LastCut
      OBVIOUS
    <2>4. Promise!BlockData(n + 1)' = [i \in 1 .. c - m |-> m + i]
      BY <1>2, <2>2, <2>3 DEF Promise!BlockData, Promise!Interval
    <2>5. content = [i \in 1 .. c - m |-> m + i]
      BY <1>6, <2>3 DEF Promise!Interval
    <2> QED BY <2>1, <2>4, <2>5 DEF IsBlock
  <1> QED BY <1>1, <1>2, <1>4, <1>5, <1>6

LEMMA DataTypes ==
  ASSUME TypeInv
  PROVE  /\ Len(index) \in Nat /\ Len(outq.active) \in Nat /\ DOMAIN outq.active = 1 .. Len(outq.active)
         /\ accepted \in Nat /\ call.avail \in Nat /\ inits \in Nat /\ (thr # None => thr \in Worker)
  <1>1. Len(index) \in Nat
    <2>1. PICK R : R = {"STREAM_END", <<>>} \cup (Seq(Nat) \X Nat)
      OBVIOUS
    <2>2. index \in Seq(R)
      BY <2>1 DEF TypeInv
    <2> QED BY <2>2
  <1>2. Len(outq.active) \in Nat /\ DOMAIN outq.active = 1 .. Len(outq.active)
    <2>1. outq.active \in Seq(Buf)
      BY DEF TypeInv, IsQueue
    <2> QED BY <2>1
  <1> QED BY <1>1, <1>2, QueueAssumption DEF TypeInv, Worker

(* Nothing happens to the data.                                            *)
LEMMA QuietData ==
  ASSUME TypeInv, Streaming, DataInv, UNCHANGED <<index, cuts, accepted, inits, ws, wl>>,
         outq'.active = outq.active, Open' = Open, Open => thr' = thr, pc' = "assign" => call'.avail > 0,
         Open /\ pc = "encode" => (pc' = "encode" /\ call' = call) \/ call.avail = 0
  PROVE  Counts' /\ QueueFits' /\ Given'
  <1>1. Counts /\ QueueFits /\ Given /\ cuts \in Seq(Nat)
    BY DEF DataInv
  <1>2. Promise!LastCut' = Promise!LastCut /\ (\A b, content : IsBlock(b, content)' <=> IsBlock(b, content))
        /\ Promise!LastCut \in Nat
    BY <1>1, SameCut, CutTypes
  <1>3. Counts'
    <2>1. OpenBlock' = OpenBlock
      BY DEF OpenBlock
    <2>2. Open' /\ ws'[thr'].state = "RUN" => Promise!LastCut' < accepted' \/ (pc' = "encode" /\ call'.avail > 0)
      <3> SUFFICES ASSUME Open', ws'[thr'].state = "RUN", ~(Promise!LastCut' < accepted')
                   PROVE  pc' = "encode" /\ call'.avail > 0
        OBVIOUS
      <3>1. Open /\ ws[thr].state = "RUN" /\ ~(Promise!LastCut < accepted)
        BY <1>2
      <3>2. pc = "encode" /\ call.avail > 0
        BY <1>1, <3>1 DEF Counts
      <3> QED BY <3>1, <3>2
    <2>3. Promise!LastCut' <= accepted' /\ (~Open' => Promise!LastCut' = accepted')
      BY <1>1, <1>2 DEF Counts
    <2>4. Len(index') <= Len(cuts') /\ Len(index') + Len(outq'.active) = Len(cuts') + OpenBlock'
      BY <1>1, <2>1 DEF Counts
    <2> QED BY <2>2, <2>3, <2>4 DEF Counts
  <1>4. QueueFits'
    BY <1>1, <1>2 DEF QueueFits
  <1>5. Given'
    <2> SUFFICES ASSUME NEW w \in Worker, AtWork(w)' PROVE GivenTo(w)'
      BY DEF Given
    <2>1. GivenTo(w)
      BY <1>1 DEF Given, AtWork
    <2>2. Open' /\ w = thr' <=> Open /\ w = thr
      OBVIOUS
    <2>3. CASE Open /\ w = thr
      <3>1. ws'[w].state = "RUN" => ws[w].state = "RUN" /\ FedSoFar(w)
        BY <2>1, <2>3 DEF GivenTo
      <3>2. FedSoFar(w) => FedSoFar(w)'
        BY <1>2 DEF FedSoFar, Promise!Interval
      <3> QED BY <2>2, <2>3, <3>1, <3>2 DEF GivenTo
    <2>4. CASE ~(Open /\ w = thr)
      <3>1. IsBlock(ws[w].outbuf[2], ws[w].in)
        BY <2>1, <2>4 DEF GivenTo
      <3>2. PICK b, content : b = ws[w].outbuf[2] /\ content = ws[w].in
        OBVIOUS
      <3>3. IsBlock(b, content)' /\ b = ws'[w].outbuf[2] /\ content = ws'[w].in
        BY <1>2, <3>1, <3>2
      <3>4. IsBlock(ws[w].outbuf[2], ws[w].in)'
        BY <3>3
      <3> QED BY <2>2, <2>4, <3>4 DEF GivenTo
    <2> QED BY <2>3, <2>4
  <1> QED BY <1>3, <1>4, <1>5

(* A worker works on: so far nothing of it is seen.                        *)
LEMMA WorkedData ==
  ASSUME TypeInv, Account, Streaming, DataInv, NEW w \in Worker, Works(w),
         UNCHANGED <<index, cuts, accepted, inits, thr, call, outq>>, pc' = pc \/ pc' = Signalled
  PROVE  Counts' /\ QueueFits' /\ Given'
  <1>1. Counts /\ QueueFits /\ Given /\ cuts \in Seq(Nat) /\ Open' = Open /\ (pc' = "assign" <=> pc = "assign")
        /\ (pc' = "encode" <=> pc = "encode")
    BY DEF DataInv, Open, Signalled
  <1>2. Promise!LastCut' = Promise!LastCut /\ (\A b, content : IsBlock(b, content)' <=> IsBlock(b, content))
    BY SameCut
  <1>3. \A v \in Worker : /\ ws'[v].in = ws[v].in /\ ws'[v].outbuf = ws[v].outbuf
                          /\ ws'[v].state \in {ws[v].state, "IDLE"}
    BY DEF Works
  <1>4. Counts'
    <2>1. Open' /\ ws'[thr'].state = "RUN" => Open /\ ws[thr].state = "RUN"
      BY <1>1, <1>3, DataTypes DEF Open
    <2> QED BY <1>1, <1>2, <2>1 DEF Counts, OpenBlock
  <1>5. QueueFits'
    BY <1>1, <1>2 DEF QueueFits
  <1>6. Given'
    <2> SUFFICES ASSUME NEW v \in Worker, AtWork(v)' PROVE GivenTo(v)'
      BY DEF Given
    <2>1. ws[v].state # "EXIT"
      BY DEF Account, Stops, Streaming, Settled, Alive
    <2>2. AtWork(v)
      BY <2>1 DEF Works, AtWork
    <2>3. GivenTo(v)
      BY <1>1, <2>2 DEF Given
    <2>4. CASE Open /\ v = thr
      <3>1. ws'[v].state = "RUN" => FedSoFar(v)
        BY <1>3, <2>3, <2>4 DEF GivenTo
      <3>2. FedSoFar(v) => FedSoFar(v)'
        BY <1>2, <1>3 DEF FedSoFar, Promise!Interval
      <3> QED BY <1>1, <2>4, <3>1, <3>2 DEF GivenTo
    <2>5. CASE ~(Open /\ v = thr)
      <3>1. IsBlock(ws[v].outbuf[2], ws[v].in)
        BY <2>3, <2>5 DEF GivenTo
      <3>2. PICK b, content : b = ws[v].outbuf[2] /\ content = ws[v].in
        OBVIOUS
      <3>3. IsBlock(b, content)' /\ b = ws'[v].outbuf[2] /\ content = ws'[v].in
        BY <1>2, <1>3, <3>1, <3>2
      <3>4. IsBlock(ws[v].outbuf[2], ws[v].in)'
        BY <3>3
      <3> QED BY <1>1, <2>5, <3>4 DEF GivenTo
    <2> QED BY <2>4, <2>5
  <1> QED BY <1>4, <1>5, <1>6

(* A thread that reports a whole Block finishes the buffer of that Block.  *)
LEMMA ReportData ==
  ASSUME TypeInv, Account, FilterInv, ThreadInv, Streaming, DataInv, NEW w \in Worker, Report(w)
  PROVE  Counts' /\ QueueFits' /\ Given'
  <1>1. /\ \A v \in Worker : v # w => wl'[v] = wl[v] /\ ws'[v] = ws[v]
        /\ ws'[w].in = ws[w].in /\ ws'[w].outbuf = ws[w].outbuf /\ ws'[w].state = ws[w].state
        /\ wl'[w].pc = "idle" /\ wl[w].pc = "report"
    BY Reported DEF IdleThread
  <1>2. UNCHANGED <<index, cuts, accepted, inits, thr, call>> /\ pc' = Signalled
    BY DEF Report, app, coder, hist
  <1>3. Counts /\ QueueFits /\ Given /\ cuts \in Seq(Nat) /\ Open' = Open /\ (pc' = "assign" <=> pc = "assign")
        /\ (pc' = "encode" <=> pc = "encode")
    BY <1>2 DEF DataInv, Open, Signalled
  <1>4. Promise!LastCut' = Promise!LastCut /\ (\A b, content : IsBlock(b, content)' <=> IsBlock(b, content))
    BY <1>2, SameCut
  <1>5. PICK a \in Seq(Buf), n \in Nat : a = outq.active /\ n = Len(a) /\ DOMAIN a = 1 .. n
    <2>1. outq.active \in Seq(Buf)
      BY DEF TypeInv, IsQueue
    <2> QED BY <2>1
  <1>6. AtWork(w) /\ ws[w].outbuf[1] = inits
    <2>1. AtWork(w)
      BY <1>1 DEF AtWork
    <2> QED BY <2>1 DEF FilterInv, JobsFit, JobFits, Streaming
  <1>7. Given'
    <2> SUFFICES ASSUME NEW v \in Worker, AtWork(v)' PROVE GivenTo(v)'
      BY DEF Given
    <2>1. v # w
      <3>1. ws[w].state \in {"IDLE", "STOP"}
        BY <1>1 DEF Account, ReportsDone, Streaming, Settled, Alive
      <3> QED BY <1>1, <3>1 DEF AtWork
    <2>2. AtWork(v) /\ ws'[v] = ws[v]
      BY <1>1, <2>1 DEF AtWork
    <2>3. GivenTo(v)
      BY <1>3, <2>2 DEF Given
    <2>4. CASE Open /\ v = thr
      BY <1>2, <1>3, <1>4, <2>2, <2>3, <2>4 DEF GivenTo, FedSoFar, Promise!Interval
    <2>5. CASE ~(Open /\ v = thr)
      <3>1. IsBlock(ws[v].outbuf[2], ws[v].in)
        BY <2>3, <2>5 DEF GivenTo
      <3>2. PICK b, content : b = ws[v].outbuf[2] /\ content = ws[v].in
        OBVIOUS
      <3>3. IsBlock(b, content)' /\ b = ws'[v].outbuf[2] /\ content = ws'[v].in
        BY <1>4, <2>2, <3>1, <3>2
      <3>4. IsBlock(ws[v].outbuf[2], ws[v].in)'
        BY <3>3
      <3> QED BY <1>2, <1>3, <2>5, <3>4 DEF GivenTo
    <2> QED BY <2>4, <2>5
  <1>8. CASE outq' = outq
    <2>1. Open' /\ ws'[thr'].state = "RUN" => Open /\ ws[thr].state = "RUN"
      BY <1>1, <1>2, <1>3, DataTypes DEF Open
    <2>2. Counts'
      BY <1>2, <1>3, <1>4, <1>8, <2>1 DEF Counts, OpenBlock
    <2>3. QueueFits'
      BY <1>2, <1>3, <1>4, <1>8 DEF QueueFits
    <2> QED BY <1>7, <2>2, <2>3
  <1>9. CASE outq' # outq
    <2>1. WholeBlock(w)
      BY <1>9 DEF Report, FinishedIfWhole
    <2>2. PICK i \in Places(w) : outq' = FinishedAt(i, w)
      BY <1>6, <1>9, <2>1 DEF Report, FinishedIfWhole, Late
    <2>3. i \in 1 .. n /\ a[i].job = ws[w].outbuf
      BY <1>5, <1>6, <2>2 DEF Places
    <2>4. PICK b \in Buf : /\ b.finished /\ b.ret = <<wl[w].content, ws[w].filters>> /\ b.job = a[i].job
                           /\ outq'.active = [a EXCEPT ![i] = b]
      <3>1. i \in DOMAIN outq.active
        BY <1>5, <2>3
      <3>2. \E b \in Buf : /\ b.finished /\ b.ret = <<wl[w].content, ws[w].filters>> /\ b.job = outq.active[i].job
                           /\ FinishedAt(i, w).active = [outq.active EXCEPT ![i] = b]
                           /\ IsQueue(FinishedAt(i, w), Buf, {BufSize})
                           /\ FinishedAt(i, w).cache = outq.cache
        BY ONLY TypeInv, w \in Worker, <3>1, Finished
      <3> QED BY <1>5, <2>2, <3>2
    <2>5. wl[w].content = ws[w].in /\ ~(Open /\ w = thr)
      BY <1>1, <2>1 DEF ThreadInv, Wholes, Done, WholeBlock
    <2>6. IsBlock(ws[w].outbuf[2], ws[w].in)
      BY <1>3, <1>6, <2>5 DEF Given, GivenTo
    <2>7. a[i].job = <<inits, Len(index) + i>>
      BY <1>3, <1>5, <2>3 DEF QueueFits
    <2>8. ws[w].outbuf[2] = Len(index) + i
      BY <2>3, <2>7
    <2>9. PICK c \in Seq(Buf) : c = outq'.active /\ Len(c) = n /\ c[i] = b /\ \A j \in 1 .. n : j # i => c[j] = a[j]
      <3>1. PICK c : c = [a EXCEPT ![i] = b]
        OBVIOUS
      <3>2. c \in Seq(Buf) /\ Len(c) = n /\ c[i] = b /\ \A j \in 1 .. n : j # i => c[j] = a[j]
        BY <1>5, <2>3, <3>1
      <3> QED BY <2>4, <3>1, <3>2
    <2>10. DOMAIN c = 1 .. n
      BY <2>9
    <2>11. Counts'
      <3>1. Len(outq'.active) = Len(outq.active)
        BY <1>5, <2>9
      <3>2. Open' /\ ws'[thr'].state = "RUN" => Open /\ ws[thr].state = "RUN"
        BY <1>1, <1>2, <1>3, DataTypes DEF Open
      <3> QED BY <1>2, <1>3, <1>4, <3>1, <3>2 DEF Counts, OpenBlock
    <2>12. ASSUME NEW j \in 1 .. n
           PROVE  /\ c[j].job = <<inits, Len(index) + j>>
                  /\ c[j].finished => \A k, s : (k = Len(index) + j /\ s = c[j].ret[1]) => IsBlock(k, s)
      <3>1. CASE j = i
        <4>1. c[j].job = <<inits, Len(index) + j>>
          BY <2>4, <2>7, <2>9, <3>1
        <4>2. c[j].ret[1] = ws[w].in
          BY <2>4, <2>5, <2>9, <3>1
        <4> QED BY <2>6, <2>8, <3>1, <4>1, <4>2
      <3>2. CASE j # i
        <4>1. c[j] = a[j] /\ j \in DOMAIN outq.active
          BY <1>5, <2>9, <3>2
        <4> QED BY <1>3, <1>5, <4>1 DEF QueueFits
      <3> QED BY <3>1, <3>2
    <2>13. QueueFits'
      <3>1. \A j \in 1 .. n : c[j].job = <<inits', Len(index') + j>>
        BY <1>2, <2>12
      <3>2. ASSUME NEW j \in 1 .. n, c[j].finished
            PROVE  \A k, s : (k = Len(index') + j /\ s = c[j].ret[1]) => IsBlock(k, s)'
        BY <1>2, <1>4, <2>12, <3>2
      <3> QED BY <2>9, <2>10, <3>1, <3>2 DEF QueueFits
    <2> QED BY <1>7, <2>11, <2>13
  <1> QED BY <1>8, <1>9

-----------------------------------------------------------------------------
(* A new Block: its buffer is the last of the queue, its thread has none   *)
(* of its input yet.                                                       *)
LEMMA NoUnits == ASSUME NEW m \in Nat, NEW n \in Nat, m = n PROVE Promise!Interval(m, n) = <<>>
  <1>1. PICK s \in Seq(Nat) : s = Promise!Interval(m, n) /\ Len(s) = 0
    <2>1. Promise!Interval(m, n) \in Seq(Nat) /\ Len(Promise!Interval(m, n)) = n - m
      BY IntervalIs
    <2>2. n - m = 0
      OBVIOUS
    <2> QED BY <2>1, <2>2
  <1>2. PICK e \in Seq(Nat) : e = <<>> /\ Len(e) = 0
    <2>1. <<>> \in Seq(Nat) /\ Len(<<>>) = 0
      OBVIOUS
    <2> QED BY <2>1
  <1>3. s = e
    BY <1>1, <1>2, SeqEqual
  <1> QED BY <1>1, <1>2, <1>3

LEMMA AssignData ==
  ASSUME TypeInv, Account, FilterInv, Streaming, DataInv, AssignThread
  PROVE  Counts' /\ QueueFits' /\ Given'
  <1>1. /\ UNCHANGED <<wl, thr, index, cuts, accepted, inits, call>> /\ pc = "assign" /\ pc' = "encode"
    BY DEF AssignThread, app, hist
  <1>2. Counts /\ QueueFits /\ Given /\ cuts \in Seq(Nat)
    BY DEF DataInv
  <1>3. /\ Promise!LastCut' = Promise!LastCut /\ (\A b, content : IsBlock(b, content)' <=> IsBlock(b, content))
        /\ Promise!LastCut \in Nat /\ Len(cuts) \in Nat
    BY <1>1, <1>2, SameCut, CutTypes
  <1>4. thr \in Worker /\ thr # None /\ ~Open /\ Open'
    BY <1>1, QueueAssumption DEF Account, Chosen, TypeInv, Worker, Open
  <1>5. PICK a \in Seq(Buf), n \in Nat : a = outq.active /\ n = Len(a) /\ DOMAIN a = 1 .. n
    <2>1. outq.active \in Seq(Buf)
      BY DEF TypeInv, IsQueue
    <2> QED BY <2>1
  <1>6. PICK m \in Nat, k \in Nat : m = Len(index) /\ k = Len(cuts)
    BY <1>3, DataTypes
  <1>7. k = m + n /\ Promise!LastCut = accepted /\ accepted \in Nat /\ call.avail > 0
    <2>1. Len(index) + Len(outq.active) = Len(cuts) + OpenBlock /\ OpenBlock = 0
      BY <1>2, <1>4 DEF Counts, OpenBlock
    <2>2. Promise!LastCut = accepted /\ accepted \in Nat /\ call.avail > 0
      BY <1>1, <1>2, <1>4, DataTypes DEF Counts
    <2>3. m + n = k + 0
      BY <1>5, <1>6, <2>1
    <2> QED BY <2>2, <2>3
  <1>8. PICK job : job = NextJob /\ job = <<inits, m + n + 1>>
    BY <1>5, <1>6 DEF NextJob
  <1>9. PICK b \in Buf, c \in Seq(Buf) : /\ ~b.finished /\ b.job = job /\ c = outq'.active
                         /\ Len(c) = n + 1 /\ c[n + 1] = b /\ \A i \in 1 .. n : c[i] = a[i]
    <2>1. PICK b \in Buf : ~b.finished /\ b.job = NextJob /\ outq'.active = Append(outq.active, b)
      BY AssignQueue
    <2>2. PICK c : c = Append(a, b)
      OBVIOUS
    <2>3. c \in Seq(Buf) /\ Len(c) = n + 1 /\ c[n + 1] = b /\ \A i \in 1 .. n : c[i] = a[i]
      BY <1>5, <2>2, AppendProperties
    <2> QED BY <1>5, <1>8, <2>1, <2>2, <2>3
  <1>10. ws' = [ws EXCEPT ![thr] = Assigned(job)]
    BY <1>8, AssignedWorker
  <1>11. /\ \A w \in Worker : w # thr => ws'[w] = ws[w]
         /\ ws'[thr].state = "RUN" /\ ws'[thr].in = <<>> /\ ws'[thr].outbuf = job
    BY <1>4, <1>10 DEF Assigned, TypeInv
  <1>12. Counts'
    <2>1. Len(index') + Len(outq'.active) = Len(cuts') + OpenBlock'
      <3>1. OpenBlock' = 1
        BY <1>4 DEF OpenBlock
      <3>2. m + (n + 1) = k + 1
        BY <1>7
      <3> QED BY <1>1, <1>6, <1>9, <3>1, <3>2
    <2>2. Len(index') <= Len(cuts')
      BY <1>1, <1>2 DEF Counts
    <2>3. Promise!LastCut' <= accepted' /\ (~Open' => Promise!LastCut' = accepted')
      BY <1>1, <1>3, <1>4, <1>7
    <2> QED BY <1>1, <1>7, <2>1, <2>2, <2>3 DEF Counts
  <1>13. QueueFits'
    <2>1. DOMAIN c = 1 .. n + 1 /\ \A i \in 1 .. n + 1 : i = n + 1 \/ i \in 1 .. n
      BY <1>9
    <2>2. \A i \in 1 .. n : /\ a[i].job = <<inits, m + i>>
                            /\ a[i].finished => \A d, s : (d = m + i /\ s = a[i].ret[1]) => IsBlock(d, s)
      BY <1>2, <1>5, <1>6 DEF QueueFits
    <2>3. ASSUME NEW i \in 1 .. n + 1 PROVE c[i].job = <<inits', Len(index') + i>>
      <3>1. CASE i = n + 1
        <4>1. m + n + 1 = m + i
          BY <3>1
        <4> QED BY <1>1, <1>6, <1>8, <1>9, <3>1, <4>1
      <3>2. CASE i \in 1 .. n
        BY <1>1, <1>6, <1>9, <2>2, <3>2
      <3> QED BY <2>1, <3>1, <3>2
    <2>4. ASSUME NEW i \in 1 .. n + 1, c[i].finished
          PROVE  \A d, s : (d = Len(index') + i /\ s = c[i].ret[1]) => IsBlock(d, s)'
      <3>1. i \in 1 .. n /\ c[i] = a[i]
        BY <1>9, <2>1, <2>4
      <3> QED BY <1>1, <1>3, <1>6, <2>2, <2>4, <3>1
    <2> QED BY <1>9, <2>1, <2>3, <2>4 DEF QueueFits
  <1>14. Given'
    <2> SUFFICES ASSUME NEW w \in Worker, AtWork(w)' PROVE GivenTo(w)'
      BY DEF Given
    <2>1. CASE w = thr
      <3>1. Promise!Interval(Promise!LastCut, accepted) = <<>>
        BY <1>3, <1>7, NoUnits
      <3>2. ws'[w].in = Promise!Interval(Promise!LastCut', accepted')
        BY <1>1, <1>3, <1>11, <2>1, <3>1 DEF Promise!Interval
      <3>3. ws'[w].outbuf[2] = Len(cuts') + 1
        <4>1. job[2] = k + 1
          BY <1>7, <1>8
        <4> QED BY <1>1, <1>6, <1>11, <2>1, <4>1
      <3>4. Len(ws'[w].in) < BlockSize
        <4>1. Len(<<>>) = 0 /\ BlockSize \in Nat \ {0}
          BY StreamEncoderAssumption
        <4>2. 0 < BlockSize
          BY <4>1
        <4> QED BY <1>11, <2>1, <4>1, <4>2
      <3>5. FedSoFar(w)'
        BY <3>2, <3>3, <3>4 DEF FedSoFar
      <3> QED BY <1>1, <1>4, <2>1, <3>5 DEF GivenTo
    <2>2. CASE w # thr
      <3>1. AtWork(w) /\ ws'[w] = ws[w]
        BY <1>1, <1>11, <2>2 DEF AtWork
      <3>2. IsBlock(ws[w].outbuf[2], ws[w].in)
        BY <1>2, <1>4, <3>1 DEF Given, GivenTo
      <3>3. PICK d, content : d = ws[w].outbuf[2] /\ content = ws[w].in
        OBVIOUS
      <3>4. IsBlock(d, content)' /\ d = ws'[w].outbuf[2] /\ content = ws'[w].in
        BY <1>3, <3>1, <3>2, <3>3
      <3>5. IsBlock(ws[w].outbuf[2], ws[w].in)'
        BY <3>4
      <3> QED BY <1>1, <2>2, <3>5 DEF GivenTo
    <2> QED BY <2>1, <2>2
  <1> QED BY <1>12, <1>13, <1>14

-----------------------------------------------------------------------------
(* FeedThread: what is fed continues the Block, which may be closed with   *)
(* it, and is not empty then.                                              *)
LEMMA FeedGrows ==
  ASSUME TypeInv, Account, FilterInv, ThreadInv, Streaming, DataInv, FeedThread,
         NEW n \in Nat, NEW more \in Seq(Nat), NEW done \in BOOLEAN, Feeds(n, more, done), ws[thr].state # "IDLE"
  PROVE  /\ accepted' = accepted + n /\ Promise!LastCut \in Nat /\ Promise!LastCut < accepted + n
         /\ ws[thr].state = "RUN" /\ ws[thr].outbuf[2] = Len(cuts) + 1
         /\ ws'[thr].in = Promise!Interval(Promise!LastCut, accepted + n)
         /\ ~done => Len(ws'[thr].in) < BlockSize
  <1>1. thr \in Worker /\ pc = "encode" /\ thr # None /\ Open
    BY ThrIsMade DEF FeedThread, Open
  <1>2. ws[thr].state = "RUN"
    <2>1. ws[thr].state \in States
      BY <1>1, Holdings
    <2>2. ws[thr].state \notin {"EXIT", "STOP"}
      BY <1>1 DEF Account, Stops, Streaming, Settled, Alive
    <2>3. ws[thr].state # "FINISH"
      BY <1>1 DEF ThreadInv, OpenRuns
    <2> QED BY <2>1, <2>2, <2>3 DEF States
  <1>3. FedSoFar(thr)
    <2>1. AtWork(thr)
      BY <1>2 DEF AtWork
    <2>2. GivenTo(thr)
      BY <1>1, <2>1 DEF DataInv, Given
    <2> QED BY <1>1, <1>2, <2>2 DEF GivenTo
  <1>4. PICK m \in Nat, a \in Nat : m = Promise!LastCut /\ a = accepted /\ m <= a
    <2>1. Promise!LastCut \in Nat /\ accepted \in Nat /\ Promise!LastCut <= accepted
      BY CutTypes, DataTypes DEF DataInv, Counts
    <2> QED BY <2>1
  <1>5. PICK l \in Nat, v \in Nat, size \in Nat : l = Len(ws[thr].in) /\ v = call.avail /\ size = BlockSize
    BY <1>1, Holdings, DataTypes, StreamEncoderAssumption
  <1>6. /\ l < size /\ l + n <= size /\ n <= v /\ (n = size - l \/ n = v) /\ Len(more) = n
        /\ done = ClosesBlock(l + n, v - n) /\ accepted' = a + n
    BY <1>3, <1>4, <1>5 DEF Feeds, FedSoFar
  <1>7. m < a + n
    <2>1. m < a \/ v > 0
      BY <1>1, <1>2, <1>4, <1>5 DEF DataInv, Counts
    <2> QED BY <1>4, <1>6, <2>1
  <1>8. ws'[thr].in = Promise!Interval(m, a + n)
    <2>1. ws'[thr].in = ws[thr].in \o more
      BY <1>2 DEF Feeds
    <2>2. ws[thr].in = Promise!Interval(m, a)
      BY <1>3, <1>4 DEF FedSoFar
    <2>3. more = [i \in 1 .. n |-> a + i]
      BY <1>4 DEF Feeds
    <2>4. Promise!Interval(m, a) \o [i \in 1 .. n |-> a + i] = Promise!Interval(m, a + n)
      <3>1. m \in Nat /\ a \in Nat /\ n \in Nat /\ m <= a
        BY <1>4
      <3> QED BY ONLY <3>1, IntervalGrows
    <2> QED BY <2>1, <2>2, <2>3, <2>4
  <1>9. ~done => Len(ws'[thr].in) < BlockSize
    <2>1. Len(ws'[thr].in) = l + n
      <3>1. ws'[thr].in = ws[thr].in \o more
        BY <1>2 DEF Feeds
      <3>2. PICK s \in Seq(Nat) : s = ws[thr].in
        BY <1>1, Holdings
      <3>3. Len(s \o more) = Len(s) + Len(more)
        BY ConcatProperties
      <3> QED BY <1>5, <1>6, <3>1, <3>2, <3>3
    <2>2. ~done => l + n # size
      BY <1>5, <1>6 DEF ClosesBlock
    <2>3. l + n # size => l + n < size
      BY <1>6
    <2> QED BY <1>5, <2>1, <2>2, <2>3
  <1>10. ws[thr].outbuf[2] = Len(cuts) + 1
    BY <1>3 DEF FedSoFar
  <1>11. accepted' = accepted + n /\ Promise!LastCut \in Nat /\ Promise!LastCut < accepted + n
    BY <1>4, <1>6, <1>7
  <1>12. ws'[thr].in = Promise!Interval(Promise!LastCut, accepted + n)
    BY <1>4, <1>8
  <1> QED BY ONLY <1>2, <1>9, <1>10, <1>11, <1>12

LEMMA FeedData ==
  ASSUME TypeInv, Account, FilterInv, ThreadInv, Streaming, DataInv, FeedThread
  PROVE  /\ Counts' /\ QueueFits' /\ Given' /\ cuts' \in Seq(Nat)
         /\ accepted' >= accepted /\ (cuts' = cuts \/ (accepted' > Promise!LastCut /\ cuts' = Append(cuts, accepted')))
  <1>1. PICK n \in Nat, more \in Seq(Nat), done \in BOOLEAN : Feeds(n, more, done)
    BY FedMore
  <1>2. /\ UNCHANGED <<wl, index, outq, inits>> /\ pc = "encode" /\ thr \in Worker /\ thr # None /\ Open
        /\ accepted' = accepted + n /\ accepted \in Nat
    <2>1. thr \in Worker /\ thr # None /\ pc = "encode" /\ Open
      BY ThrIsMade DEF FeedThread, Open
    <2>2. UNCHANGED <<wl, index, outq, inits>>
      BY DEF FeedThread, shared
    <2>3. accepted' = accepted + n /\ accepted \in Nat
      BY <1>1 DEF TypeInv, Feeds
    <2> QED BY <2>1, <2>2, <2>3
  <1>3. Counts /\ QueueFits /\ Given /\ cuts \in Seq(Nat) /\ Promise!LastCut \in Nat
        /\ Len(cuts) \in Nat /\ Len(index) \in Nat /\ Len(outq.active) \in Nat
    BY CutTypes, DataTypes DEF DataInv
  <1>4. /\ Promise!LastCut <= accepted /\ Len(index) <= Len(cuts)
        /\ Len(index) + Len(outq.active) = Len(cuts) + 1
    BY <1>2, <1>3 DEF Counts, OpenBlock
  <1>5. \A v \in Worker : v # thr => ws'[v] = ws[v]
    BY <1>1 DEF Feeds
  <1>6. ASSUME NEW v \in Worker, v # thr, AtWork(v)', \A b, content : IsBlock(b, content) => IsBlock(b, content)'
        PROVE  IsBlock(ws[v].outbuf[2], ws[v].in)'
    <2>1. AtWork(v) /\ ws'[v] = ws[v]
      BY <1>2, <1>5, <1>6 DEF AtWork
    <2>2. IsBlock(ws[v].outbuf[2], ws[v].in)
      BY <1>3, <1>6, <2>1 DEF Given, GivenTo
    <2>3. PICK d, content : d = ws[v].outbuf[2] /\ content = ws[v].in
      OBVIOUS
    <2>4. IsBlock(d, content)' /\ d = ws'[v].outbuf[2] /\ content = ws'[v].in
      BY <1>6, <2>1, <2>2, <2>3
    <2> QED BY <2>4
  <1>7. ASSUME \A b, content : IsBlock(b, content) => IsBlock(b, content)' PROVE QueueFits'
    BY <1>2, <1>3, <1>7 DEF QueueFits
  <1>8. CASE UNCHANGED <<cuts, thr>>
    <2>1. Promise!LastCut' = Promise!LastCut /\ \A b, content : IsBlock(b, content)' <=> IsBlock(b, content)
      BY <1>8, SameCut
    <2>2. CASE ws[thr].state = "IDLE"
      <3>1. ws' = ws /\ pc' = "blockerror" /\ Open'
        BY <1>1, <1>2, <1>8, <2>2 DEF Feeds, Open
      <3>2. Counts'
        <4>1. OpenBlock' = 1
          BY <3>1 DEF OpenBlock
        <4>2. Promise!LastCut' <= accepted'
          BY <1>2, <1>3, <1>4, <2>1
        <4>3. Len(index') + Len(outq'.active) = Len(cuts') + OpenBlock' /\ Len(index') <= Len(cuts')
          BY <1>2, <1>4, <1>8, <4>1
        <4>4. ~(ws'[thr'].state = "RUN")
          BY <1>8, <2>2, <3>1
        <4> QED BY <3>1, <4>2, <4>3, <4>4 DEF Counts
      <3>3. Given'
        <4> SUFFICES ASSUME NEW v \in Worker, AtWork(v)' PROVE GivenTo(v)'
          BY DEF Given
        <4>1. CASE v = thr
          BY <1>8, <2>2, <3>1, <4>1 DEF GivenTo
        <4>2. CASE v # thr
          BY <1>6, <1>8, <2>1, <4>2 DEF GivenTo
        <4> QED BY <4>1, <4>2
      <3> QED BY <1>2, <1>3, <1>7, <1>8, <2>1, <3>2, <3>3
    <2>3. CASE ws[thr].state # "IDLE"
      <3>1. /\ Promise!LastCut < accepted + n /\ ws[thr].outbuf[2] = Len(cuts) + 1
            /\ ws'[thr].in = Promise!Interval(Promise!LastCut, accepted + n)
            /\ ~done => Len(ws'[thr].in) < BlockSize
        BY <1>1, <2>3, FeedGrows
      <3>2. ~done /\ pc' = pc /\ ws'[thr].outbuf = ws[thr].outbuf /\ Open'
        BY <1>1, <1>2, <1>8, <2>3 DEF Feeds, Open
      <3>3. Counts'
        <4>1. OpenBlock' = 1
          BY <3>2 DEF OpenBlock
        <4>2. Promise!LastCut' < accepted' /\ Promise!LastCut' <= accepted'
          BY <1>2, <1>3, <2>1, <3>1
        <4>3. Len(index') + Len(outq'.active) = Len(cuts') + OpenBlock' /\ Len(index') <= Len(cuts')
          BY <1>2, <1>4, <1>8, <4>1
        <4> QED BY <1>2, <3>2, <4>2, <4>3 DEF Counts
      <3>4. Given'
        <4> SUFFICES ASSUME NEW v \in Worker, AtWork(v)' PROVE GivenTo(v)'
          BY DEF Given
        <4>1. CASE v = thr
          <5>1. ws'[v].in = Promise!Interval(Promise!LastCut', accepted')
            BY <1>2, <2>1, <3>1, <4>1 DEF Promise!Interval
          <5>2. ws'[v].outbuf[2] = Len(cuts') + 1 /\ Len(ws'[v].in) < BlockSize
            BY <1>8, <3>1, <3>2, <4>1
          <5>3. FedSoFar(v)'
            BY <5>1, <5>2 DEF FedSoFar
          <5> QED BY <1>8, <3>2, <4>1, <5>3 DEF GivenTo
        <4>2. CASE v # thr
          BY <1>6, <1>8, <2>1, <4>2 DEF GivenTo
        <4> QED BY <4>1, <4>2
      <3> QED BY <1>2, <1>3, <1>7, <1>8, <2>1, <3>3, <3>4
    <2> QED BY <2>2, <2>3
  <1>9. CASE ~UNCHANGED <<cuts, thr>>
    <2>1. ws[thr].state # "IDLE" /\ done /\ thr' = None /\ cuts' = Append(cuts, accepted + n)
          /\ ws'[thr].outbuf = ws[thr].outbuf
      BY <1>1, <1>9 DEF Feeds
    <2>2. /\ Promise!LastCut < accepted + n /\ ws[thr].outbuf[2] = Len(cuts) + 1
          /\ ws'[thr].in = Promise!Interval(Promise!LastCut, accepted + n)
      BY <1>1, <2>1, FeedGrows
    <2>3. PICK c \in Nat : c = accepted + n /\ accepted' = c
      BY <1>2
    <2>4. /\ cuts' \in Seq(Nat) /\ Len(cuts') = Len(cuts) + 1 /\ Promise!LastCut' = c
          /\ \A b, content : IsBlock(b, content) => IsBlock(b, content)'
          /\ \A b, content : (b = Len(cuts) + 1 /\ content = Promise!Interval(Promise!LastCut, c))
                               => IsBlock(b, content)'
      BY <1>3, <2>1, <2>3, CutAdded
    <2>5. ~Open' /\ OpenBlock' = 0
      BY <2>1 DEF Open, OpenBlock
    <2>6. pc' = "encode"
      BY <1>1, <1>2, <2>1 DEF Feeds
    <2>7. Counts'
      <3>1. Len(index') + Len(outq'.active) = Len(cuts') + OpenBlock' /\ Len(index') <= Len(cuts')
        BY <1>2, <1>3, <1>4, <2>4, <2>5
      <3>2. Promise!LastCut' <= accepted' /\ Promise!LastCut' = accepted'
        BY <2>3, <2>4
      <3> QED BY <2>5, <2>6, <3>1, <3>2 DEF Counts
    <2>8. Given'
      <3> SUFFICES ASSUME NEW v \in Worker, AtWork(v)' PROVE GivenTo(v)'
        BY DEF Given
      <3>1. CASE v = thr
        <4>1. PICK d, content : d = Len(cuts) + 1 /\ content = Promise!Interval(Promise!LastCut, c)
          OBVIOUS
        <4>2. IsBlock(d, content)'
          BY <2>4, <4>1
        <4>3. d = ws'[v].outbuf[2] /\ content = ws'[v].in
          BY <2>1, <2>2, <2>3, <3>1, <4>1
        <4>4. IsBlock(ws[v].outbuf[2], ws[v].in)'
          BY <4>2, <4>3
        <4> QED BY <2>5, <4>4 DEF GivenTo
      <3>2. CASE v # thr
        BY <1>6, <2>4, <2>5, <3>2 DEF GivenTo
      <3> QED BY <3>1, <3>2
    <2>9. QueueFits'
      BY <1>7, <2>4
    <2> QED BY <1>2, <2>1, <2>2, <2>3, <2>4, <2>7, <2>8, <2>9
  <1> QED BY <1>8, <1>9

-----------------------------------------------------------------------------
(* ReadOutput fails, reads on in a Block, or finishes with it.             *)
HeadOut ==
  /\ outq.active # <<>> /\ Head(outq.active) \in Buf /\ Head(outq.active) = outq.active[1]
  /\ Head(outq.active).finished /\ BlockFits(Head(outq.active).ret)
  /\ \A b, content : (b = Len(index) + 1 /\ content = Head(outq.active).ret[1]) => IsBlock(b, content)
  /\ index' = Append(index, Head(outq.active).ret) /\ outq'.active = Tail(outq.active)

LEMMA ReadCases ==
  ASSUME TypeInv, FilterInv, Streaming, DataInv, ReadOutput
  PROVE  /\ UNCHANGED <<wl, thr, cuts, accepted, inits>> /\ pc = "read"
         /\ \/ pending' = "Error" /\ index' = index
            \/ /\ UNCHANGED <<ws, pending>> /\ pc' \in {"read", "encode"} /\ call'.action = call.action
               /\ (UNCHANGED index /\ outq'.active = outq.active) \/ HeadOut
  <1>1. UNCHANGED <<wl, thr, cuts, accepted, inits>> /\ pc = "read"
    BY DEF ReadOutput, hist
  <1>2. PICK space : space = call.space
    OBVIOUS
  <1>3. CASE thread_error # "OK"
    BY <1>1, <1>3 DEF ReadOutput, StopAndFail, Return
  <1>4. CASE thread_error = "OK"
    <2>1. outq' = Read(outq, space) /\ call' = [call EXCEPT !.space = @ - Available(outq, space)]
      BY <1>2, <1>4 DEF ReadOutput
    <2>2. call'.action = call.action
      <3>1. call = [action |-> call.action, avail |-> call.avail, space |-> call.space]
        BY DEF TypeInv
      <3> QED BY <2>1, <3>1
    <2>3. \/ pending' = "Error" /\ index' = index
          \/ ~Drains(outq, space) /\ UNCHANGED <<ws, index, pending>> /\ pc' = "encode"
          \/ /\ Drains(outq, space) /\ index' = Append(index, Head(outq.active).ret)
             /\ UNCHANGED <<ws, pending>> /\ pc' \in {"read", "encode"}
      BY <1>2, <1>4 DEF ReadOutput, StopAndFail, Return, Proceed
    <2>4. CASE ~Drains(outq, space) /\ UNCHANGED <<ws, index, pending>> /\ pc' = "encode"
      BY <1>1, <2>1, <2>2, <2>4, ReadType
    <2>5. CASE /\ Drains(outq, space) /\ index' = Append(index, Head(outq.active).ret)
               /\ UNCHANGED <<ws, pending>> /\ pc' \in {"read", "encode"}
      <3>1. outq.active # <<>> /\ Head(outq.active) \in Buf /\ Head(outq.active).finished /\ outq'.active = Tail(outq.active)
        BY <2>1, <2>5, ReadType
      <3>2. Head(outq.active) = outq.active[1] /\ 1 \in DOMAIN outq.active
        <4>1. outq.active \in Seq(Buf)
          BY DEF TypeInv, IsQueue
        <4> QED BY <3>1, <4>1
      <3>3. BlockFits(Head(outq.active).ret)
        BY <3>1, <3>2 DEF FilterInv, BufsFit, Streaming
      <3>4. IsBlock(Len(index) + 1, Head(outq.active).ret[1])
        BY <3>1, <3>2 DEF DataInv, QueueFits
      <3>5. HeadOut
        BY <2>5, <3>1, <3>2, <3>3, <3>4 DEF HeadOut
      <3> QED BY <1>1, <2>2, <2>5, <3>5
    <2> QED BY <1>1, <2>3, <2>4, <2>5
  <1> QED BY <1>3, <1>4

LEMMA ReadData ==
  ASSUME TypeInv, FilterInv, Streaming, DataInv, ReadOutput, pending' # "Error"
  PROVE  Counts' /\ QueueFits' /\ Given'
  <1>1. /\ UNCHANGED <<wl, thr, cuts, accepted, inits, ws>> /\ pc = "read" /\ pc' \in {"read", "encode"}
        /\ (UNCHANGED index /\ outq'.active = outq.active) \/ HeadOut
    BY ReadCases
  <1>2. Open' = Open
    BY <1>1 DEF Open
  <1>3. CASE UNCHANGED index /\ outq'.active = outq.active
    <2>1. pc' # "assign" /\ pc # "encode"
      BY <1>1
    <2> QED BY <1>1, <1>2, <1>3, <2>1, QuietData
  <1>4. CASE HeadOut
    <2>1. Counts /\ QueueFits /\ Given /\ cuts \in Seq(Nat) /\ Promise!LastCut \in Nat
      BY CutTypes DEF DataInv
    <2>2. Promise!LastCut' = Promise!LastCut /\ (\A b, content : IsBlock(b, content)' <=> IsBlock(b, content))
      BY <1>1, SameCut
    <2>3. PICK a \in Seq(Buf), n \in Nat : a = outq.active /\ n = Len(a) /\ DOMAIN a = 1 .. n /\ a # <<>>
      <3>1. outq.active \in Seq(Buf) /\ outq.active # <<>>
        BY <1>4 DEF TypeInv, IsQueue, HeadOut
      <3> QED BY <3>1
    <2>4. PICK b : b = Tail(a) /\ b = outq'.active
      BY <1>4, <2>3 DEF HeadOut
    <2>5. b \in Seq(Buf) /\ Len(b) = n - 1 /\ n >= 1 /\ \A i \in 1 .. n - 1 : b[i] = a[i + 1]
      <3>1. Tail(a) \in Seq(Buf) /\ Len(Tail(a)) = n - 1 /\ \A i \in 1 .. Len(Tail(a)) : Tail(a)[i] = a[i + 1]
        BY <2>3, HeadTailProperties
      <3>2. n >= 1
        BY <2>3
      <3> QED BY <2>4, <3>1, <3>2
    <2>6. PICK m \in Nat, k \in Nat : m = Len(index) /\ k = Len(cuts) /\ m + 1 <= k /\ Len(index') = m + 1
      <3>1. PICK m \in Nat, k \in Nat : m = Len(index) /\ k = Len(cuts)
        BY <2>1, DataTypes
      <3>2. PICK c, d : c = Head(outq.active).ret[1] /\ d = m + 1
        OBVIOUS
      <3>3. IsBlock(d, c)
        BY <1>4, <3>1, <3>2 DEF HeadOut
      <3>4. m + 1 <= k
        BY <3>1, <3>2, <3>3 DEF IsBlock
      <3>5. Len(index') = m + 1
        <4>1. PICK R : R = {"STREAM_END", <<>>} \cup (Seq(Nat) \X Nat)
          OBVIOUS
        <4>2. PICK r : r = Head(outq.active).ret
          OBVIOUS
        <4>3. index \in Seq(R) /\ r \in R /\ index' = Append(index, r)
          BY <1>4, <4>1, <4>2 DEF TypeInv, HeadOut, Buf
        <4>4. Len(Append(index, r)) = Len(index) + 1
          BY <4>3, AppendProperties
        <4> QED BY <3>1, <4>3, <4>4
      <3> QED BY <3>1, <3>4, <3>5
    <2>7. Counts'
      <3>1. OpenBlock' = OpenBlock /\ OpenBlock \in {0, 1}
        BY <1>2 DEF OpenBlock
      <3>2. m + n = k + OpenBlock
        BY <2>1, <2>3, <2>6 DEF Counts
      <3>3. (m + 1) + (n - 1) = k + OpenBlock'
        BY <3>1, <3>2
      <3>4. Len(index') + Len(outq'.active) = Len(cuts') + OpenBlock' /\ Len(index') <= Len(cuts')
        BY <1>1, <2>4, <2>5, <2>6, <3>3
      <3>5. Open' /\ ws'[thr'].state = "RUN" => Promise!LastCut' < accepted'
        BY <1>1, <1>2, <2>1, <2>2 DEF Counts
      <3>6. Promise!LastCut' <= accepted' /\ (~Open' => Promise!LastCut' = accepted')
        BY <1>1, <1>2, <2>1, <2>2 DEF Counts
      <3> QED BY <1>1, <3>4, <3>5, <3>6 DEF Counts
    <2>8. QueueFits'
      <3>1. \A i \in 1 .. n : /\ a[i].job = <<inits, m + i>>
                              /\ a[i].finished => \A d, s : (d = m + i /\ s = a[i].ret[1]) => IsBlock(d, s)
        BY <2>1, <2>3, <2>6 DEF QueueFits
      <3>2. DOMAIN b = 1 .. n - 1 /\ \A i \in 1 .. n - 1 : i + 1 \in 1 .. n /\ m + 1 + i = m + (i + 1)
        BY <2>5
      <3>3. ASSUME NEW i \in 1 .. n - 1
            PROVE  /\ b[i].job = <<inits', Len(index') + i>>
                   /\ b[i].finished => \A d, s : (d = Len(index') + i /\ s = b[i].ret[1]) => IsBlock(d, s)'
        <4>1. b[i] = a[i + 1] /\ Len(index') + i = m + (i + 1) /\ i + 1 \in 1 .. n
          BY <2>5, <2>6, <3>2
        <4> QED BY <1>1, <2>2, <3>1, <4>1
      <3> QED BY <2>4, <3>2, <3>3 DEF QueueFits
    <2>9. Given'
      <3> SUFFICES ASSUME NEW w \in Worker, AtWork(w)' PROVE GivenTo(w)'
        BY DEF Given
      <3>1. GivenTo(w)
        BY <1>1, <2>1 DEF Given, AtWork
      <3>2. CASE Open /\ w = thr
        BY <1>1, <1>2, <2>2, <3>1, <3>2 DEF GivenTo, FedSoFar, Promise!Interval
      <3>3. CASE ~(Open /\ w = thr)
        <4>1. PICK d, content : d = ws[w].outbuf[2] /\ content = ws[w].in
          OBVIOUS
        <4>2. IsBlock(d, content)' /\ d = ws'[w].outbuf[2] /\ content = ws'[w].in
          BY <1>1, <2>2, <3>1, <3>3, <4>1 DEF GivenTo
        <4>3. IsBlock(ws[w].outbuf[2], ws[w].in)'
          BY <4>2
        <4> QED BY <1>1, <1>2, <3>3, <4>3 DEF GivenTo
      <3> QED BY <3>2, <3>3
    <2> QED BY <2>7, <2>8, <2>9
  <1> QED BY <1>1, <1>3, <1>4

-----------------------------------------------------------------------------
(* A new Stream starts with nothing, and nobody is at work on it.          *)
LEMMA RestartData == ASSUME TypeInv, FilterInv, Restart PROVE DataInv'
  <1>1. /\ UNCHANGED <<ws, wl>> /\ pc' = "app" /\ thr' = None /\ index' = <<>> /\ cuts' = <<>> /\ accepted' = 0
        /\ pending' = "RUN" /\ sequence' = "STREAM_HEADER" /\ unsettled' = (unsettled \/ StillDue)
    BY DEF Restart
  <1>2. ~unsettled' => \A w \in Worker : ~AtWork(w)'
    BY <1>1 DEF Restart, AllIdle, StillDue, FilterInv, IdleIsDone, AtWork
  <1>3. outq'.active = <<>>
    BY RestartQueue DEF Restart
  <1>4. CallFits'
    BY <1>1 DEF CallFits, InBlocks
  <1>5. Len(<<>>) = 0
    OBVIOUS
  <1>6. cuts' \in Seq(Nat) /\ Len(cuts') = 0 /\ Len(index') = 0 /\ Len(outq'.active) = 0
    <2>1. PICK e \in Seq(Nat) : e = <<>>
      <3>1. <<>> \in Seq(Nat)
        OBVIOUS
      <3> QED BY <3>1
    <2> QED BY <1>1, <1>3, <1>5, <2>1
  <1>7. Promise!LastCut' = 0 /\ ~Open'
    BY <1>1, <1>6 DEF Promise!LastCut, Promise!CutBefore, Open
  <1>8. Counts'
    <2>1. Len(index') + Len(outq'.active) = Len(cuts') + OpenBlock' /\ Len(index') <= Len(cuts')
      BY <1>6, <1>7 DEF OpenBlock
    <2>2. Promise!LastCut' <= accepted' /\ Promise!LastCut' = accepted'
      BY <1>1, <1>7
    <2> QED BY <1>1, <1>7, <2>1, <2>2 DEF Counts
  <1>9. QueueFits'
    BY <1>3 DEF QueueFits
  <1>10. ~unsettled' => Given'
    BY <1>2 DEF Given
  <1> QED BY <1>1, <1>4, <1>6, <1>8, <1>9, <1>10 DEF DataInv, Streaming, Settled

(* Only a new Stream makes up for one that has failed or is given up.      *)
LEMMA StreamOver ==
  ASSUME Account, [Next]_vars, ~Streaming, ~Restart
  PROVE  ~Streaming' /\ (unsettled' \/ UNCHANGED <<index, cuts, accepted, pending>>)
  <1>1. CASE unsettled
    <2>1. unsettled' = unsettled
      <3>1. ASSUME NEW w \in Worker, WorkerThread(w) PROVE unsettled' = unsettled
        BY <3>1, WorkerKeeps
      <3>2. CASE AppThread
        BY <3>2 DEF AppThread, CopyFixed, ReadOutput, GetThread, AssignThread, FeedThread, BlockError, FedAll,
                    Decide, Wait, TimeOut, Join, hist
      <3>3. CASE Call \/ UpdateFilters \/ Reinit \/ End \/ UNCHANGED vars
        BY <3>3 DEF Call, UpdateFilters, Reinit, End, vars, hist
      <3> QED BY <3>1, <3>2, <3>3 DEF Next
    <2>2. unsettled'
      BY <1>1, <2>1
    <2> QED BY <2>2 DEF Streaming, Settled
  <1>2. CASE ~unsettled /\ (pc \in {"settle", "join", "ended"} \/ pending = "Error")
    <2>1. pending = "Error" => pc \in {"app", "settle", "join", "ended"}
      BY DEF Account, Stops
    <2>2. CASE \E w \in Worker : WorkerThread(w)
      <3>1. UNCHANGED <<index, cuts, accepted, pending, unsettled>> /\ (pc' = pc \/ pc' = Signalled)
        BY <2>2, WorkerKeeps
      <3>2. pc' = pc
        BY <1>2, <2>1, <3>1 DEF Signalled
      <3> QED BY <1>2, <3>1, <3>2 DEF Streaming, Settled
    <2>3. CASE Reinit \/ End \/ Join \/ UNCHANGED vars
      BY <1>2, <2>3 DEF Reinit, End, Join, vars, app, coder, hist, Streaming, Settled
    <2>4. ~Call /\ ~UpdateFilters
      BY <1>2 DEF Call, UpdateFilters
    <2>5. AppThread => Join
      BY <1>2, <2>1 DEF AppThread, CopyFixed, ReadOutput, GetThread, AssignThread, FeedThread, BlockError, FedAll,
                        Decide, Wait, TimeOut
    <2> QED BY <2>2, <2>3, <2>4, <2>5 DEF Next
  <1> QED BY <1>1, <1>2 DEF Streaming, Settled

-----------------------------------------------------------------------------
(* DataInv, call by call.                                                  *)
Sound == (pending' \in {"RUN", "End", "Error"} \cup Flushes) /\ (Streaming' => CallFits' /\ Counts' /\ QueueFits' /\ Given')

LEMMA CallData ==
  ASSUME TypeInv, Streaming, DataInv, Call PROVE UNCHANGED <<index, cuts, accepted>> /\ Sound /\ pending # "End" /\ pending' # "End"
  <1>1. PICK a : /\ a \in IF pending = "RUN" THEN setup.actions ELSE {pending}
                 /\ \E n, s : call' = [action |-> a, avail |-> n, space |-> s]
                 /\ pending' = a
    BY DEF Call
  <1>2. /\ UNCHANGED <<index, cuts, accepted, inits, ws, wl, outq, thr, sequence>> /\ pc = "app" /\ pending # "End"
        /\ pc' = IF sequence = "BLOCK" THEN "read" ELSE "copy"
    BY DEF Call, coder, shared, hist
  <1>3. setup.actions \subseteq {"RUN"} \cup Flushes
    BY StreamEncoderAssumption DEF TypeInv
  <1>4. pending' \in {"RUN"} \cup Flushes /\ call'.action = pending' /\ pending' # "End"
    BY <1>1, <1>2, <1>3 DEF Flushes, Streaming, DataInv
  <1>5. Open' = Open /\ pc' # "assign" /\ pc # "encode"
    BY <1>2 DEF Open
  <1>6. Counts' /\ QueueFits' /\ Given'
    BY <1>2, <1>5, QuietData
  <1>7. CallFits'
    <2>1. sequence \in {"INDEX", "STREAM_FOOTER"} => pending = "FINISH" /\ outq.active = <<>> /\ thr = None
      BY <1>2 DEF DataInv, CallFits
    <2>2. pending = "FINISH" => pending' = "FINISH"
      BY <1>1
    <2> QED BY <1>2, <1>4, <2>1, <2>2 DEF CallFits, InBlocks
  <1> QED BY <1>2, <1>4, <1>6, <1>7 DEF Sound

LEMMA CopyData ==
  ASSUME TypeInv, Streaming, DataInv, CopyFixed
  PROVE  /\ UNCHANGED <<index, cuts, accepted>> /\ Sound /\ pending # "End"
         /\ pending' = "End" => sequence = "STREAM_FOOTER" /\ pending' = "End"
  <1>1. /\ UNCHANGED <<index, cuts, accepted, inits, ws, wl, outq, thr>> /\ pc = "copy"
    BY DEF CopyFixed, shared, hist
  <1>2. call.action = pending /\ pending # "End"
        /\ (sequence \in {"INDEX", "STREAM_FOOTER"} => outq.active = <<>> /\ thr = None /\ pending = "FINISH")
    BY <1>1 DEF DataInv, CallFits
  <1>3. call'.action = call.action
    <2>1. call = [action |-> call.action, avail |-> call.avail, space |-> call.space]
      BY DEF TypeInv
    <2> QED BY <2>1 DEF CopyFixed
  <1>4. \/ pc' = "app" /\ UNCHANGED <<sequence, pending>>
        \/ sequence = "STREAM_HEADER" /\ sequence' = "BLOCK" /\ pc' = "read" /\ UNCHANGED pending
        \/ sequence = "INDEX" /\ sequence' = "STREAM_FOOTER" /\ pc' = "copy" /\ UNCHANGED pending
        \/ sequence = "STREAM_FOOTER" /\ UNCHANGED sequence /\ pc' = "app" /\ pending' = "End"
    BY <1>2 DEF CopyFixed, Return, Proceed
  <1>5. Open' = Open /\ pc' # "assign" /\ pc # "encode"
    BY <1>1, <1>4 DEF Open
  <1>6. Counts' /\ QueueFits' /\ Given'
    BY <1>1, <1>5, QuietData
  <1>7. CallFits'
    BY <1>1, <1>2, <1>3, <1>4 DEF CallFits, InBlocks
  <1>8. pending' \in {"RUN", "End", "Error"} \cup Flushes
    BY <1>4 DEF DataInv
  <1> QED BY <1>1, <1>2, <1>4, <1>6, <1>7, <1>8 DEF Sound

(* The loop of SEQ_BLOCK goes on, or leaves without changing the sequence. *)
LEMMA BlockLoop ==
  ASSUME DataInv, Streaming, pc \in InBlocks, sequence' = sequence, pc' # "app" => call'.action = call.action,
         \/ pc' \in InBlocks /\ pending' = pending
         \/ pc' = "app" /\ pending' \in {"RUN", "Error", pending}
  PROVE  CallFits' /\ pending' \in {"RUN", "Error"} \cup Flushes /\ pending # "End"
  <1>1. sequence = "BLOCK" /\ call.action = pending /\ pending # "End" /\ pending \in {"RUN", "End", "Error"} \cup Flushes
    BY DEF DataInv, CallFits, InBlocks
  <1>2. pending' # "End" /\ pending' \in {"RUN", "Error"} \cup Flushes
    BY <1>1
  <1> QED BY <1>1, <1>2 DEF CallFits, InBlocks

LEMMA WaitData ==
  ASSUME TypeInv, Streaming, DataInv, FedAll \/ Wait \/ TimeOut \/ BlockError
  PROVE  UNCHANGED <<index, cuts, accepted>> /\ Sound /\ pending # "End" /\ pending' # "End"
  <1>1. /\ UNCHANGED <<index, cuts, accepted, inits, wl, outq, thr, sequence, call>> /\ pc \in InBlocks /\ pc # "assign"
        /\ ws' = ws \/ pending' = "Error"
        /\ \/ pc' \in InBlocks /\ pending' = pending /\ pc' # "assign"
           \/ pc' = "app" /\ pending' \in {"Error", pending}
    BY DEF FedAll, Wait, TimeOut, BlockError, StopAndFail, Return, Proceed, InBlocks, app, coder, shared, hist
  <1>2. CallFits' /\ pending' \in {"RUN", "Error"} \cup Flushes /\ pending # "End"
    BY <1>1, BlockLoop
  <1>3. pc = "encode" => call.avail = 0
    <2>1. pc = "encode" => ~(call.avail > 0)
      BY DEF FedAll, Wait, TimeOut, BlockError, MoreToFeed
    <2> QED BY <2>1, DataTypes
  <1>4. Open' = Open /\ pc' # "assign"
    BY <1>1 DEF Open
  <1>5. pending' # "Error" => Counts' /\ QueueFits' /\ Given'
    BY <1>1, <1>3, <1>4, QuietData
  <1>6. pending' # "End"
    BY <1>2 DEF Flushes
  <1> QED BY <1>1, <1>2, <1>5, <1>6 DEF Sound, Streaming

LEMMA GetThreadData ==
  ASSUME TypeInv, Streaming, DataInv, GetThread
  PROVE  UNCHANGED <<index, cuts, accepted>> /\ Sound /\ pending # "End" /\ pending' # "End"
  <1>1. /\ UNCHANGED <<index, cuts, accepted, inits, wl, sequence, call>> /\ pc = "encode" /\ thr = None
        /\ ws' = ws \/ pending' = "Error"
        /\ \/ pc' = "assign" /\ pending' = pending
           \/ pc' = "decide" /\ pending' = pending /\ thr' = thr
           \/ pc' = "app" /\ pending' = "Error"
    BY DEF GetThread, StopAndFail, Return, Proceed, hist
  <1>2. CallFits' /\ pending' \in {"RUN", "Error"} \cup Flushes /\ pending # "End"
    BY <1>1, BlockLoop DEF InBlocks
  <1>3. call'.avail > 0
    BY <1>1 DEF GetThread, MoreToFeed
  <1>4. outq'.active = outq.active
    <2>1. PICK p : p = PreallocBuf(outq, BufSize)
      OBVIOUS
    <2>2. p.active = outq.active
      <3>1. IsQueue(outq, Buf, {BufSize}) /\ BufSize \in {BufSize}
        BY DEF TypeInv
      <3> QED BY <2>1, <3>1, Preallocated
    <2>3. outq' \in {outq, p}
      BY <2>1 DEF GetThread
    <2> QED BY <2>2, <2>3
  <1>5. pending' # "Error" => Open' = Open /\ ~Open
    BY <1>1 DEF Open
  <1>6. pending' # "Error" => Counts' /\ QueueFits' /\ Given'
    BY <1>1, <1>3, <1>4, <1>5, QuietData
  <1>7. pending' # "End"
    BY <1>2 DEF Flushes
  <1> QED BY <1>1, <1>2, <1>6, <1>7 DEF Sound, Streaming

(* The Index is written when every Block is: all are closed by then.       *)
LEMMA DecideData ==
  ASSUME TypeInv, Streaming, DataInv, Decide
  PROVE  UNCHANGED <<index, cuts, accepted>> /\ Sound /\ pending # "End" /\ pending' # "End"
  <1>1. UNCHANGED <<index, cuts, accepted, inits, ws, wl, outq, thr, call>> /\ pc = "decide"
    BY DEF Decide, shared, hist
  <1>2. sequence = "BLOCK" /\ call.action = pending /\ pending # "End" /\ pending \in {"RUN", "End", "Error"} \cup Flushes
    BY <1>1 DEF DataInv, CallFits, InBlocks
  <1>3. \/ pc' = "app" /\ pending' \in {"RUN", "Error", pending} /\ sequence' = sequence
        \/ pc' = "wait" /\ pending' = pending /\ sequence' = sequence
        \/ pc' = "copy" /\ pending' = pending /\ pending = "FINISH" /\ sequence' = "INDEX" /\ outq.active = <<>>
    <2>1. CASE call.avail = 0 /\ (call.action = "RUN" \/ call.action = "FULL_BARRIER")
      BY <1>2, <2>1 DEF Decide, Return
    <2>2. CASE ~(call.avail = 0 /\ (call.action = "RUN" \/ call.action = "FULL_BARRIER")) /\ call.avail = 0 /\ Drained /\ call.action = "FULL_FLUSH"
      BY <1>2, <2>2 DEF Decide, Return
    <2>3. CASE call.avail = 0 /\ Drained /\ call.action = "FINISH"
      <3>1. outq.active = <<>> /\ pending = "FINISH"
        BY <1>2, <2>3 DEF Drained, IsEmpty
      <3>2. \/ sequence' = "INDEX" /\ Proceed("copy")
            \/ sequence' = sequence /\ Return("ERROR")
        BY <2>3 DEF Decide
      <3> QED BY <3>1, <3>2 DEF Proceed, Return
    <2>4. CASE /\ ~(call.avail = 0 /\ call.action = "RUN") /\ ~(call.avail = 0 /\ call.action = "FULL_BARRIER")
               /\ ~(call.avail = 0 /\ Drained /\ call.action = "FULL_FLUSH")
               /\ ~(call.avail = 0 /\ Drained /\ call.action = "FINISH")
      BY <1>2, <2>4 DEF Decide, Return, Proceed
    <2> QED BY <2>1, <2>2, <2>3, <2>4
  <1>4. outq.active = <<>> => thr = None
    <2>1. Len(index) + Len(outq.active) = Len(cuts) + OpenBlock /\ Len(index) <= Len(cuts)
          /\ Len(index) \in Nat /\ Len(cuts) \in Nat
      BY DataTypes, CutTypes DEF DataInv, Counts
    <2>2. outq.active = <<>> => Len(outq.active) = 0
      OBVIOUS
    <2>3. OpenBlock \in {0, 1}
      BY DEF OpenBlock
    <2>4. outq.active = <<>> => OpenBlock = 0
      BY <2>1, <2>2, <2>3
    <2>5. Open => OpenBlock = 1
      BY DEF OpenBlock
    <2> QED BY <1>1, <2>4, <2>5 DEF Open
  <1>5. CallFits' /\ pending' \in {"RUN", "End", "Error"} \cup Flushes /\ pending' # "End"
    BY <1>1, <1>2, <1>3, <1>4 DEF CallFits, InBlocks
  <1>6. Open' = Open /\ pc' # "assign" /\ pc # "encode"
    BY <1>1, <1>3 DEF Open
  <1>7. Counts' /\ QueueFits' /\ Given'
    BY <1>1, <1>6, QuietData
  <1> QED BY <1>1, <1>2, <1>5, <1>7 DEF Sound

LEMMA BlockData ==
  ASSUME TypeInv, Account, FilterInv, ThreadInv, Streaming, DataInv, ReadOutput \/ AssignThread \/ FeedThread
  PROVE  Sound /\ pending # "End" /\ pending' # "End"
  <1>1. /\ sequence' = sequence /\ pc \in InBlocks
        /\ call'.action = call.action \/ pc' = "app"
        /\ \/ pc' \in InBlocks /\ pending' = pending
           \/ pc' = "app" /\ pending' = "Error"
    <2>1. CASE ReadOutput
      <3>1. sequence' = sequence
        BY <2>1 DEF ReadOutput
      <3>2. pending' = "Error" => pc' = "app"
        <4>1. pending # "Error"
          BY DEF Streaming
        <4> QED BY <2>1, <4>1 DEF ReadOutput, StopAndFail, Return, Proceed
      <3> QED BY <2>1, <3>1, <3>2, ReadCases DEF InBlocks
    <2>2. CASE AssignThread
      BY <2>2 DEF AssignThread, app, InBlocks
    <2>3. CASE FeedThread
      <3>1. PICK n \in Nat, more \in Seq(Nat), done \in BOOLEAN : Feeds(n, more, done)
        BY <2>3, FedMore
      <3>2. call'.action = call.action /\ pc' \in {pc, "blockerror"}
        BY <3>1 DEF Feeds
      <3> QED BY <2>3, <3>2 DEF FeedThread, InBlocks
    <2> QED BY <2>1, <2>2, <2>3
  <1>2. CallFits' /\ pending' \in {"RUN", "Error"} \cup Flushes /\ pending # "End"
    BY <1>1, BlockLoop
  <1>3. pending' # "Error" => Counts' /\ QueueFits' /\ Given'
    BY ReadData, AssignData, FeedData
  <1>4. pending' # "End"
    BY <1>2 DEF Flushes
  <1> QED BY <1>2, <1>3, <1>4 DEF Sound, Streaming

LEMMA WorkerData ==
  ASSUME TypeInv, Account, FilterInv, ThreadInv, Streaming, DataInv, NEW w \in Worker, WorkerThread(w)
  PROVE  Sound
  <1>1. /\ UNCHANGED <<call, pending, sequence, thr, index, inits, accepted, cuts>>
        /\ pc' = pc \/ pc' = Signalled
    BY WorkerKeeps
  <1>2. pending' \in {"RUN", "End", "Error"} \cup Flushes
    BY <1>1 DEF DataInv
  <1>3. CASE Report(w)
    <2>1. outq.active = <<>> => outq'.active = <<>>
      <3> SUFFICES ASSUME outq.active = <<>> PROVE outq' = outq
        OBVIOUS
      <3>1. Places(w) = {}
        <4>1. DOMAIN outq.active = {}
          <5>1. DOMAIN <<>> = {}
            OBVIOUS
          <5> QED BY <5>1
        <4> QED BY <4>1 DEF Places
      <3>2. outq' \in FinishedIfWhole(w)
        BY <1>3 DEF Report
      <3>3. ~Late(w)
        BY <1>3 DEF Late, Report, AtWork, FilterInv, JobsFit, JobFits, Streaming
      <3> QED BY <3>1, <3>2, <3>3 DEF FinishedIfWhole
    <2>2. CallFits'
      BY <1>1, <2>1 DEF DataInv, CallFits, InBlocks, Signalled
    <2> QED BY <1>2, <1>3, <2>2, ReportData DEF Sound
  <1>4. CASE ~Report(w)
    <2>1. outq' = outq
      BY <1>4, WorkerKeeps
    <2>2. CallFits'
      BY <1>1, <2>1 DEF DataInv, CallFits, InBlocks, Signalled
    <2>3. Works(w)
      BY <1>4, TakeCommandWorks, EncodeChunkWorks, StoreBlockWorks, WorkerErrorWorks, ReleaseWorks DEF WorkerThread
    <2>4. Counts' /\ QueueFits' /\ Given'
      BY <1>1, <2>1, <2>3, WorkedData
    <2> QED BY <1>2, <2>2, <2>4 DEF Sound
  <1> QED BY <1>3, <1>4

LEMMA DataInit == Init => DataInv
  <1> SUFFICES ASSUME Init PROVE DataInv
    OBVIOUS
  <1>1. /\ pc = "app" /\ pending = "RUN" /\ sequence = "STREAM_HEADER" /\ thr = None /\ index = <<>> /\ cuts = <<>>
        /\ accepted = 0 /\ outq.active = <<>>
    BY DEF Init, Empty
  <1>2. \A w \in Worker : ~AtWork(w)
    BY DEF Init, AtWork, IdleWorker, IdleThread
  <1>3. cuts \in Seq(Nat) /\ Len(cuts) = 0 /\ Len(index) = 0 /\ Len(outq.active) = 0
    <2>1. PICK e \in Seq(Nat) : e = <<>> /\ Len(e) = 0
      <3>1. <<>> \in Seq(Nat) /\ Len(<<>>) = 0
        OBVIOUS
      <3> QED BY <3>1
    <2> QED BY <1>1, <2>1
  <1>4. Promise!LastCut = 0 /\ ~Open
    BY <1>1, <1>3 DEF Promise!LastCut, Promise!CutBefore, Open
  <1>5. Counts
    <2>1. Len(index) + Len(outq.active) = Len(cuts) + OpenBlock /\ Len(index) <= Len(cuts)
      BY <1>3, <1>4 DEF OpenBlock
    <2>2. Promise!LastCut <= accepted /\ Promise!LastCut = accepted
      BY <1>1, <1>4
    <2> QED BY <1>1, <1>4, <2>1, <2>2 DEF Counts
  <1>6. CallFits /\ QueueFits /\ Given
    BY <1>1, <1>2 DEF CallFits, InBlocks, QueueFits, Given
  <1> QED BY <1>1, <1>3, <1>5, <1>6 DEF DataInv

(* What a step of a Stream under way does: it keeps DataInv, and all it    *)
(* shows is a Block read out, input taken, or the end of the Footer.       *)
LEMMA UnderWay ==
  ASSUME TypeInv, Account, FilterInv, ThreadInv, Streaming, DataInv, Next
  PROVE  Sound /\ cuts' \in Seq(Nat)
  <1>1. cuts \in Seq(Nat)
    BY DEF DataInv
  <1>2. CASE Call \/ CopyFixed \/ FedAll \/ Wait \/ TimeOut \/ BlockError \/ GetThread \/ Decide
    BY <1>1, <1>2, CallData, CopyData, WaitData, GetThreadData, DecideData
  <1>3. CASE ReadOutput \/ AssignThread \/ FeedThread
    <2>1. cuts' \in Seq(Nat)
      BY <1>1, <1>3, FeedData DEF ReadOutput, AssignThread, hist
    <2> QED BY <1>3, <2>1, BlockData
  <1>4. CASE UpdateFilters
    <2>1. UNCHANGED <<index, cuts, accepted, inits, ws, wl, outq, thr, sequence, call, pending, pc>> /\ pc = "app"
      BY <1>4 DEF UpdateFilters, app, shared, hist
    <2>2. Open' = Open
      BY <2>1 DEF Open
    <2>3. Counts' /\ QueueFits' /\ Given'
      BY <2>1, <2>2, QuietData
    <2> QED BY <1>1, <2>1, <2>3 DEF Sound, DataInv, CallFits
  <1>5. CASE Reinit \/ End
    BY <1>1, <1>5 DEF Reinit, End, app, hist, Sound, Streaming, Settled, DataInv
  <1>6. ~Restart /\ ~Join
    BY DEF Restart, Join, Streaming, Settled
  <1>7. ASSUME NEW w \in Worker, WorkerThread(w) PROVE Sound /\ cuts' \in Seq(Nat)
    BY <1>1, <1>7, WorkerData, WorkerKeeps
  <1> QED BY <1>2, <1>3, <1>4, <1>5, <1>6, <1>7 DEF Next, AppThread

LEMMA DataStep == TypeInv /\ Account /\ FilterInv /\ ThreadInv /\ DataInv /\ [Next]_vars => DataInv'
  <1> SUFFICES ASSUME TypeInv, Account, FilterInv, ThreadInv, DataInv, [Next]_vars PROVE DataInv'
    OBVIOUS
  <1>1. CASE Restart
    BY <1>1, RestartData
  <1>2. CASE ~Restart /\ ~Streaming
    <2>1. ~Streaming'
      BY <1>2, StreamOver
    <2>2. cuts' \in Seq(Nat) /\ pending' \in {"RUN", "End", "Error"} \cup Flushes
      <3>1. cuts \in Seq(Nat) /\ pending \in {"RUN", "End", "Error"} \cup Flushes
        BY DEF DataInv
      <3>2. CASE UNCHANGED <<cuts, pending>>
        BY <3>1, <3>2
      <3>3. CASE Call
        <4>1. setup.actions \subseteq {"RUN"} \cup Flushes
          BY StreamEncoderAssumption DEF TypeInv
        <4> QED BY <3>1, <3>3, <4>1 DEF Call, hist
      <3>4. CASE CopyFixed \/ Decide
        <4>1. UNCHANGED cuts
          BY <3>4 DEF CopyFixed, Decide, hist
        <4>2. pending' \in {pending, "End", "RUN", "Error"}
          BY <3>4 DEF CopyFixed, Decide, Return, Proceed
        <4> QED BY <3>1, <4>1, <4>2
      <3>5. CASE ReadOutput \/ GetThread \/ BlockError \/ TimeOut
        <4>1. UNCHANGED cuts
          BY <3>5 DEF ReadOutput, GetThread, BlockError, TimeOut, hist
        <4>2. pending' \in {pending, "Error"}
          BY <3>5 DEF ReadOutput, GetThread, BlockError, TimeOut, StopAndFail, Return, Proceed
        <4> QED BY <3>1, <4>1, <4>2
      <3>6. CASE FeedThread
        <4>1. PICK n \in Nat, more \in Seq(Nat), done \in BOOLEAN : Feeds(n, more, done)
          BY <3>6, FedMore
        <4>2. PICK c \in Nat : c = accepted + n
          BY DataTypes
        <4>3. cuts' = cuts \/ cuts' = Append(cuts, c)
          BY <4>1, <4>2 DEF Feeds
        <4>4. Append(cuts, c) \in Seq(Nat)
          BY <3>1, AppendProperties
        <4>5. pending' = pending
          BY <3>6 DEF FeedThread
        <4> QED BY <3>1, <4>3, <4>4, <4>5
      <3>7. CASE UpdateFilters \/ Reinit \/ End \/ AssignThread \/ FedAll \/ Wait \/ Join \/ UNCHANGED vars
        BY <3>2, <3>7 DEF UpdateFilters, Reinit, End, AssignThread, FedAll, Wait, Join, vars, app, hist
      <3>8. ASSUME NEW w \in Worker, WorkerThread(w) PROVE UNCHANGED <<cuts, pending>>
        BY <3>8, WorkerKeeps
      <3> QED BY <1>2, <3>2, <3>3, <3>4, <3>5, <3>6, <3>7, <3>8 DEF Next, AppThread
    <2> QED BY <2>1, <2>2 DEF DataInv
  <1>3. CASE Streaming /\ Next
    BY <1>3, UnderWay DEF Sound, DataInv
  <1>4. CASE UNCHANGED vars
    <2>1. UNCHANGED <<index, cuts, accepted, inits, ws, wl, outq, thr, sequence, call, pending, pc, unsettled>>
      BY <1>4 DEF vars, app, coder, shared, hist
    <2>2. Open' = Open /\ Streaming' = Streaming
      BY <2>1 DEF Open, Streaming, Settled
    <2>3. CallFits => CallFits'
      BY <2>1 DEF CallFits
    <2>4. \A b, content : IsBlock(b, content)' <=> IsBlock(b, content)
      BY <2>1, SameCut
    <2>5. Counts => Counts'
      BY <2>1, <2>2, SameCut DEF Counts, OpenBlock
    <2>6. QueueFits => QueueFits'
      BY <2>1, <2>4 DEF QueueFits
    <2>7. Given => Given'
      BY <2>1, <2>2 DEF Given, GivenTo, FedSoFar, AtWork, IsBlock, Promise!BlockData, Promise!LastCut, Promise!CutBefore, Promise!Interval
    <2> QED BY <2>1, <2>2, <2>3, <2>5, <2>6, <2>7 DEF DataInv
  <1> QED BY <1>1, <1>2, <1>3, <1>4


-----------------------------------------------------------------------------
(* The refinement, step by step: a Block is delivered where its buffer     *)
(* leaves the queue, input accepted and Blocks closed where a thread is    *)
(* fed, the Stream finished where the Footer is out.                       *)
Output == [b \in DOMAIN index |-> index[b][1]]
Keeps  == Promise!Next \/ UNCHANGED Promise!vars

LEMMA Invisible ==
  ASSUME UNCHANGED <<index, cuts, accepted>>, pending' = "End" <=> pending = "End" PROVE UNCHANGED Promise!vars
  BY DEF Promise!vars

LEMMA ReadDelivers ==
  ASSUME TypeInv, FilterInv, Streaming, DataInv, ReadOutput, pending # "End", pending' # "End" PROVE Keeps
  <1>1. UNCHANGED <<cuts, accepted>> /\ (UNCHANGED index \/ HeadOut)
    BY ReadCases
  <1>2. CASE UNCHANGED index
    BY <1>1, <1>2, Invisible DEF Keeps
  <1>3. CASE HeadOut
    <2>1. PICK r \in Seq(Nat) \X Nat : r = Head(outq.active).ret /\ index' = Append(index, r)
      BY <1>3 DEF HeadOut, BlockFits
    <2>2. PICK R : R = {"STREAM_END", <<>>} \cup (Seq(Nat) \X Nat)
      OBVIOUS
    <2>3. index \in Seq(R) /\ r \in R
      BY <2>1, <2>2 DEF TypeInv
    <2>4. PICK n \in Nat : n = Len(index) /\ DOMAIN index = 1 .. n
      BY <2>3
    <2>5. PICK s : s = Append(index, r) /\ s = index'
      BY <2>1
    <2>6. s \in Seq(R) /\ Len(s) = n + 1 /\ DOMAIN s = 1 .. n + 1 /\ s[n + 1] = r /\ \A b \in 1 .. n : s[b] = index[b]
      <3>1. s \in Seq(R) /\ Len(s) = n + 1 /\ s[n + 1] = r /\ \A b \in 1 .. n : s[b] = index[b]
        <4>1. Append(index, r) \in Seq(R) /\ Len(Append(index, r)) = Len(index) + 1
              /\ Append(index, r)[Len(index) + 1] = r /\ \A b \in 1 .. Len(index) : Append(index, r)[b] = index[b]
          BY <2>3, AppendProperties
        <4> QED BY <2>4, <2>5, <4>1
      <3> QED BY <3>1
    <2>7. \A b \in 1 .. n : index[b][1] \in Seq(Nat)
      BY <2>4 DEF FilterInv, IndexFits, BlockFits, Streaming, Settled
    <2>8. PICK o : o = Output /\ o = [b \in 1 .. n |-> index[b][1]]
      BY <2>4 DEF Output
    <2>9. o \in Seq(Seq(Nat)) /\ Len(o) = n
      <3>1. o \in [1 .. n -> Seq(Nat)] /\ DOMAIN o = 1 .. n
        BY <2>7, <2>8
      <3> QED BY <3>1
    <2>10. PICK d \in Seq(Nat) : d = r[1]
      BY <2>1
    <2>11. PICK p : p = Output' /\ p = [b \in 1 .. n + 1 |-> s[b][1]]
      BY <2>5, <2>6 DEF Output
    <2>12. \A b \in 1 .. n + 1 : p[b] = IF b = n + 1 THEN d ELSE o[b]
      <3>1. \A b \in 1 .. n + 1 : b = n + 1 \/ b \in 1 .. n
        OBVIOUS
      <3> QED BY <2>6, <2>8, <2>10, <2>11, <3>1
    <2>13. p = Append(o, d)
      <3>1. PICK q : q = Append(o, d)
        OBVIOUS
      <3>2. q \in Seq(Seq(Nat)) /\ Len(q) = n + 1 /\ q[n + 1] = d /\ \A b \in 1 .. n : q[b] = o[b]
        BY <2>9, <3>1, AppendProperties
      <3>3. \A b \in 1 .. n + 1 : p[b] = q[b] /\ p[b] \in Seq(Nat)
        <4>1. \A b \in 1 .. n + 1 : b = n + 1 \/ b \in 1 .. n
          OBVIOUS
        <4>2. \A b \in 1 .. n : o[b] \in Seq(Nat)
          BY <2>7, <2>8
        <4> QED BY <2>12, <3>2, <4>1, <4>2
      <3>4. p \in Seq(Seq(Nat)) /\ Len(p) = n + 1
        <4>1. p \in [1 .. n + 1 -> Seq(Nat)] /\ DOMAIN p = 1 .. n + 1
          BY <2>11, <3>3
        <4> QED BY <4>1
      <3>5. p = q
        BY <3>2, <3>3, <3>4, SeqEqual
      <3> QED BY <3>1, <3>5
    <2>14. n + 1 \in 1 .. Len(cuts) /\ d = Promise!BlockData(n + 1)
      <3>1. PICK b, content : b = n + 1 /\ content = d
        OBVIOUS
      <3>2. IsBlock(b, content)
        BY <1>3, <2>1, <2>4, <2>10, <3>1 DEF HeadOut
      <3> QED BY <3>1, <3>2 DEF IsBlock
    <2>15. Len(Output) < Len(cuts) /\ Output' = Append(Output, Promise!BlockData(Len(Output) + 1))
      <3>1. Len(cuts) \in Nat
        BY CutTypes DEF DataInv
      <3>2. n < Len(cuts)
        BY <2>14, <3>1
      <3> QED BY <2>8, <2>9, <2>11, <2>13, <2>14, <3>2
    <2>16. Promise!Deliver
      BY <1>1, <2>15 DEF Promise!Deliver, Output
    <2> QED BY <2>16 DEF Promise!Next, Keeps
  <1> QED BY <1>1, <1>2, <1>3

LEMMA FeedAccepts ==
  ASSUME TypeInv, Account, FilterInv, ThreadInv, Streaming, DataInv, FeedThread, pending # "End" PROVE Keeps
  <1>1. UNCHANGED <<index, pending>>
    BY DEF FeedThread
  <1>2. accepted' \in Nat
    <2>1. PICK n \in Nat, more \in Seq(Nat), done \in BOOLEAN : Feeds(n, more, done)
      BY FedMore
    <2> QED BY <2>1, DataTypes DEF Feeds
  <1>3. accepted' >= accepted /\ (cuts' = cuts \/ (accepted' > Promise!LastCut /\ cuts' = Append(cuts, accepted')))
    BY FeedData
  <1>4. Promise!Accept
    BY <1>1, <1>2, <1>3 DEF Promise!Accept
  <1> QED BY <1>4 DEF Promise!Next, Keeps

LEMMA FooterFinishes ==
  ASSUME TypeInv, FilterInv, Streaming, DataInv, CopyFixed PROVE Keeps
  <1>1. UNCHANGED <<index, cuts, accepted>> /\ pending # "End" /\ (pending' = "End" => sequence = "STREAM_FOOTER")
    BY CopyData
  <1>2. CASE pending' = "End"
    <2>1. outq.active = <<>> /\ ~Open
      BY <1>1, <1>2 DEF DataInv, CallFits, Open
    <2>2. PICK m \in Nat, k \in Nat : m = Len(index) /\ k = Len(cuts)
      BY DataTypes, CutTypes DEF DataInv
    <2>3. Promise!LastCut = accepted /\ m = k
      <3>1. Len(index) + Len(outq.active) = Len(cuts) + OpenBlock /\ OpenBlock = 0
        BY <2>1 DEF DataInv, Counts, OpenBlock
      <3>2. Len(outq.active) = 0
        BY <2>1
      <3> QED BY <2>1, <2>2, <3>1, <3>2 DEF DataInv, Counts
    <2>4. Len(Output) = m
      <3>1. PICK R : R = {"STREAM_END", <<>>} \cup (Seq(Nat) \X Nat)
        OBVIOUS
      <3>2. index \in Seq(R)
        BY <3>1 DEF TypeInv
      <3>3. DOMAIN index = 1 .. m
        BY <2>2, <3>2
      <3>4. \A b \in 1 .. m : index[b][1] \in Seq(Nat)
        BY <3>3 DEF FilterInv, IndexFits, BlockFits, Streaming, Settled
      <3>5. Output \in [1 .. m -> Seq(Nat)] /\ DOMAIN Output = 1 .. m
        BY <3>3, <3>4 DEF Output
      <3> QED BY <3>5
    <2>5. Promise!Finish
      BY <1>1, <1>2, <2>2, <2>3, <2>4 DEF Promise!Finish, Output
    <2> QED BY <1>1, <2>5 DEF Promise!Next, Keeps
  <1>3. CASE pending' # "End"
    BY <1>1, <1>3, Invisible DEF Keeps
  <1> QED BY <1>2, <1>3

LEMMA StepImplements ==
  ASSUME TypeInv, Account, FilterInv, ThreadInv, DataInv, [Next]_vars
  PROVE  unsettled' \/ Keeps \/ (Restart /\ (Promise!Init)')
  <1>1. CASE Restart
    <2>1. accepted' = 0 /\ cuts' = <<>> /\ index' = <<>> /\ pending' = "RUN"
      BY <1>1 DEF Restart
    <2>2. [b \in DOMAIN index' |-> index'[b][1]] = <<>>
      BY <2>1
    <2> QED BY <1>1, <2>1, <2>2 DEF Promise!Init
  <1>2. CASE ~Restart /\ ~Streaming
    <2>1. unsettled' \/ UNCHANGED <<index, cuts, accepted, pending>>
      BY <1>2, StreamOver
    <2> QED BY <2>1, Invisible DEF Keeps
  <1>3. CASE Streaming
    <2>1. CASE Call \/ FedAll \/ Wait \/ TimeOut \/ BlockError \/ GetThread \/ Decide
      <3>1. UNCHANGED <<index, cuts, accepted>> /\ pending # "End" /\ pending' # "End"
        BY <1>3, <2>1, CallData, WaitData, GetThreadData, DecideData
      <3> QED BY <3>1, Invisible DEF Keeps
    <2>2. CASE CopyFixed
      BY <1>3, <2>2, FooterFinishes
    <2>3. CASE ReadOutput
      BY <1>3, <2>3, BlockData, ReadDelivers
    <2>4. CASE FeedThread
      BY <1>3, <2>4, BlockData, FeedAccepts
    <2>5. CASE AssignThread \/ UpdateFilters \/ Reinit \/ End \/ UNCHANGED vars
      <3>1. UNCHANGED <<index, cuts, accepted, pending>>
        BY <2>5 DEF AssignThread, UpdateFilters, Reinit, End, vars, app, coder, hist
      <3> QED BY <3>1, Invisible DEF Keeps
    <2>6. ~Restart /\ ~Join
      BY <1>3 DEF Restart, Join, Streaming, Settled
    <2>7. ASSUME NEW w \in Worker, WorkerThread(w) PROVE Keeps
      <3>1. UNCHANGED <<index, cuts, accepted, pending>>
        BY <2>7, WorkerKeeps
      <3> QED BY <3>1, Invisible DEF Keeps
    <2> QED BY <2>1, <2>2, <2>3, <2>4, <2>5, <2>6, <2>7 DEF Next, AppThread
  <1> QED BY <1>1, <1>2, <1>3

(* The threaded encoder of the C library implements OrderedBlocks: with    *)
(* any number of threads, whatever fails, is stopped or is initialised     *)
(* again, only whole Blocks are written, each once and in input order, and *)
(* the Stream ends only when all are out (up to unsettled).                *)
THEOREM EncoderCImplementsOrderedBlocks == Spec => ImplementsOrderedBlocks
  <1>1. Init => Promise!Init
    <2>1. Init => [b \in DOMAIN index |-> index[b][1]] = <<>>
      BY DEF Init
    <2> QED BY <2>1 DEF Init, Promise!Init
  <1>2. Init => FilterInv /\ ThreadInv /\ DataInv
    BY FilterInit, ThreadInit, DataInit
  <1>3. TypeInv /\ Account /\ FilterInv /\ ThreadInv /\ DataInv /\ [Next]_vars => FilterInv' /\ ThreadInv' /\ DataInv'
    BY FilterStep, ThreadStep, DataStep
  <1>4. TypeInv /\ Account /\ FilterInv /\ ThreadInv /\ DataInv /\ [Next]_vars
          => [unsettled' \/ Promise!Next \/ (Restart /\ (Promise!Init)')]_(Promise!vars)
    BY StepImplements DEF Keeps
  <1> QED BY <1>1, <1>2, <1>3, <1>4, EncoderAccount, PTL DEF Spec, ImplementsOrderedBlocks

-----------------------------------------------------------------------------
(* What the threads say of their Blocks, as a sum.                         *)
ProgressFold(f, threads, S) ==
  f = [s \in SUBSET S |-> IF s = {} THEN 0
                          ELSE LET x == CHOOSE x \in s : TRUE IN threads[x].progress_in + f[s \ {x}]]
SaidBy(threads) == [w \in Worker |-> threads[w].progress_in]

LEMMA SaidType ==
  ASSUME NEW threads \in [Worker -> WorkerType]
  PROVE  \A w \in Worker : SaidBy(threads)[w] = threads[w].progress_in /\ SaidBy(threads)[w] \in Nat
  BY DEF SaidBy, WorkerType

LEMMA ProgressIsSum ==
  ASSUME NEW threads \in [Worker -> WorkerType]
  PROVE  ProgressOf(threads) = SumTo(SaidBy(threads), Threads)
  <1>1. PICK n \in Nat : n = Threads
    BY QueueAssumption
  <1>2. PICK S : S = 1 .. n
    OBVIOUS
  <1>3. Worker = S /\ DOMAIN threads = S
    BY <1>1, <1>2 DEF Worker
  <1>4. PICK v : v = SaidBy(threads)
    OBVIOUS
  <1>5. IntsOn(v, S) /\ \A i \in S : v[i] = threads[i].progress_in
    BY <1>3, <1>4, SaidType DEF IntsOn
  <1>6. PICK f : f = CHOOSE g : ProgressFold(g, threads, S)
    OBVIOUS
  <1>7. PICK b \in Int : b = 0
    OBVIOUS
  <1>8. ProgressFold(f, threads, S)
    <2>1. PICK g \in [SUBSET S -> Int] : AddsUp(g, v, S, b)
      BY <1>2, <1>5, FoldExists
    <2>2. ASSUME NEW s \in SUBSET S, s # {} PROVE g[s] = threads[Some(s)].progress_in + g[s \ {Some(s)}]
      <3>1. Some(s) \in s
        BY <2>2, SomeIn
      <3>2. PICK t \in SUBSET S : t = s \ {Some(s)}
        OBVIOUS
      <3>3. g[t] \in Int
        BY <2>1
      <3> QED BY <1>5, <2>1, <2>2, <3>1, <3>2, <3>3 DEF AddsUp
    <2>3. g[{}] = 0
      BY <1>7, <2>1 DEF AddsUp
    <2>4. ProgressFold(g, threads, S)
      BY <2>1, <2>2, <2>3 DEF Some, ProgressFold
    <2> QED BY <1>6, <2>4
  <1>9. ProgressOf(threads) = f[S]
    BY <1>3, <1>6 DEF ProgressFold, ProgressOf, FoldFunction, FoldFunctionOnSet, MapThenFoldSet
  <1>10. AddsUp(f, v, S, b)
    <2>1. ASSUME NEW s \in SUBSET S, s # {} PROVE f[s] = v[Some(s)] + f[s \ {Some(s)}]
      <3>1. Some(s) \in S
        BY <2>1, SomeIn
      <3>2. f[s] = threads[Some(s)].progress_in + f[s \ {Some(s)}]
        BY <1>8, <2>1 DEF Some, ProgressFold
      <3> QED BY <1>5, <3>1, <3>2
    <2>2. f[{}] = 0
      BY <1>8 DEF ProgressFold
    <2> QED BY <1>7, <2>1, <2>2 DEF AddsUp
  <1>11. f[S] = b + SumOver(v, S, n)
    BY <1>2, <1>5, <1>10, FoldIsSum
  <1>12. Numbers(v, n)
    BY <1>2, <1>5 DEF Numbers, IntsOn
  <1>13. SumOver(v, S, n) = SumTo(v, n)
    BY <1>2, <1>12, SumOverAll
  <1>14. SumTo(v, n) \in Int
    BY <1>12, SumType
  <1> QED BY <1>1, <1>4, <1>7, <1>9, <1>11, <1>13, <1>14

(* Sums of one natural number of each thread.                              *)
PerThread(v) == \A w \in Worker : v[w] \in Nat

LEMMA PerThreadNumbers == ASSUME NEW v, PerThread(v) PROVE Numbers(v, Threads) /\ SumTo(v, Threads) \in Nat
  <1>1. PICK n \in Nat : n = Threads
    BY QueueAssumption
  <1>2. \A i \in 1 .. n : v[i] \in Nat
    BY <1>1 DEF PerThread, Worker
  <1>3. SumTo(v, n) \in Nat
    BY <1>2, SumNat
  <1>4. Numbers(v, n)
    BY <1>2 DEF Numbers
  <1> QED BY <1>1, <1>3, <1>4

LEMMA PerThreadNoMore ==
  ASSUME NEW u, NEW v, PerThread(u), PerThread(v), \A w \in Worker : u[w] <= v[w]
  PROVE  SumTo(u, Threads) <= SumTo(v, Threads)
  <1>1. PICK n \in Nat : n = Threads
    BY QueueAssumption
  <1>2. PICK d : d = [i \in 1 .. n |-> v[i] - u[i]]
    OBVIOUS
  <1>3. \A i \in 1 .. n : d[i] = v[i] - u[i] /\ d[i] \in Nat
    BY <1>1, <1>2 DEF PerThread, Worker
  <1>4. Numbers(u, n) /\ Numbers(v, n) /\ SumTo(u, n) \in Nat /\ SumTo(v, n) \in Nat
    BY <1>1, PerThreadNumbers
  <1>5. SumTo(d, n) = SumTo(v, n) - SumTo(u, n)
    BY <1>3, <1>4, SumMinus
  <1>6. SumTo(d, n) \in Nat
    BY <1>3, SumNat
  <1> QED BY <1>1, <1>4, <1>5, <1>6

(* One of the numbers changes, the others do not grow.                     *)
LEMMA PerThreadOne ==
  ASSUME NEW u, NEW v, PerThread(u), PerThread(v), NEW k \in Worker, NEW n \in Int,
         \A w \in Worker : w # k => v[w] = u[w], v[k] <= u[k] + n
  PROVE  SumTo(v, Threads) <= SumTo(u, Threads) + n
  <1>1. PICK m \in Nat : m = Threads
    BY QueueAssumption
  <1>2. Numbers(u, m) /\ Numbers(v, m) /\ SumTo(u, m) \in Nat /\ SumTo(v, m) \in Nat
    BY <1>1, PerThreadNumbers
  <1>3. \A i \in 1 .. m : i # k => u[i] = v[i]
    BY <1>1 DEF Worker
  <1>4. k \in 1 .. m
    BY <1>1 DEF Worker
  <1>5. SumTo(v, m) = SumTo(u, m) - u[k] + v[k]
    BY <1>2, <1>3, <1>4, SumChange
  <1>6. u[k] \in Nat /\ v[k] \in Nat
    BY DEF PerThread
  <1> QED BY <1>1, <1>2, <1>5, <1>6

LEMMA PerThreadNone == ASSUME NEW u, \A w \in Worker : u[w] = 0 PROVE SumTo(u, Threads) = 0
  <1>1. PICK n \in Nat : n = Threads
    BY QueueAssumption
  <1>2. \A i \in 1 .. n : u[i] = 0
    BY <1>1 DEF Worker
  <1>3. PICK z : z = [i \in 1 .. n |-> 0]
    OBVIOUS
  <1>4. \A i \in 1 .. n : z[i] = u[i] - u[i]
    BY <1>2, <1>3
  <1>5. Numbers(u, n) /\ Agree(u, z, n)
    BY <1>2, <1>3 DEF Numbers, Agree
  <1>6. SumTo(z, n) = SumTo(u, n) - SumTo(u, n) /\ SumTo(u, n) \in Int
    BY <1>4, <1>5, SumMinus, SumType
  <1>7. SumTo(u, n) = SumTo(z, n)
    BY <1>5, SumSame
  <1> QED BY <1>1, <1>6, <1>7

-----------------------------------------------------------------------------
(* What a thread may still add to the total: all it was given, while it is *)
(* busy. With the total, that never is more than the input taken.          *)
HeldOf(threads, places) ==
  [w \in Worker |-> IF threads[w].state \in {"RUN", "FINISH"} \/ places[w].pc \notin {"idle", "exited"}
                    THEN Len(threads[w].in) ELSE threads[w].progress_in]
Covered == ~unsettled => progress_in + SumTo(HeldOf(ws, wl), Threads) <= accepted

(* As long as nothing failed, a thread that is done has a whole Block.     *)
Undisturbed == ~unsettled /\ pending # "Error" /\ pc # "settle" /\ thread_error = "OK"
Faultless ==
  Undisturbed => \A w \in Worker : wl[w].pc \in {"release", "report"} => wl[w].state = "FINISH"

ProgressInv == progress_in \in Nat /\ Covered /\ Faultless

LEMMA HeldType ==
  ASSUME NEW threads \in [Worker -> WorkerType], NEW places \in [Worker -> ThreadType]
  PROVE  PerThread(HeldOf(threads, places))
  <1> SUFFICES ASSUME NEW w \in Worker PROVE HeldOf(threads, places)[w] \in Nat
    BY DEF PerThread
  <1>1. threads[w].progress_in \in Nat /\ Len(threads[w].in) \in Nat
    BY DEF WorkerType, Input
  <1> QED BY <1>1 DEF HeldOf

LEMMA HeldIs ==
  ASSUME NEW w \in Worker
  PROVE  /\ HeldOf(ws, wl)[w] = IF Busy(w) THEN Len(ws[w].in) ELSE ws[w].progress_in
         /\ HeldOf(ws', wl')[w] = IF Busy(w)' THEN Len(ws'[w].in) ELSE ws'[w].progress_in
  BY DEF HeldOf, Busy

(* Most steps leave the total, and let no thread say or hold less than it  *)
(* should.                                                                 *)
Gentle ==
  /\ UNCHANGED <<progress_in, accepted, unsettled>>
  /\ \A w \in Worker : /\ ws'[w].progress_in >= ws[w].progress_in
                       /\ HeldOf(ws', wl')[w] <= HeldOf(ws, wl)[w]

LEMMA UntouchedGentle ==
  ASSUME TypeInv, UNCHANGED <<ws, wl, progress_in, accepted, unsettled>> PROVE Gentle
  <1>1. ASSUME NEW w \in Worker PROVE HeldOf(ws, wl)[w] \in Nat /\ ws[w].progress_in \in Nat
    BY HeldType, Holdings DEF TypeInv, PerThread
  <1> QED BY <1>1 DEF Gentle

LEMMA ToldGentle ==
  ASSUME TypeInv, ThreadInv, NEW x \in {"STOP", "EXIT"}, ws' = AllTold(x),
         UNCHANGED <<wl, progress_in, accepted, unsettled>>
  PROVE  Gentle
  <1>1. ASSUME NEW w \in Worker
        PROVE  ws'[w].progress_in >= ws[w].progress_in /\ HeldOf(ws', wl')[w] <= HeldOf(ws, wl)[w]
    <2>1. /\ ws'[w].in = ws[w].in /\ ws'[w].progress_in = ws[w].progress_in
          /\ ws'[w].state \in {ws[w].state, x}
      BY Told
    <2>2. ws[w].progress_in \in Nat /\ Len(ws[w].in) \in Nat /\ Len(wl[w].content) \in Nat
      BY Holdings
    <2>3. ws[w].progress_in <= Len(ws[w].in)
      BY <2>2 DEF ThreadInv, Pieces
    <2>4. Busy(w)' => Busy(w)
      BY <2>1 DEF Busy
    <2> QED BY <2>1, <2>2, <2>3, <2>4, HeldIs
  <1> QED BY <1>1 DEF Gentle

LEMMA AssignGentle == ASSUME TypeInv, Account, ThreadInv, AssignThread PROVE Gentle
  <1>1. UNCHANGED <<wl, progress_in, accepted, unsettled>> /\ pc = "assign"
    BY DEF AssignThread, hist, shared
  <1>2. thr \in Worker /\ wl[thr].pc = "idle" /\ ws[thr].state = "IDLE"
    BY <1>1, QueueAssumption DEF Account, Chosen, TypeInv, Worker
  <1>3. PICK job : job = NextJob
    OBVIOUS
  <1>4. ws' = [ws EXCEPT ![thr] = Assigned(job)]
    BY <1>3, AssignedWorker
  <1>5. /\ \A w \in Worker : w # thr => ws'[w] = ws[w]
        /\ ws'[thr].in = <<>> /\ ws'[thr].progress_in = ws[thr].progress_in
    BY <1>2, <1>4 DEF Assigned, TypeInv
  <1>6. ASSUME NEW w \in Worker
        PROVE  ws'[w].progress_in >= ws[w].progress_in /\ HeldOf(ws', wl')[w] <= HeldOf(ws, wl)[w]
    <2>1. HeldOf(ws, wl)[w] \in Nat /\ ws[w].progress_in \in Nat
      BY HeldType, Holdings DEF TypeInv, PerThread
    <2>2. CASE w # thr
      <3>1. HeldOf(ws', wl')[w] = HeldOf(ws, wl)[w]
        BY <1>1, <1>5, <2>2 DEF HeldOf
      <3> QED BY <1>5, <2>1, <2>2, <3>1
    <2>3. CASE w = thr
      <3>1. Len(<<>>) = 0
        OBVIOUS
      <3>2. HeldOf(ws, wl)[w] = ws[w].progress_in
        BY <1>2, <2>3, HeldIs DEF Busy
      <3>3. HeldOf(ws', wl')[w] \in {0, ws[w].progress_in}
        BY <1>5, <2>3, <3>1, HeldIs
      <3> QED BY <1>5, <2>1, <2>3, <3>2, <3>3
    <2> QED BY <2>2, <2>3
  <1> QED BY <1>1, <1>6 DEF Gentle

LEMMA WorkedGentle ==
  ASSUME TypeInv, TypeInv', ThreadInv, NEW w \in Worker, Works(w), UNCHANGED <<progress_in, accepted, unsettled>>
  PROVE  Gentle
  <1>1. ASSUME NEW v \in Worker
        PROVE  ws'[v].progress_in >= ws[v].progress_in /\ HeldOf(ws', wl')[v] <= HeldOf(ws, wl)[v]
    <2>1. HeldOf(ws, wl)[v] \in Nat /\ ws[v].progress_in \in Nat
      BY HeldType, Holdings DEF TypeInv, PerThread
    <2>2. CASE v # w
      <3>1. ws'[v] = ws[v] /\ wl'[v] = wl[v]
        BY <2>2 DEF Works
      <3>2. HeldOf(ws', wl')[v] = HeldOf(ws, wl)[v]
        BY <3>1 DEF HeldOf
      <3> QED BY <2>1, <3>1, <3>2
    <2>3. CASE v = w
      <3>1. /\ ws'[w].progress_in >= ws[w].progress_in /\ ws'[w].in = ws[w].in
            /\ ws'[w].progress_in <= Len(wl'[w].content) /\ Len(wl'[w].content) <= Len(ws[w].in)
            /\ Busy(w)' => Busy(w)
            /\ ~Busy(w) => ws'[w].progress_in = ws[w].progress_in
        BY DEF Works, Begins
      <3>2. PICK r \in WorkerType, x \in ThreadType : r = ws'[w] /\ x = wl'[w]
        BY DEF TypeInv
      <3>3. r.progress_in \in Nat /\ Len(x.content) \in Nat
        BY DEF WorkerType, ThreadType
      <3>4. PICK p \in Nat, q \in Nat, m \in Nat, k \in Nat :
              p = ws[w].progress_in /\ q = ws'[w].progress_in /\ m = Len(ws[w].in) /\ k = Len(wl'[w].content)
        BY <3>2, <3>3, Holdings
      <3>5. q >= p /\ q <= m
        BY <3>1, <3>4
      <3>6. Len(ws'[w].in) = m
        BY <3>1, <3>4
      <3> QED BY <2>3, <3>1, <3>4, <3>5, <3>6, HeldIs
    <2> QED BY <2>2, <2>3
  <1> QED BY <1>1 DEF Gentle

LEMMA GentleSteps ==
  ASSUME TypeInv, TypeInv', Account, FilterInv, ThreadInv, [Next]_vars
  PROVE  Gentle \/ FeedThread \/ Restart \/ \E w \in Worker : Report(w)
  <1>1. CASE \/ Call \/ UpdateFilters \/ CopyFixed \/ FedAll \/ Decide \/ Wait \/ TimeOut \/ Join \/ UNCHANGED vars
    <2>1. UNCHANGED <<ws, wl, progress_in, accepted, unsettled>>
      BY <1>1 DEF Call, UpdateFilters, CopyFixed, FedAll, Decide, Wait, TimeOut, Join, vars, shared, hist
    <2> QED BY <2>1, UntouchedGentle
  <1>2. CASE ReadOutput \/ BlockError \/ GetThread \/ Reinit \/ End
    <2>1. ws' = ws \/ ws' = AllTold("STOP") \/ ws' = AllTold("EXIT")
      BY <1>2 DEF ReadOutput, BlockError, GetThread, StopAndFail, Proceed, Reinit, End
    <2>2. UNCHANGED <<wl, progress_in, accepted, unsettled>>
      BY <1>2 DEF ReadOutput, BlockError, GetThread, Reinit, End, shared, hist
    <2> QED BY <2>1, <2>2, UntouchedGentle, ToldGentle
  <1>3. CASE AssignThread
    BY <1>3, AssignGentle
  <1>4. ASSUME NEW w \in Worker, WorkerThread(w), ~Report(w) PROVE Gentle
    <2>1. Works(w)
      BY <1>4, TakeCommandWorks, EncodeChunkWorks, StoreBlockWorks, WorkerErrorWorks, ReleaseWorks
      DEF WorkerThread
    <2>2. UNCHANGED <<progress_in, accepted, unsettled>>
      BY <1>4, WorkerKeeps
    <2> QED BY <2>1, <2>2, WorkedGentle
  <1> QED BY <1>1, <1>2, <1>3, <1>4 DEF Next, AppThread

-----------------------------------------------------------------------------
(* FeedThread: the thread holds at most what was taken more than before.   *)
LEMMA FeedHolds ==
  ASSUME TypeInv, TypeInv', Account, ThreadInv, Covered, progress_in \in Nat, FeedThread
  PROVE  /\ UNCHANGED <<progress_in, unsettled>> /\ Covered'
         /\ \A w \in Worker : ws'[w].progress_in >= ws[w].progress_in
  <1>1. PICK n \in Nat, more \in Seq(Nat), done \in BOOLEAN : Feeds(n, more, done)
    BY FedMore
  <1>2. /\ thr \in Worker /\ pc = "encode" /\ wl' = wl /\ UNCHANGED <<progress_in, unsettled>>
        /\ accepted' = accepted + n /\ accepted \in Nat
    <2>1. thr \in Worker
      BY ThrIsMade DEF FeedThread
    <2>2. pc = "encode" /\ wl' = wl /\ UNCHANGED <<progress_in, unsettled>>
      BY DEF FeedThread, shared
    <2>3. accepted' = accepted + n /\ accepted \in Nat
      BY <1>1 DEF TypeInv, Feeds
    <2> QED BY <2>1, <2>2, <2>3
  <1>3. /\ \A w \in Worker : w # thr => ws'[w] = ws[w]
        /\ ws'[thr].progress_in = ws[thr].progress_in
    BY <1>1 DEF Feeds
  <1>4. \A w \in Worker : ws'[w].progress_in >= ws[w].progress_in
    BY <1>3, Holdings
  <1>5. PICK u, v : u = HeldOf(ws, wl) /\ v = HeldOf(ws', wl')
    OBVIOUS
  <1>6. PerThread(u) /\ PerThread(v)
    BY <1>5, HeldType DEF TypeInv
  <1>7. \A w \in Worker : w # thr => v[w] = u[w]
    BY <1>2, <1>3, <1>5 DEF HeldOf
  <1>8. v[thr] <= u[thr] + n
    <2>1. u[thr] \in Nat
      BY <1>2, <1>6 DEF PerThread
    <2>2. CASE ws[thr].state = "IDLE"
      <3>1. ws' = ws
        BY <1>1, <2>2 DEF Feeds
      <3>2. v = u
        BY <1>2, <1>5, <3>1
      <3> QED BY <2>1, <3>2
    <2>3. CASE ws[thr].state # "IDLE"
      <3>1. ws[thr].state \in {"RUN", "FINISH"}
        <4>1. pending # "Error" /\ ws[thr].state \notin {"EXIT", "STOP"}
          BY <1>2 DEF Account, Stops, Alive
        <4> QED BY <1>2, <2>3, <4>1, Holdings DEF States
      <3>2. u[thr] = Len(ws[thr].in)
        BY <1>2, <1>5, <3>1, HeldIs DEF Busy
      <3>3. ws'[thr].in = ws[thr].in \o more /\ Len(more) = n /\ ws'[thr].state \in {"RUN", "FINISH"}
        BY <1>1, <2>3, <3>1 DEF Feeds
      <3>4. v[thr] = Len(ws'[thr].in)
        BY <1>2, <1>5, <3>3, HeldIs DEF Busy
      <3>5. PICK s \in Seq(Nat) : s = ws[thr].in
        BY <1>2, Holdings
      <3>6. Len(s \o more) = Len(s) + Len(more)
        OBVIOUS
      <3>7. v[thr] = u[thr] + n
        BY <3>2, <3>3, <3>4, <3>5, <3>6
      <3> QED BY <2>1, <3>7
    <2> QED BY <2>2, <2>3
  <1>9. SumTo(v, Threads) <= SumTo(u, Threads) + n
    BY <1>2, <1>6, <1>7, <1>8, PerThreadOne
  <1>10. SumTo(u, Threads) \in Nat /\ SumTo(v, Threads) \in Nat
    BY <1>6, PerThreadNumbers
  <1>11. ~unsettled => progress_in + SumTo(u, Threads) <= accepted
    BY <1>5 DEF Covered
  <1>12. ~unsettled' => progress_in' + SumTo(v, Threads) <= accepted'
    BY <1>2, <1>9, <1>10, <1>11
  <1>13. Covered'
    BY <1>5, <1>12 DEF Covered
  <1> QED BY <1>2, <1>4, <1>13

(* A gentle step adds to neither side.                                     *)
LEMMA GentleCovered ==
  ASSUME TypeInv, TypeInv', Covered, progress_in \in Nat, Gentle PROVE Covered'
  <1>1. PICK u, v : u = HeldOf(ws, wl) /\ v = HeldOf(ws', wl')
    OBVIOUS
  <1>2. PerThread(u) /\ PerThread(v)
    BY <1>1, HeldType DEF TypeInv
  <1>3. \A w \in Worker : v[w] <= u[w]
    BY <1>1 DEF Gentle
  <1>4. SumTo(v, Threads) <= SumTo(u, Threads)
    BY <1>2, <1>3, PerThreadNoMore
  <1>5. SumTo(u, Threads) \in Nat /\ SumTo(v, Threads) \in Nat
    BY <1>2, PerThreadNumbers
  <1>6. ~unsettled' => progress_in' + SumTo(v, Threads) <= accepted'
    <2>1. ~unsettled => progress_in + SumTo(u, Threads) <= accepted
      BY <1>1 DEF Covered
    <2>2. UNCHANGED <<progress_in, accepted, unsettled>> /\ accepted \in Nat
      BY DEF Gentle, TypeInv
    <2> QED BY <1>4, <1>5, <2>1, <2>2
  <1> QED BY <1>1, <1>6 DEF Covered

(* Restart: every thread is idle, and has nothing that it did not report.  *)
LEMMA RestartCovered ==
  ASSUME TypeInv, TypeInv', FilterInv, ThreadInv, Restart PROVE Covered' /\ Faultless' /\ progress_in' \in Nat
  <1>1. UNCHANGED <<ws, wl>> /\ AllIdle /\ accepted' = 0 /\ progress_in' = 0 /\ unsettled' = (unsettled \/ StillDue)
    BY DEF Restart
  <1> SUFFICES ASSUME ~StillDue PROVE Covered' /\ Faultless'
    BY <1>1 DEF Covered, Faultless, Undisturbed
  <1>2. \A w \in Worker : ws[w].state = "IDLE" /\ wl[w].pc = "idle" /\ wl[w].content = <<>>
    BY <1>1 DEF AllIdle, StillDue, FilterInv, IdleIsDone
  <1>3. Faultless'
    BY <1>1, <1>2 DEF Faultless
  <1>4. PICK u : u = HeldOf(ws, wl)
    OBVIOUS
  <1>5. ASSUME NEW w \in Worker PROVE u[w] = 0
    <2>1. ws[w].progress_in <= Len(wl[w].content) /\ ws[w].progress_in \in Nat
      BY Holdings DEF ThreadInv, Pieces
    <2>2. Len(<<>>) = 0
      OBVIOUS
    <2>3. ws[w].progress_in = 0
      BY <1>2, <2>1, <2>2
    <2>4. ~Busy(w)
      BY <1>2 DEF Busy
    <2> QED BY <1>4, <2>3, <2>4, HeldIs
  <1>6. SumTo(u, Threads) = 0
    BY <1>5, PerThreadNone
  <1>7. progress_in' + SumTo(HeldOf(ws', wl'), Threads) <= accepted'
    BY <1>1, <1>4, <1>6
  <1> QED BY <1>3, <1>7 DEF Covered

(* Report: the size of the whole Block moves to the total.                 *)
LEMMA ReportHolds ==
  ASSUME TypeInv, TypeInv', Account, ThreadInv, Covered, progress_in \in Nat, NEW w \in Worker, Report(w)
  PROVE  Covered' /\ progress_in' \in Nat
  <1>1. /\ \A v \in Worker : v # w => wl'[v] = wl[v] /\ ws'[v] = ws[v]
        /\ ws'[w].state = ws[w].state /\ ws'[w].progress_in = 0 /\ wl'[w].pc = "idle" /\ wl[w].pc = "report"
    BY Reported DEF IdleThread
  <1>2. progress_in' = Accounted(w) /\ UNCHANGED <<accepted, unsettled>>
    BY DEF Report, hist
  <1>3. PICK k \in Nat, m \in Nat : k = Len(wl[w].content) /\ m = Len(ws[w].in)
    BY Holdings
  <1>4. k <= m
    BY <1>3 DEF ThreadInv, Pieces
  <1>5. PICK a \in Nat : progress_in' = progress_in + a /\ a <= m
    <2>1. Accounted(w) = progress_in + (IF WholeBlock(w) THEN k ELSE 0)
      BY <1>3 DEF Accounted
    <2> QED BY <1>2, <1>4, <2>1
  <1>6. ws[w].state \notin {"RUN", "FINISH"}
    <2>1. CASE Alive
      BY <1>1, <2>1 DEF Account, ReportsDone
    <2>2. CASE ~Alive
      <3>1. w \in 1 .. threads_initialized
        <4>1. ~(w > threads_initialized)
          BY <1>1 DEF Account, Unmade
        <4>2. w \in Nat /\ w >= 1 /\ threads_initialized \in Nat
          <5>1. PICK n \in Nat : n = Threads
            BY QueueAssumption
          <5>2. w \in 1 .. n /\ threads_initialized \in 0 .. n
            BY <5>1 DEF TypeInv, Worker
          <5> QED BY <5>2
        <4> QED BY <4>1, <4>2
      <3> QED BY <2>2, <3>1 DEF ThreadInv, Leaving
    <2> QED BY <2>1, <2>2
  <1>7. PICK u, v : u = HeldOf(ws, wl) /\ v = HeldOf(ws', wl')
    OBVIOUS
  <1>8. PerThread(u) /\ PerThread(v)
    BY <1>7, HeldType DEF TypeInv
  <1>9. u[w] = m /\ v[w] = 0
    BY <1>1, <1>3, <1>6, <1>7, HeldIs DEF Busy
  <1>10. \A x \in Worker : x # w => v[x] = u[x]
    BY <1>1, <1>7 DEF HeldOf
  <1>11. v[w] <= u[w] + (0 - m)
    BY <1>9
  <1>12. SumTo(v, Threads) <= SumTo(u, Threads) + (0 - m)
    <2>1. 0 - m \in Int
      OBVIOUS
    <2> QED BY <1>8, <1>10, <1>11, <2>1, PerThreadOne
  <1>13. SumTo(u, Threads) \in Nat /\ SumTo(v, Threads) \in Nat
    BY <1>8, PerThreadNumbers
  <1>14. ~unsettled => progress_in + SumTo(u, Threads) <= accepted
    BY <1>7 DEF Covered
  <1>15. ~unsettled' => progress_in' + SumTo(v, Threads) <= accepted'
    <2>1. accepted \in Nat
      BY DEF TypeInv
    <2> QED BY <1>2, <1>5, <1>12, <1>13, <1>14, <2>1
  <1>16. Covered'
    BY <1>7, <1>15 DEF Covered
  <1> QED BY <1>5, <1>16

-----------------------------------------------------------------------------
(* Only Restart ends a disturbance.                                        *)
LEMMA UndisturbedBefore ==
  ASSUME TypeInv, Account, [Next]_vars, ~Restart, Undisturbed' PROVE Undisturbed
  <1>1. CASE UNCHANGED vars
    BY <1>1 DEF vars, app, shared, hist, Undisturbed
  <1>2. CASE Call \/ UpdateFilters \/ Reinit \/ End
    BY <1>2 DEF Call, UpdateFilters, Reinit, End, app, shared, hist, Undisturbed
  <1>3. CASE \/ CopyFixed \/ ReadOutput \/ GetThread \/ AssignThread \/ FeedThread \/ BlockError
             \/ FedAll \/ Decide \/ Wait \/ TimeOut \/ Join
    <2>1. /\ UNCHANGED <<thread_error, unsettled>>
          /\ pc \notin {"app", "settle", "ended"} /\ (pc = "join" => pending' = pending)
      <3>1. CASE CopyFixed
        BY <3>1 DEF CopyFixed, shared, hist
      <3>2. CASE ReadOutput
        BY <3>2 DEF ReadOutput, hist
      <3>3. CASE GetThread
        BY <3>3 DEF GetThread, hist
      <3>4. CASE AssignThread
        BY <3>4 DEF AssignThread, hist
      <3>5. CASE FeedThread
        BY <3>5 DEF FeedThread, shared
      <3>6. CASE BlockError
        BY <3>6 DEF BlockError, shared, hist
      <3>7. CASE FedAll \/ Decide \/ Wait \/ TimeOut \/ Join
        BY <3>7 DEF FedAll, Decide, Wait, TimeOut, Join, app, shared, hist
      <3> QED BY <1>3, <3>1, <3>2, <3>3, <3>4, <3>5, <3>6, <3>7
    <2>2. pc # "join" => pending # "Error"
      BY <2>1 DEF Account, Stops
    <2> QED BY <2>1, <2>2 DEF Undisturbed
  <1>4. ASSUME NEW w \in Worker, WorkerThread(w) PROVE Undisturbed
    <2>1. pending' = pending /\ unsettled' = unsettled /\ (pc' = pc \/ pc' = Signalled)
      BY <1>4, WorkerKeeps
    <2>2. thread_error' # thread_error => thread_error = "OK"
      <3>1. CASE WorkerError(w)
        BY <3>1 DEF WorkerError
      <3>2. CASE TakeCommand(w) \/ StoreBlock(w) \/ Release(w) \/ Report(w)
        BY <3>2 DEF TakeCommand, StoreBlock, Release, Report, shared
      <3>3. CASE EncodeChunk(w)
        <4>1. UNCHANGED shared
          BY <3>3, Zenon DEF EncodeChunk
        <4> QED BY <4>1 DEF shared
      <3> QED BY <1>4, <3>1, <3>2, <3>3 DEF WorkerThread
    <2> QED BY <2>1, <2>2 DEF Undisturbed, Signalled
  <1> QED BY <1>1, <1>2, <1>3, <1>4 DEF Next, AppThread

(* Threads are told to leave at the end only, and not to stop.             *)
LEMMA NotStopped ==
  ASSUME TypeInv, Account, ThreadInv, Undisturbed, NEW w \in Worker PROVE ws[w].state # "STOP"
  <1>1. CASE Alive
    BY <1>1 DEF Account, Stops, Undisturbed
  <1>2. CASE ~Alive
    <2>1. PICK n \in Nat : n = Threads
      BY QueueAssumption
    <2>2. w \in 1 .. n /\ threads_initialized \in 0 .. n
      BY <2>1 DEF TypeInv, Worker
    <2>3. w > threads_initialized \/ w \in 1 .. threads_initialized
      BY <2>2
    <2> QED BY <1>2, <2>3 DEF Account, Unmade, ThreadInv, Leaving
  <1> QED BY <1>1, <1>2

LEMMA FaultlessStep ==
  ASSUME TypeInv, Account, ThreadInv, Faultless, [Next]_vars, ~Restart PROVE Faultless'
  <1> SUFFICES ASSUME Undisturbed', NEW v \in Worker, wl'[v].pc \in {"release", "report"}
               PROVE  wl'[v].state = "FINISH"
    BY DEF Faultless
  <1>1. Undisturbed
    BY UndisturbedBefore
  <1>2. wl[v].pc \in {"release", "report"} => wl[v].state = "FINISH"
    BY <1>1 DEF Faultless
  <1>3. CASE wl' = wl
    BY <1>2, <1>3
  <1>4. ASSUME NEW w \in Worker, WorkerThread(w) PROVE wl'[v].state = "FINISH"
    <2>1. ws[w].state # "STOP"
      BY <1>1, NotStopped
    <2>2. CASE wl'[v] = wl[v]
      BY <1>2, <2>2
    <2>3. CASE TakeCommand(w)
      <3>1. CASE wl' = [wl EXCEPT ![w].pc = "exited"]
        BY <1>2, <3>1, MovedPlace DEF ThreadPlaces
      <3>2. CASE wl' = [wl EXCEPT ![w] = [IdleThread EXCEPT !.pc = "run", !.state = ws[w].state]]
        <4>1. PICK k : k = [IdleThread EXCEPT !.pc = "run", !.state = ws[w].state]
          OBVIOUS
        <4>2. k.pc = "run"
          BY <4>1 DEF IdleThread
        <4>3. wl' = [wl EXCEPT ![w] = k]
          BY <3>2, <4>1
        <4> QED BY <1>2, <4>2, <4>3 DEF TypeInv
      <3> QED BY <1>3, <2>3, <3>1, <3>2 DEF TakeCommand
    <2>4. CASE EncodeChunk(w)
      <3>1. CASE ws[w].state \in {"STOP", "EXIT"} /\ wl' = Leave(w, ws[w].state)
        BY <1>2, <2>1, <3>1, LeftPlace DEF States
      <3>2. ASSUME NEW place \in {"release", "run"}, NEW state \in {"FINISH", "RUN"}, NEW size \in Nat,
                   wl' = [wl EXCEPT ![w] = Chunked(w, place, state, size)],
                   place = "release" => state = "FINISH"
            PROVE  wl'[v].state = "FINISH"
        <4>1. (\A x \in Worker : x # w => wl'[x] = wl[x]) /\ wl'[w] = Chunked(w, place, state, size)
          BY <3>2 DEF TypeInv
        <4>2. wl'[w].pc = place /\ wl'[w].state = state
          BY <4>1 DEF Chunked
        <4> QED BY <1>2, <3>2, <4>1, <4>2
      <3>3. CASE wl' = [wl EXCEPT ![w].pc = "fail"] \/ wl' = [wl EXCEPT ![w].pc = "full"]
        BY <1>2, <3>3, MovedPlace DEF ThreadPlaces
      <3> QED BY <2>4, <3>1, <3>2, <3>3, EncodeStep
    <2>5. CASE StoreBlock(w)
      <3>1. CASE ws[w].state \in {"STOP", "EXIT"} /\ wl' = Leave(w, ws[w].state)
        BY <1>2, <2>1, <3>1, LeftPlace DEF States
      <3>2. CASE wl' = [wl EXCEPT ![w] = [pc |-> "release", state |-> "FINISH", content |-> ws[w].in, size |-> BufSize]]
        <4>1. (\A x \in Worker : x # w => wl'[x] = wl[x]) /\ wl'[w].state = "FINISH"
          BY <3>2 DEF TypeInv
        <4> QED BY <1>2, <4>1
      <3>3. CASE wl' = [wl EXCEPT ![w].pc = "fail"]
        BY <1>2, <3>3, MovedPlace DEF ThreadPlaces
      <3> QED BY <2>5, <3>1, <3>2, <3>3, StoreStep
    <2>6. CASE WorkerError(w)
      <3>1. thread_error' # "OK"
        BY <2>6 DEF WorkerError
      <3> QED BY <3>1 DEF Undisturbed
    <2>7. CASE Release(w)
      <3>1. /\ \A x \in Worker : x # w => wl'[x] = wl[x]
            /\ wl'[w].state = wl[w].state /\ wl[w].pc = "release"
        BY <2>7, MovedPlace DEF Release, ThreadPlaces
      <3>2. wl[w].state = "FINISH"
        BY <1>1, <3>1 DEF Faultless
      <3> QED BY <1>2, <3>1, <3>2
    <2>8. CASE Report(w)
      BY <1>2, <2>8, Reported DEF IdleThread
    <2> QED BY <1>4, <2>3, <2>4, <2>5, <2>6, <2>7, <2>8 DEF WorkerThread
  <1>5. wl' = wl \/ \E w \in Worker : WorkerThread(w)
    <2>1. CASE Call \/ UpdateFilters \/ Reinit \/ End \/ UNCHANGED vars
      BY <2>1 DEF Call, UpdateFilters, Reinit, End, vars
    <2>2. CASE \/ CopyFixed \/ ReadOutput \/ GetThread \/ AssignThread \/ FeedThread \/ BlockError
               \/ FedAll \/ Decide \/ Wait \/ TimeOut \/ Join
      <3>1. CASE CopyFixed \/ FedAll \/ Decide \/ Wait \/ TimeOut \/ Join
        BY <3>1 DEF CopyFixed, FedAll, Decide, Wait, TimeOut, Join
      <3>2. CASE ReadOutput
        BY <3>2 DEF ReadOutput
      <3>3. CASE GetThread
        BY <3>3 DEF GetThread
      <3>4. CASE AssignThread
        BY <3>4 DEF AssignThread
      <3>5. CASE FeedThread
        BY <3>5 DEF FeedThread
      <3>6. CASE BlockError
        BY <3>6 DEF BlockError
      <3> QED BY <2>2, <3>1, <3>2, <3>3, <3>4, <3>5, <3>6
    <2> QED BY <2>1, <2>2 DEF Next, AppThread
  <1> QED BY <1>3, <1>4, <1>5

-----------------------------------------------------------------------------
LEMMA ProgressInit == Init => ProgressInv
  <1> SUFFICES ASSUME Init PROVE ProgressInv
    OBVIOUS
  <1>1. progress_in = 0 /\ accepted = 0 /\ \A w \in Worker : ws[w] = IdleWorker /\ wl[w] = IdleThread
    BY DEF Init
  <1>2. \A w \in Worker : ws[w].progress_in = 0 /\ ws[w].state = "IDLE" /\ wl[w].pc = "idle"
    BY <1>1 DEF IdleWorker, IdleThread
  <1>3. PICK u : u = HeldOf(ws, wl)
    OBVIOUS
  <1>4. \A w \in Worker : u[w] = 0
    BY <1>2, <1>3 DEF HeldOf
  <1>5. SumTo(u, Threads) = 0
    BY <1>4, PerThreadNone
  <1>6. Covered
    BY <1>1, <1>3, <1>5 DEF Covered
  <1>7. Faultless
    BY <1>2 DEF Faultless
  <1> QED BY <1>1, <1>6, <1>7 DEF ProgressInv

LEMMA ProgressStep ==
  TypeInv /\ TypeInv' /\ Account /\ FilterInv /\ ThreadInv /\ ProgressInv /\ [Next]_vars => ProgressInv'
  <1> SUFFICES ASSUME TypeInv, TypeInv', Account, FilterInv, ThreadInv, ProgressInv, [Next]_vars PROVE ProgressInv'
    OBVIOUS
  <1>1. CASE Restart
    BY <1>1, RestartCovered DEF ProgressInv
  <1>2. CASE ~Restart
    <2>1. Faultless'
      BY <1>2, FaultlessStep DEF ProgressInv
    <2>2. Covered' /\ progress_in' \in Nat
      <3>1. progress_in \in Nat /\ Covered
        BY DEF ProgressInv
      <3>2. CASE Gentle
        BY <3>1, <3>2, GentleCovered DEF Gentle
      <3>3. CASE FeedThread
        BY <3>1, <3>3, FeedHolds
      <3>4. ASSUME NEW w \in Worker, Report(w) PROVE Covered' /\ progress_in' \in Nat
        BY <3>1, <3>4, ReportHolds
      <3> QED BY <1>2, <3>2, <3>3, <3>4, GentleSteps
    <2> QED BY <2>1, <2>2 DEF ProgressInv
  <1> QED BY <1>1, <1>2

(* What is reported never exceeds the input taken.                         *)
Bounded == ~unsettled => Progress <= accepted

LEMMA ProgressBounded == TypeInv /\ ThreadInv /\ ProgressInv => Bounded
  <1> SUFFICES ASSUME TypeInv, ThreadInv, ProgressInv, ~unsettled PROVE Progress <= accepted
    BY DEF Bounded
  <1>1. PICK u, v : u = SaidBy(ws) /\ v = HeldOf(ws, wl)
    OBVIOUS
  <1>2. PerThread(u) /\ PerThread(v)
    BY <1>1, SaidType, HeldType DEF TypeInv, PerThread
  <1>3. ASSUME NEW w \in Worker PROVE u[w] <= v[w]
    <2>1. u[w] = ws[w].progress_in
      BY <1>1, SaidType DEF TypeInv
    <2>2. ws[w].progress_in <= Len(wl[w].content) /\ Len(wl[w].content) <= Len(ws[w].in)
      BY DEF ThreadInv, Pieces
    <2>3. ws[w].progress_in \in Nat /\ Len(wl[w].content) \in Nat /\ Len(ws[w].in) \in Nat
      BY Holdings
    <2>4. v[w] \in {Len(ws[w].in), ws[w].progress_in}
      BY <1>1, HeldIs
    <2> QED BY <2>1, <2>2, <2>3, <2>4
  <1>4. SumTo(u, Threads) <= SumTo(v, Threads)
    BY <1>2, <1>3, PerThreadNoMore
  <1>5. SumTo(u, Threads) \in Nat /\ SumTo(v, Threads) \in Nat
    BY <1>2, PerThreadNumbers
  <1>6. progress_in + SumTo(v, Threads) <= accepted /\ progress_in \in Nat /\ accepted \in Nat
    BY <1>1 DEF ProgressInv, Covered, TypeInv
  <1>7. Progress = progress_in + SumTo(u, Threads)
    BY <1>1, ProgressIsSum DEF TypeInv, Progress, WorkerProgress
  <1> QED BY <1>4, <1>5, <1>6, <1>7

(* Nothing failed: a step reports at least what was reported before.       *)
LEMMA NeverBack ==
  ASSUME TypeInv, TypeInv', Account, FilterInv, ThreadInv, ProgressInv, [Next]_vars, Undisturbed', ~Restart
  PROVE  Progress' >= Progress
  <1>1. PICK u, v : u = SaidBy(ws) /\ v = SaidBy(ws')
    OBVIOUS
  <1>2. /\ PerThread(u) /\ PerThread(v)
        /\ \A w \in Worker : u[w] = ws[w].progress_in /\ v[w] = ws'[w].progress_in
    BY <1>1, SaidType DEF TypeInv, PerThread
  <1>3. SumTo(u, Threads) \in Nat /\ SumTo(v, Threads) \in Nat
    BY <1>2, PerThreadNumbers
  <1>4. Progress = progress_in + SumTo(u, Threads) /\ progress_in \in Nat
    BY <1>1, ProgressIsSum DEF TypeInv, Progress, WorkerProgress, ProgressInv
  <1>5. Progress' = progress_in' + SumTo(v, Threads)
    BY <1>1, ProgressIsSum DEF TypeInv, Progress, WorkerProgress
  <1>6. CASE Gentle \/ FeedThread
    <2>1. progress_in' = progress_in /\ \A w \in Worker : ws'[w].progress_in >= ws[w].progress_in
      BY <1>6, FeedHolds DEF Gentle, ProgressInv
    <2>2. \A w \in Worker : u[w] <= v[w]
      BY <1>2, <2>1 DEF PerThread
    <2>3. SumTo(u, Threads) <= SumTo(v, Threads)
      BY <1>2, <2>2, PerThreadNoMore
    <2> QED BY <1>3, <1>4, <1>5, <2>1, <2>3
  <1>7. ASSUME NEW w \in Worker, Report(w) PROVE Progress' >= Progress
    <2>1. /\ \A x \in Worker : x # w => ws'[x] = ws[x]
          /\ ws'[w].progress_in = 0 /\ wl[w].pc = "report"
      BY <1>7, Reported
    <2>2. PICK k \in Nat : k = Len(wl[w].content)
      BY Holdings
    <2>3. progress_in' = progress_in + k
      <3>1. WholeBlock(w)
        BY <2>1, UndisturbedBefore DEF ProgressInv, Faultless, WholeBlock
      <3> QED BY <1>7, <2>2, <3>1 DEF Report, Accounted
    <2>4. u[w] <= v[w] + k /\ \A x \in Worker : x # w => u[x] = v[x]
      <3>1. ws[w].progress_in <= k
        BY <2>2 DEF ThreadInv, Pieces
      <3> QED BY <1>2, <2>1, <3>1
    <2>5. SumTo(u, Threads) <= SumTo(v, Threads) + k
      BY <1>2, <2>4, PerThreadOne
    <2> QED BY <1>3, <1>4, <1>5, <2>3, <2>5
  <1> QED BY <1>6, <1>7, GentleSteps

(* The progress that the C encoder reports never goes back when a finished *)
(* Block moves from its thread to the total, and never exceeds the input   *)
(* taken (get_progress, worker_start), with any number of threads.         *)
THEOREM EncoderCProgressAdvances == Spec => ProgressAdvances
  <1> DEFINE Inv == TypeInv /\ Account /\ FilterInv /\ ThreadInv /\ ProgressInv
  <1>1. Init => FilterInv /\ ThreadInv /\ ProgressInv
    BY FilterInit, ThreadInit, ProgressInit
  <1>2. TypeInv /\ Account /\ FilterInv /\ ThreadInv /\ ProgressInv /\ [Next]_vars => FilterInv' /\ ThreadInv' /\ ProgressInv'
    BY TypeStep, FilterStep, ThreadStep, ProgressStep DEF Account
  <1>3. Inv => Bounded
    BY ProgressBounded
  <1>4. Inv /\ TypeInv' /\ Bounded' /\ [Next]_vars
          => [(thread_error' = "OK" /\ inits = inits' /\ pc' # "settle" /\ pending' # "Error" /\ ~unsettled')
                => (Progress' >= Progress \/ Restart) /\ Progress' <= accepted']_vars
    <2> SUFFICES ASSUME Inv, TypeInv', Bounded', [Next]_vars, Undisturbed'
                 PROVE  (Progress' >= Progress \/ Restart) /\ Progress' <= accepted'
      BY DEF Undisturbed
    <2> QED BY NeverBack DEF Bounded, Undisturbed
  <1> QED BY <1>1, <1>2, <1>3, <1>4, EncoderAccount, PTL DEF Spec, ProgressAdvances

=============================================================================
