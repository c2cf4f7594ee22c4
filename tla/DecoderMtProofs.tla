--------------------------- MODULE DecoderMtProofs ---------------------------
(***************************************************************************)
(* Proofs about the threaded decoder of the Rust port: what its workers    *)
(* and its output queue hold stays within memlimit_threading, for every    *)
(* number of workers, every limit, every file and every way to call the    *)
(* decoder, also when a job is lost or a worker fails.                     *)
(***************************************************************************)
EXTENDS DecoderMt, OutQueueLemmas

-----------------------------------------------------------------------------
(* The inductive invariant. First what the variables hold.                 *)

Rets == {"OK", "STREAM_END", "DATA_ERROR", "PROG_ERROR"}
Buffer == [job : Int, size : Nat, worker : Int, pos : Int, in_pos : Int, finished : BOOLEAN,
           ret : Rets]
Partials == {"Disabled", "Start", "Enabled"}
WorkerRecord == [command : {"Idle", "Run", "Exit"}, in_size : Int, in_filled : Int, job : Int,
                 outbuf : Int, partial : Partials]
ThreadRecord == [pc : {"idle", "look", "publish", "notify", "decode", "release", "finish", "reset",
                       "exited"},
                 job : Int, seen : Int, partial : Partials, ret : Rets]

Types ==
  /\ IsQueue(outq, Buffer, Nat) /\ Counted(outq)
  /\ ws \in [Worker -> WorkerRecord] /\ wl \in [Worker -> ThreadRecord]
  /\ free_workers \in Seq(Worker) /\ mem_in_use \in Int

(* The input that was announced is the file's, and the Block at hand one   *)
(* of its Blocks.                                                          *)
AtBlock == sequence \in {"BlockInit", "BlockThreadInit", "BlockThreadRun", "BlockDirectInit",
                         "BlockDirectRun"}

Counts(d) == "in" \in DOMAIN d /\ d.in \in Int

InputFits ==
  /\ setup \in Setups /\ block \in 0 .. Len(File) /\ (AtBlock => block # 0)
  /\ avail \in Int /\ eaten \in Int /\ avail + eaten <= FileSize
  /\ Counts(direct)

(* Where the application's thread is, and the worker it is about.          *)
Where ==
  /\ pc \in {"prepare", "start", "assign", "request"} => sequence = "BlockThreadInit"
  /\ pc = "assign" => asked \in Worker
  /\ (sequence = "BlockThreadRun" \/ pc = "request") => current_worker \in Worker

(* A worker that is told to run, or is at it, has one of the file's Blocks.*)
JobsSound ==
  \A w \in Worker :
    /\ (ws[w].command = "Run" /\ wl[w].pc = "idle") => ws[w].job \in DOMAIN File
    /\ wl[w].pc \notin {"idle", "exited"} => wl[w].job \in DOMAIN File

(* When the Block is given to a worker, either there is room for another   *)
(* buffer beside all that is cached, or the cache can only be used for it. *)
RoomMade ==
  pc = "start" =>
    \/ mem_in_use + outq.mem_allocated + NextMem <= MemlimitThreading
    \/ outq.cache = <<>> \/ outq.cache = <<File[block].out>>

IInv == Types /\ InputFits /\ Where /\ JobsSound /\ ThreadingMemoryBounded /\ RoomMade
-----------------------------------------------------------------------------
(* The file and what is read of it.                                        *)

LEMMA FileType ==
  ASSUME setup \in Setups
  PROVE  /\ File \in Seq(BlockRecord) /\ Len(File) \in Nat \ {0} /\ File[Len(File)].last
         /\ \A b \in DOMAIN File : /\ File[b].comp \in Nat /\ File[b].tail \in Nat
                                   /\ File[b].out \in Nat /\ File[b].filters \in Nat
         /\ setup.offers \subseteq Nat
  <1>1. setup \in SetupRecord /\ setup.file # <<>> /\ setup.file[Len(setup.file)].last
    BY DecoderAssumption
  <1>2. setup.file \in Seq(BlockRecord) /\ setup.offers \subseteq Nat
    BY <1>1 DEF SetupRecord
  <1>3. \A b \in DOMAIN setup.file : setup.file[b] \in BlockRecord
    BY <1>2
  <1>4. Len(setup.file) \in Nat \ {0}
    BY <1>1, <1>2
  <1> QED BY <1>1, <1>2, <1>3, <1>4 DEF File, BlockRecord

(* What the Blocks before b take, as a fold that the lemmas about sums     *)
(* know.                                                                   *)
TakenFold(f, s, S) ==
  f = [t \in SUBSET S |-> IF t = {} THEN 1
                          ELSE LET x == CHOOSE x \in t : TRUE
                               IN f[t \ {x}] + 1 + s[x].comp + s[x].tail + Ending(s[x])]

LEMMA FileSizeType == ASSUME setup \in Setups PROVE Before(Len(File) + 1) \in Int /\ FileSize \in Nat
  <1>1. File \in Seq(BlockRecord) /\ Len(File) \in Nat /\ \A b \in 1 .. Len(File) : File[b].comp \in Nat /\ File[b].tail \in Nat
    BY FileType
  <1>2. PICK n \in Nat : n = Len(File)
    BY <1>1
  <1>3. PICK s : s = SubSeq(File, 1, n)
    OBVIOUS
  <1>4. DOMAIN s = 1 .. n /\ \A i \in 1 .. n : s[i] = File[i]
    BY <1>1, <1>2, <1>3
  <1>5. PICK S : S = 1 .. n
    OBVIOUS
  <1>6. PICK v : v = [i \in S |-> 1 + s[i].comp + s[i].tail + Ending(s[i])]
    OBVIOUS
  <1>7. IntsOn(v, S)
    <2>1. ASSUME NEW i \in S PROVE v[i] \in Int
      <3>1. s[i].comp \in Nat /\ s[i].tail \in Nat /\ Ending(s[i]) \in Nat
        BY <1>1, <1>2, <1>4, <1>5 DEF Ending
      <3> QED BY <1>6, <3>1
    <2> QED BY <2>1 DEF IntsOn
  <1>8. PICK one \in Int : one = 1
    OBVIOUS
  <1>9. S \in SUBSET (1 .. n)
    BY <1>5
  <1>10. PICK f \in [SUBSET S -> Int] : AddsUp(f, v, S, one)
    BY <1>7, <1>8, <1>9, FoldExists
  <1>11. TakenFold(f, s, S)
    <2>1. ASSUME NEW t \in SUBSET S
          PROVE  f[t] = IF t = {} THEN 1 ELSE LET x == CHOOSE x \in t : TRUE
                                              IN f[t \ {x}] + 1 + s[x].comp + s[x].tail + Ending(s[x])
      <3>1. CASE t = {}
        BY <1>8, <1>10, <3>1 DEF AddsUp
      <3>2. CASE t # {}
        <4>1. PICK x \in S : x = Some(t)
          BY <3>2, SomeIn
        <4>2. f[t \ {x}] \in Int
          BY <1>10
        <4>3. f[t] = v[x] + f[t \ {x}]
          BY <1>10, <3>2, <4>1, <4>2 DEF AddsUp
        <4>4. s[x].comp \in Nat /\ s[x].tail \in Nat /\ Ending(s[x]) \in Nat
          BY <1>1, <1>2, <1>4, <1>5 DEF Ending
        <4>5. f[t] = f[t \ {x}] + 1 + s[x].comp + s[x].tail + Ending(s[x])
          BY <1>6, <4>2, <4>3, <4>4
        <4> QED BY <3>2, <4>1, <4>5 DEF Some
      <3> QED BY <3>1, <3>2
    <2> QED BY <1>10, <2>1 DEF TakenFold
  <1>12. PICK g : g = CHOOSE h : TakenFold(h, s, S)
    OBVIOUS
  <1>13. TakenFold(g, s, S)
    BY <1>11, <1>12
  <1>14. Before(Len(File) + 1) = g[S]
    <2>1. Before(Len(File) + 1) = TakenBy(SubSeq(File, 1, Len(File) + 1 - 1))
      BY DEF Before
    <2>2. SubSeq(File, 1, Len(File) + 1 - 1) = s
      BY <1>2, <1>3
    <2>3. TakenBy(s) = g[S]
      BY <1>4, <1>5, <1>12
      DEF TakenBy, FoldSeq, FoldFunction, FoldFunctionOnSet, MapThenFoldSet, TakenFold
    <2> QED BY <2>1, <2>2, <2>3
  <1>15. AddsUp(g, v, S, one)
    <2>1. ASSUME NEW t \in SUBSET S, t # {}, g[t \ {Some(t)}] \in Int
          PROVE  g[t] = v[Some(t)] + g[t \ {Some(t)}]
      <3>1. PICK x \in S : x = Some(t)
        BY <2>1, SomeIn
      <3>2. g[t] = g[t \ {x}] + 1 + s[x].comp + s[x].tail + Ending(s[x])
        BY <1>13, <2>1, <3>1 DEF TakenFold, Some
      <3>3. s[x].comp \in Nat /\ s[x].tail \in Nat /\ Ending(s[x]) \in Nat
        BY <1>1, <1>2, <1>4, <1>5 DEF Ending
      <3> QED BY <1>6, <2>1, <3>1, <3>2, <3>3
    <2>2. g[{}] = 1
      BY <1>13 DEF TakenFold
    <2> QED BY <1>8, <2>1, <2>2 DEF AddsUp
  <1>16. g[S] = one + SumOver(v, S, n) /\ SumOver(v, S, n) \in Int
    <2>1. IntsOn(v, S \cap (1 .. n))
      BY <1>5, <1>7
    <2> QED BY <1>7, <1>8, <1>9, <1>15, <2>1, FoldIsSum, SumOverType
  <1>17. SumOver(v, S, n) \in Nat
    <2>1. ASSUME NEW i \in S PROVE v[i] \in Nat
      <3>1. s[i].comp \in Nat /\ s[i].tail \in Nat /\ Ending(s[i]) \in Nat
        BY <1>1, <1>2, <1>4, <1>5 DEF Ending
      <3> QED BY <1>6, <3>1
    <2>2. PICK u : u = Only(v, S, n)
      OBVIOUS
    <2>3. \A i \in 1 .. n : u[i] \in Nat
      BY <1>5, <2>1, <2>2 DEF Only
    <2>4. SumTo(u, n) \in Nat
      BY <2>3, SumNat
    <2> QED BY <2>2, <2>4 DEF SumOver
  <1>18. one + SumOver(v, S, n) - 1 = SumOver(v, S, n)
    BY <1>8, <1>17
  <1> QED BY <1>14, <1>16, <1>17, <1>18 DEF FileSize

-----------------------------------------------------------------------------
(* What the next Block takes.                                              *)
LEMMA NextType ==
  ASSUME InputFits, block # 0
  PROVE  /\ block \in DOMAIN File /\ Total(block) \in Nat /\ File[block].comp \in Nat
         /\ File[block].tail \in Nat /\ File[block].out \in Nat /\ File[block].filters \in Nat
         /\ Usage(File[block].out) \in Nat /\ NextMem \in Nat
         /\ NextMem = File[block].filters + Total(block) + Usage(File[block].out)
  <1>1. block \in 1 .. Len(File)
    BY FileType DEF InputFits
  <1>2. /\ block \in DOMAIN File /\ File[block].comp \in Nat /\ File[block].tail \in Nat
        /\ File[block].out \in Nat /\ File[block].filters \in Nat
    BY <1>1, FileType DEF InputFits
  <1>3. Total(block) \in Nat /\ Usage(File[block].out) \in Nat
    BY <1>2, QueueAssumption DEF Total, Usage
  <1> QED BY <1>2, <1>3 DEF NextMem

(* The next Block's header. That the file ends with an Index keeps it from *)
(* being looked for behind the last Block.                                 *)
LEMMA MoreBlocks ==
  ASSUME InputFits, avail > 0, ~AtIndex
  PROVE  block + 1 \in 0 .. Len(File)
  <1> SUFFICES ASSUME block = Len(File) PROVE FALSE
    BY FileType DEF InputFits
  <1>1. block > 0 /\ File[block].last
    BY FileType DEF InputFits
  <1>2. PICK size \in Int : size = Before(block + 1)
    BY FileSizeType DEF InputFits
  <1>3. FileSize = size - 1
    BY <1>2 DEF FileSize
  <1>4. eaten < size
    BY <1>2, <1>3 DEF InputFits
  <1> QED BY <1>1, <1>2, <1>4 DEF AtIndex

-----------------------------------------------------------------------------
(* Direct mode's decoder reports what it has taken of its input, and what  *)
(* is counted is changed by nothing else.                                  *)

Has(d, n) == "in" \in DOMAIN d /\ d.in = n

LEMMA Reading ==
  ASSUME NEW b, NEW d, NEW n, NEW taken, Has(d, taken)
  PROVE  Has(Direct!ReadUnits(b, d, n).d, taken)
  <1> USE DEF Has
  <1>1. ASSUME NEW m PROVE Has(Direct!Take(b, d, m), taken)
    BY DEF Direct!Take, Direct!Open
  <1>2. ASSUME NEW e, Has(e, taken) PROVE Has(Direct!RunDry(e).d, taken)
    BY <1>2 DEF Direct!RunDry, Direct!Result
  <1>3. ASSUME NEW e, Has(e, taken), NEW rest PROVE Has(Direct!ReadOn(b, d, n, rest, e).d, taken)
    <2>1. CASE n <= rest
      BY <1>1, <2>1 DEF Direct!ReadOn, Direct!Result
    <2>2. CASE ~(n <= rest) /\ Direct!AtMarker(b, e)
      <3>1. Direct!ReadOn(b, d, n, rest, e).d = [e EXCEPT !.src = @ - 1, !.end = TRUE]
        BY <2>2 DEF Direct!ReadOn, Direct!Result
      <3> QED BY <1>3, <3>1
    <2>3. CASE ~(n <= rest) /\ ~Direct!AtMarker(b, e)
      <3>1. Direct!ReadOn(b, d, n, rest, e) = Direct!RunDry(e)
        BY <2>3 DEF Direct!ReadOn
      <3> QED BY <1>2, <1>3, <3>1
    <2> QED BY <2>1, <2>2, <2>3
  <1> QED BY <1>1, <1>3 DEF Direct!ReadUnits, Direct!Result

LEMMA Refilling ==
  ASSUME NEW b, NEW d, NEW target, NEW taken, Has(d, taken)
  PROVE  Has(Direct!Refill(b, d, target).d, taken)
  <1> USE DEF Has
  <1>1. PICK r : r = Direct!ReadUnits(b, d, target)
    OBVIOUS
  <1>2. Has(r.d, taken)
    BY <1>1, Reading
  <1>3. PICK e : e = Direct!Filled(r, target)
    OBVIOUS
  <1>4. Has(e, taken)
    BY <1>2, <1>3 DEF Direct!Filled
  <1>5. PICK l : l = Direct!ReadUnits(b, e, 1)
    OBVIOUS
  <1>6. Has(l.d, taken)
    BY <1>4, <1>5, Reading
  <1>7. Has(Direct!Look(l).d, taken)
    BY <1>6 DEF Direct!Look, Direct!Result
  <1>8. Direct!Refill(b, d, target) = Direct!LookAhead(b, e, r.ret, target)
    BY <1>1, <1>3 DEF Direct!Refill, Direct!AfterRead
  <1>9. Has(Direct!LookAhead(b, e, r.ret, target).d, taken)
    BY <1>4, <1>5, <1>7 DEF Direct!LookAhead, Direct!Result
  <1> QED BY <1>8, <1>9

(* What a call of the decoder answers.                                     *)
Takes(r) == r = Direct!Answer(r.d, r.in, r.units, r.ret) /\ r.in \in Int /\ Counts(r.d)

LEMMA Giving ==
  ASSUME NEW d, NEW in, NEW before, NEW s, NEW taken, Has(d, taken)
  PROVE  LET g == Direct!GiveOut(d, in, before, s)
         IN g = Direct!Answer(g.d, g.in, g.units, g.ret) /\ g.in = in /\ Has(g.d, taken)
  BY DEF Has, Direct!GiveOut, Direct!Given, Direct!Answer

LEMMA RawTakes ==
  ASSUME NEW b, NEW d, NEW a \in Int, NEW s, NEW fin, Counts(d)
  PROVE  LET r == Direct!RawDecode(b, d, a, s, fin) IN Takes(r) /\ r.d.in = d.in
  <1>1. PICK taken \in Int : Has(d, taken)
    BY DEF Counts, Has
  <1>2. PICK old : old = Direct!GiveOut(d, 0, <<>>, s)
    OBVIOUS
  <1>3. old = Direct!Answer(old.d, old.in, old.units, old.ret) /\ old.in = 0 /\ Has(old.d, taken)
    BY <1>1, <1>2, Giving
  <1>4. PICK fed : fed = [old.d EXCEPT !.src = @ + a, !.eof = @ \/ fin]
    OBVIOUS
  <1>5. Has(fed, taken)
    BY <1>3, <1>4 DEF Has
  <1>6. PICK left : left = s - Direct!Least(Len(d.pending), s)
    OBVIOUS
  <1>7. PICK f : f = Direct!Feed(b, fed, old.units, a, left)
    OBVIOUS
  <1>8. f = Direct!Answer(f.d, f.in, f.units, f.ret) /\ f.in = a /\ Has(f.d, taken)
    <2>1. PICK q : q = Direct!Refill(b, fed, Direct!Most(1, left))
      OBVIOUS
    <2>2. Has(q.d, taken)
      BY <1>5, <2>1, Refilling
    <2>3. PICK g : g = Direct!GiveOut(q.d, a, old.units, left)
      OBVIOUS
    <2>4. g = Direct!Answer(g.d, g.in, g.units, g.ret) /\ g.in = a /\ Has(g.d, taken)
      BY <2>2, <2>3, Giving
    <2>5. f = Direct!Answer(fed, a, old.units, "STREAM_END") \/ f = Direct!Answer(q.d, a, old.units, q.ret) \/ f = g
      BY <1>7, <2>1, <2>3 DEF Direct!Feed, Direct!Refilled
    <2> QED BY <1>5, <2>2, <2>4, <2>5 DEF Direct!Answer
  <1>9. PICK r : r = Direct!RawDecode(b, d, a, s, fin)
    OBVIOUS
  <1>10. r = old \/ r = f
    BY <1>2, <1>4, <1>6, <1>7, <1>9 DEF Direct!RawDecode, Direct!AfterOld
  <1> QED BY <1>1, <1>3, <1>8, <1>9, <1>10 DEF Takes, Has, Counts

LEMMA InnerTakes ==
  ASSUME NEW b, b.comp \in Int, NEW d, NEW a \in Int, NEW s, NEW fin, Counts(d)
  PROVE  Takes(Direct!Inner(b, d, a, s, fin))
  <1>1. PICK n \in Int : n = Direct!Least(a, b.comp - d.in)
    <2>1. Direct!Least(a, b.comp - d.in) \in Int
      BY DEF Direct!Least, Counts
    <2> QED BY <2>1
  <1>2. PICK m : m = Direct!Least(s, b.out - d.out)
    OBVIOUS
  <1>3. PICK r : r = Direct!RawDecode(b, d, n, m, fin)
    OBVIOUS
  <1>4. Takes(r)
    BY <1>3, RawTakes
  <1>5. PICK c : c = Direct!Counted(d, r)
    OBVIOUS
  <1>6. c.in = r.in /\ c.d = [r.d EXCEPT !.in = @ + r.in, !.out = @ + Len(r.units)]
        /\ c = Direct!Answer(c.d, c.in, c.units, c.ret)
    BY <1>5 DEF Direct!Counted, Direct!Answer
  <1>7. Counts(c.d)
    BY <1>4, <1>6 DEF Takes, Counts
  <1>8. Takes(c)
    BY <1>4, <1>6, <1>7 DEF Takes
  <1> QED BY <1>1, <1>2, <1>3, <1>5, <1>8 DEF Direct!Inner

LEMMA CodeTakes ==
  ASSUME NEW b, b.comp \in Int, b.tail \in Int, NEW d, NEW a \in Int, NEW s, NEW fin, Counts(d)
  PROVE  Takes(Direct!Code(b, d, a, s, fin))
  <1>1. ASSUME NEW r, Takes(r) PROVE Takes(Direct!DecodeTail(b, r, a))
    <2>1. PICK n \in Int : n = Direct!Least(a - r.in, b.comp + b.tail - r.d.in)
      <3>1. Direct!Least(a - r.in, b.comp + b.tail - r.d.in) \in Int
        BY <1>1 DEF Direct!Least, Takes, Counts
      <3> QED BY <3>1
    <2>2. PICK c : c = Direct!TailOf(b, r, n)
      OBVIOUS
    <2>3. /\ c.in = r.in + n /\ c.d = [r.d EXCEPT !.coding = FALSE, !.in = @ + n]
          /\ c = Direct!Answer(c.d, c.in, c.units, c.ret)
      BY <2>2 DEF Direct!TailOf, Direct!Answer
    <2>4. Counts(c.d)
      BY <1>1, <2>3 DEF Takes, Counts
    <2>5. c.in \in Int
      BY <1>1, <2>3 DEF Takes
    <2> QED BY <2>1, <2>2, <2>3, <2>4, <2>5 DEF Direct!DecodeTail, Takes
  <1>2. ASSUME NEW r, Takes(r) PROVE Takes([r EXCEPT !.ret = "DATA_ERROR"])
    BY <1>2 DEF Takes, Direct!Answer
  <1>3. PICK inner : inner = Direct!Inner(b, d, a, s, fin)
    OBVIOUS
  <1>4. Takes(inner)
    BY <1>3, InnerTakes
  <1>5. Takes(Direct!Coded(b, inner, a, s))
    <2>1. Takes(Direct!DecodeTail(b, inner, a)) /\ Takes([inner EXCEPT !.ret = "DATA_ERROR"])
      BY <1>1, <1>2, <1>4
    <2>2. PICK c : c = Direct!Coded(b, inner, a, s)
      OBVIOUS
    <2>3. c = inner \/ c = Direct!DecodeTail(b, inner, a) \/ c = [inner EXCEPT !.ret = "DATA_ERROR"]
      BY <2>2 DEF Direct!Coded
    <2> QED BY <1>4, <2>1, <2>2, <2>3
  <1>6. Takes(Direct!DecodeTail(b, Direct!Answer(d, 0, <<>>, "OK"), a))
    <2>1. PICK none : none = Direct!Answer(d, 0, <<>>, "OK")
      OBVIOUS
    <2>2. Takes(none)
      BY <2>1 DEF Takes, Direct!Answer
    <2> QED BY <1>1, <2>1, <2>2
  <1>7. PICK r : r = Direct!BlockDecode(b, d, a, s, fin)
    OBVIOUS
  <1>8. Takes(r)
    BY <1>3, <1>5, <1>6, <1>7 DEF Direct!BlockDecode
  <1>9. Takes(Direct!Watched(d, r))
    <2>1. PICK c : c = Direct!Watched(d, r)
      OBVIOUS
    <2>2. PICK e, ret0 : /\ e = [r.d EXCEPT !.stuck = Direct!Idle(r)]
                         /\ ret0 = IF Direct!Idle(r) /\ d.stuck THEN "BUF_ERROR" ELSE r.ret
      OBVIOUS
    <2>3. c = Direct!Answer(e, r.in, r.units, ret0)
      BY <1>8, <2>1, <2>2 DEF Direct!Watched, Takes, Direct!Answer
    <2>4. Counts(e)
      BY <1>8, <2>2 DEF Takes, Counts
    <2>5. c.d = e /\ c.in = r.in /\ c.units = r.units /\ c.ret = ret0
      BY <2>3 DEF Direct!Answer
    <2> QED BY <1>8, <2>1, <2>3, <2>4, <2>5 DEF Takes
  <1> QED BY <1>7, <1>9 DEF Direct!Code

(* The same of a Block without sizes, which is decoded in one go.          *)
LEMMA BufferedTakes ==
  ASSUME NEW b, NEW d, NEW a, NEW s, Counts(d), Total(block) \in Int
  PROVE  Takes(Buffered(b, d, a, s))
  <1>1. PICK whole \in Int, used \in Int : whole = Total(block) /\ used = IF d.in = 0 THEN whole ELSE 0
    OBVIOUS
  <1>2. PICK n : n = SmallerOf(b.out - d.out, s)
    OBVIOUS
  <1>3. PICK e : e = [d EXCEPT !.in = whole, !.out = @ + n]
    OBVIOUS
  <1>4. Counts(e)
    BY <1>3 DEF Counts
  <1>5. PICK r : r = Buffered(b, d, a, s)
    OBVIOUS
  <1>6. \/ r = Direct!Answer(d, 0, <<>>, "OK") \/ r = Direct!Answer(d, 0, <<>>, "DATA_ERROR")
        \/ r = Direct!Answer(e, used, Direct!Units(d.out + 1, n), IF e.out < b.out THEN "OK" ELSE "STREAM_END")
    BY <1>1, <1>2, <1>3, <1>5 DEF Buffered
  <1>7. ASSUME NEW k, Counts(k), NEW i \in Int, NEW u, NEW x PROVE Takes(Direct!Answer(k, i, u, x))
    BY <1>7 DEF Takes, Direct!Answer
  <1> QED BY <1>1, <1>4, <1>5, <1>6, <1>7

-----------------------------------------------------------------------------
(* Steps that touch nothing that is counted.                               *)

LEMMA BuffersSized == Sized(Buffer)
  BY DEF Sized, Buffer

(* The input moves from the application to the decoder.                    *)
Flows == avail' \in Int /\ eaten' \in Int /\ avail' + eaten' = avail + eaten

LEMMA StillFits ==
  ASSUME InputFits, setup' = setup, Flows, block' \in 0 .. Len(File), AtBlock' => block' # 0,
         Counts(direct)'
  PROVE  InputFits'
  <1>1. File' = File /\ FileSize' = FileSize
    BY DEF File, FileSize, Before
  <1>2. FileSize \in Int
    BY FileSizeType DEF InputFits
  <1>3. avail' \in Int /\ eaten' \in Int /\ avail' + eaten' <= FileSize
    BY <1>2 DEF InputFits, Flows
  <1> QED BY <1>1, <1>3 DEF InputFits

LEMMA Stays == ASSUME InputFits, UNCHANGED flow PROVE Flows
  BY DEF InputFits, flow, Flows

LEMMA Consumes == ASSUME InputFits, NEW n \in Int, Consume(n) PROVE Flows
  BY DEF InputFits, Consume, Flows

LEMMA TakesOneOrNone ==
  ASSUME InputFits, UNCHANGED flow \/ Consume(1)
  PROVE  Flows
  <1>1. PICK one \in Int : one = 1
    OBVIOUS
  <1> QED BY <1>1, Consumes, Stays

LEMMA InputKept ==
  ASSUME InputFits, UNCHANGED <<setup, sequence, block, direct, avail, eaten>>
  PROVE  InputFits' /\ File' = File
  <1>1. File' = File /\ FileSize' = FileSize
    BY DEF File, FileSize, Before
  <1> QED BY <1>1 DEF InputFits, AtBlock, Counts

(* Workers are told to do less, at most.                                   *)
LessToDo ==
  /\ wl' = wl /\ ws' \in [Worker -> WorkerRecord]
  /\ \A w \in Worker : ws'[w].command = "Run" => ws[w].command = "Run" /\ ws'[w].job = ws[w].job

LEMMA StillSound == ASSUME IInv, setup' = setup, LessToDo PROVE JobsSound'
  BY DEF IInv, JobsSound, LessToDo, File

LEMMA SameThreads == ASSUME IInv, UNCHANGED <<ws, wl>> PROVE LessToDo
  BY DEF IInv, Types, LessToDo

LEMMA TypedWorker ==
  ASSUME NEW x \in WorkerRecord
  PROVE  /\ \A c \in {"Idle", "Run", "Exit"} : [x EXCEPT !.command = c] \in WorkerRecord
         /\ \A p \in Partials : /\ [x EXCEPT !.partial = p] \in WorkerRecord
                                /\ [x EXCEPT !.partial = p].command = x.command
                                /\ [x EXCEPT !.partial = p].job = x.job
         /\ \A n \in Int : /\ [x EXCEPT !.in_filled = n] \in WorkerRecord
                           /\ [x EXCEPT !.in_filled = n].command = x.command
                           /\ [x EXCEPT !.in_filled = n].job = x.job
  BY DEF WorkerRecord, Partials

LEMMA ToldToExit ==
  ASSUME IInv, wl' = wl, AbortWorkers \/ \E v : AbortWorkersBefore(v)
  PROVE  LessToDo
  <1>1. ws \in [Worker -> WorkerRecord]
    BY DEF IInv, Types
  <1>2. /\ ws' = [w \in Worker |-> ws'[w]]
        /\ \A w \in Worker : ws'[w] = ws[w] \/ ws'[w] = [ws[w] EXCEPT !.command = "Exit"]
    BY DEF AbortWorkers, AbortWorkersBefore
  <1>3. ASSUME NEW w \in Worker
        PROVE  /\ ws'[w] \in WorkerRecord
               /\ ws'[w].command = "Run" => ws[w].command = "Run" /\ ws'[w].job = ws[w].job
    <2>1. PICK x \in WorkerRecord : x = ws[w]
      BY <1>1
    <2>2. PICK y : y = [x EXCEPT !.command = "Exit"]
      OBVIOUS
    <2>3. y \in WorkerRecord /\ y.command = "Exit"
      BY <2>2, TypedWorker DEF WorkerRecord
    <2> QED BY <1>2, <2>1, <2>2, <2>3
  <1> QED BY <1>2, <1>3 DEF LessToDo

(* Nothing that is counted changes; the Block is not handed out here, or   *)
(* it still is.                                                            *)
Uncounted ==
  /\ UNCHANGED <<setup, outq, free_workers, mem_in_use>>
  /\ pc' # "start" \/ UNCHANGED <<pc, block>>

LEMMA QuietStep ==
  ASSUME IInv, Uncounted, InputFits', Where', JobsSound',
         ws' \in [Worker -> WorkerRecord], wl' \in [Worker -> ThreadRecord]
  PROVE  IInv'
  <1>1. Types' /\ ThreadingMemoryBounded'
    BY DEF IInv, Types, ThreadingMemoryBounded, Uncounted
  <1>2. RoomMade'
    BY DEF IInv, RoomMade, Uncounted, NextMem, Total, File
  <1> QED BY <1>1, <1>2 DEF IInv

LEMMA AppStep ==
  ASSUME IInv, Uncounted, InputFits', Where', LessToDo
  PROVE  IInv'
  <1>1. JobsSound'
    BY StillSound DEF Uncounted
  <1>2. ws' \in [Worker -> WorkerRecord] /\ wl' \in [Worker -> ThreadRecord]
    BY DEF LessToDo, IInv, Types
  <1> QED BY <1>1, <1>2, QuietStep

-----------------------------------------------------------------------------
(* What the application's thread does outside of the mutex.                *)

Outside == {"StreamHeader", "BlockHeader", "IndexWaitOutput", "IndexDecode", "StreamFooter",
            "StreamPadding", "Error"}

(* The call returns or goes on, with the same Block at hand or none.       *)
LEMMA Between ==
  ASSUME IInv, Uncounted, LessToDo, UNCHANGED <<block, direct>>, Flows,
         sequence' \in Outside \/ UNCHANGED <<sequence, current_worker>>,
         pc' \notin {"prepare", "start", "assign", "request"}
  PROVE  IInv'
  <1>1. InputFits
    BY DEF IInv
  <1>2. InputFits'
    BY <1>1, StillFits DEF Uncounted, InputFits, AtBlock, Outside, Counts
  <1>3. Where'
    BY DEF IInv, Where, Outside
  <1> QED BY <1>2, <1>3, AppStep

LEMMA StreamHeaderStep == ASSUME IInv, StreamHeader PROVE IInv'
  <1>1. /\ Uncounted /\ UNCHANGED <<block, direct, ws, wl>> /\ sequence' \in Outside
        /\ pc' \notin {"prepare", "start", "assign", "request"}
        /\ (UNCHANGED flow \/ Consume(1))
    BY DEF StreamHeader, Uncounted, Return, GoTo, kept, locals, shared, hist, Outside
  <1> QED BY <1>1, SameThreads, TakesOneOrNone, Between DEF IInv

LEMMA IndexDecodeStep == ASSUME IInv, IndexDecode PROVE IInv'
  <1>1. /\ Uncounted /\ UNCHANGED <<block, direct, ws, wl>> /\ sequence' \in Outside
        /\ pc' \notin {"prepare", "start", "assign", "request"}
        /\ (UNCHANGED flow \/ Consume(1))
    BY DEF IndexDecode, Uncounted, Return, GoTo, kept, locals, shared, hist, Outside
  <1> QED BY <1>1, SameThreads, TakesOneOrNone, Between DEF IInv

LEMMA StreamFooterStep == ASSUME IInv, StreamFooter PROVE IInv'
  <1>1. /\ Uncounted /\ UNCHANGED <<block, direct, ws, wl>> /\ sequence' \in Outside
        /\ pc' \notin {"prepare", "start", "assign", "request"}
        /\ (UNCHANGED flow \/ Consume(1))
    BY DEF StreamFooter, Uncounted, Return, GoTo, kept, locals, shared, hist, Outside
  <1> QED BY <1>1, SameThreads, TakesOneOrNone, Between DEF IInv

LEMMA StreamPaddingStep == ASSUME IInv, StreamPadding PROVE IInv'
  <1>1. /\ Uncounted /\ UNCHANGED <<block, direct, ws, wl>> /\ sequence' \in Outside
        /\ pc' \notin {"prepare", "start", "assign", "request"}
        /\ (UNCHANGED flow \/ Consume(1))
    BY DEF StreamPadding, Uncounted, Return, GoTo, locals, shared, hist, Outside
  <1> QED BY <1>1, SameThreads, TakesOneOrNone, Between DEF IInv

(* Those that only decide how to go on.                                    *)
LEMMA WaitFirstStep == ASSUME IInv, WaitFirst PROVE IInv'
  <1>1. /\ Uncounted /\ UNCHANGED <<block, direct, ws, wl, sequence, current_worker>>
        /\ pc' \notin {"prepare", "start", "assign", "request"} /\ UNCHANGED flow
    BY DEF WaitFirst, EnterWait, GoTo, Uncounted, kept, shared, hist
  <1> QED BY <1>1, SameThreads, Stays, Between DEF IInv

LEMMA ErrorNowStep == ASSUME IInv, ErrorNow PROVE IInv'
  <1>1. /\ Uncounted /\ UNCHANGED <<block, direct, ws, wl, sequence, current_worker>>
        /\ pc' \notin {"prepare", "start", "assign", "request"} /\ UNCHANGED flow
    BY DEF ErrorNow, Return, Uncounted, kept, shared, hist
  <1> QED BY <1>1, SameThreads, Stays, Between DEF IInv

LEMMA ParkStep == ASSUME IInv, Park \/ TimeOut \/ SpuriousWake PROVE IInv'
  <1>1. /\ Uncounted /\ UNCHANGED <<block, direct, ws, wl, sequence, current_worker>>
        /\ pc' \notin {"prepare", "start", "assign", "request"} /\ UNCHANGED flow
    BY DEF Park, TimeOut, SpuriousWake, GoTo, Return, Uncounted, coder, shared, hist
  <1> QED BY <1>1, SameThreads, Stays, Between DEF IInv

LEMMA EndStep == ASSUME IInv, End PROVE IInv'
  <1>1. /\ Uncounted /\ UNCHANGED <<block, direct, wl, sequence, current_worker>> /\ AbortWorkers
        /\ pc' \notin {"prepare", "start", "assign", "request"} /\ UNCHANGED flow
    BY DEF End, GoTo, Uncounted, coder, shared, hist
  <1> QED BY <1>1, ToldToExit, Stays, Between DEF IInv

LEMMA SetMemlimitStep == ASSUME IInv, SetMemlimit PROVE IInv'
  <1>1. /\ Uncounted /\ UNCHANGED <<block, direct, ws, wl, sequence, current_worker>>
        /\ pc' \notin {"prepare", "start", "assign", "request"} /\ UNCHANGED flow
    BY DEF SetMemlimit, Uncounted, shared, hist
  <1> QED BY <1>1, SameThreads, Stays, Between DEF IInv

LEMMA RequestPartialStep == ASSUME IInv, RequestPartial PROVE IInv'
  <1>1. /\ Uncounted /\ UNCHANGED <<block, direct, wl, sequence, current_worker>>
        /\ pc' \notin {"prepare", "start", "assign", "request"} /\ UNCHANGED flow
        /\ ws' = [ws EXCEPT ![asked].partial = IF @ = "Disabled" THEN "Start" ELSE @]
    BY DEF RequestPartial, GoTo, Uncounted, coder, shared, hist
  <1>2. LessToDo
    <2>1. CASE asked \in Worker
      <3>1. PICK w \in Worker, x \in WorkerRecord, p \in Partials :
              w = asked /\ x = ws[w] /\ p = IF x.partial = "Disabled" THEN "Start" ELSE x.partial
        BY <2>1 DEF IInv, Types, WorkerRecord, Partials
      <3>2. PICK y \in WorkerRecord : y = [x EXCEPT !.partial = p] /\ y.command = x.command /\ y.job = x.job
        BY TypedWorker
      <3>3. ws' = [ws EXCEPT ![w] = y]
        BY <1>1, <3>1, <3>2 DEF IInv, Types
      <3> QED BY <1>1, <3>1, <3>2, <3>3 DEF LessToDo, IInv, Types
    <2>2. CASE asked \notin Worker
      BY <1>1, <2>2 DEF LessToDo, IInv, Types
    <2> QED BY <2>1, <2>2
  <1> QED BY <1>1, <1>2, Stays, Between DEF IInv

LEMMA CallStep == ASSUME IInv, Call PROVE IInv'
  <1>1. /\ Uncounted /\ UNCHANGED <<block, direct, ws, wl, sequence, current_worker, eaten>>
        /\ pc' \notin {"prepare", "start", "assign", "request"}
    BY DEF Call, Uncounted, shared
  <1>2. FileSize \in Nat /\ File' = File /\ FileSize' = FileSize /\ setup.offers \subseteq Nat
    BY <1>1, FileSizeType, FileType DEF IInv, InputFits, Uncounted, File, FileSize, Before
  <1>3. PICK n \in Int, size \in Int : n = eaten /\ size = FileSize
    BY <1>2 DEF IInv, InputFits
  <1>4. avail' \in Int /\ avail' + n <= size
    <2>1. avail \in Int /\ avail + n <= size
      BY <1>3 DEF IInv, InputFits
    <2>2. \/ \E more \in setup.offers : avail' = avail + more /\ avail' <= size - n
          \/ avail' = size - n
          \/ avail' = avail
      BY <1>3 DEF Call
    <2>3. ASSUME NEW more \in setup.offers, avail' = avail + more, avail' <= size - n
          PROVE  avail' \in Int /\ avail' + n <= size
      <3>1. avail' \in Int
        BY <1>2, <2>1, <2>3
      <3>2. PICK a \in Int : a = avail'
        BY <3>1
      <3> QED BY <2>3, <3>2
    <2>4. CASE avail' = size - n
      <3>1. size - n + n <= size /\ size - n \in Int
        OBVIOUS
      <3> QED BY <2>4, <3>1
    <2>5. CASE avail' = avail
      BY <2>1, <2>5
    <2> QED BY <2>2, <2>3, <2>4, <2>5
  <1>5. InputFits'
    BY <1>1, <1>2, <1>3, <1>4 DEF IInv, InputFits, AtBlock, Counts, Uncounted
  <1>6. Where'
    BY <1>1 DEF IInv, Where
  <1> QED BY <1>1, <1>5, <1>6, SameThreads, AppStep

LEMMA BlockHeaderStep == ASSUME IInv, BlockHeader PROVE IInv'
  <1>1. /\ Uncounted /\ UNCHANGED <<direct, ws, wl, current_worker>> /\ sequence = "BlockHeader"
        /\ pc' \notin {"prepare", "start", "assign", "request"}
    BY DEF BlockHeader, EnterWait, GoTo, Uncounted, shared, hist
  <1>2. LessToDo /\ InputFits
    BY <1>1, SameThreads DEF IInv
  <1>3. CASE UNCHANGED <<block, flow>> /\ sequence' \in Outside
    BY <1>1, <1>2, <1>3, Stays, Between
  <1>4. CASE avail > 0 /\ ~AtIndex /\ Consume(1) /\ block' = block + 1 /\ sequence' \in {"Error", "BlockInit"}
    <2>1. Flows
      BY <1>2, <1>4, TakesOneOrNone
    <2>2. block \in Nat /\ block' \in 0 .. Len(File) /\ block' # 0
      <3>1. block \in Nat
        BY <1>2, FileType DEF InputFits
      <3> QED BY <1>2, <1>4, <3>1, MoreBlocks
    <2>3. InputFits'
      BY <1>1, <1>2, <2>1, <2>2, StillFits DEF Uncounted, InputFits, Counts
    <2>4. Where'
      BY <1>1, <1>4 DEF Where
    <2> QED BY <1>1, <1>2, <2>3, <2>4, AppStep
  <1>5. \/ UNCHANGED <<block, flow>> /\ sequence' \in Outside
        \/ avail > 0 /\ ~AtIndex /\ Consume(1) /\ block' = block + 1 /\ sequence' \in {"Error", "BlockInit"}
    BY <1>1 DEF BlockHeader, Outside
  <1> QED BY <1>3, <1>4, <1>5

LEMMA BlockInitStep == ASSUME IInv, BlockInit PROVE IInv'
  <1>1. /\ Uncounted /\ UNCHANGED <<block, direct, ws, wl, current_worker, flow>> /\ sequence = "BlockInit"
        /\ pc' \notin {"prepare", "start", "assign", "request"}
        /\ sequence' \in {"BlockInit", "BlockThreadInit", "BlockDirectInit", "Error"}
    BY DEF BlockInit, EnterWait, GoTo, Uncounted, kept, shared, hist
  <1>2. Flows /\ InputFits
    BY <1>1, Stays DEF IInv
  <1>3. InputFits'
    BY <1>1, <1>2, StillFits DEF Uncounted, InputFits, AtBlock, Counts
  <1>4. Where'
    BY <1>1 DEF Where
  <1> QED BY <1>1, <1>3, <1>4, SameThreads, AppStep

LEMMA BlockThreadRunStep == ASSUME IInv, BlockThreadRun PROVE IInv'
  <1>1. /\ Uncounted /\ UNCHANGED <<block, direct, wl, sequence, current_worker>>
        /\ pc' \notin {"prepare", "start", "assign", "request"} /\ sequence = "BlockThreadRun"
    BY DEF BlockThreadRun, EnterWait, GoTo, Uncounted, kept, shared, hist
  <1>2. CASE CutOff
    <2>1. UNCHANGED flow /\ AbortWorkersBefore(current_worker)
      BY <1>2 DEF BlockThreadRun
    <2>2. LessToDo
      BY <1>1, <2>1, ToldToExit
    <2> QED BY <1>1, <2>1, <2>2, Stays, Between DEF IInv
  <1>3. CASE ~CutOff
    <2>1. PICK n : /\ n = SmallerOf(Wanted, avail) /\ Consume(n)
                   /\ ws' = [ws EXCEPT ![current_worker].in_filled = @ + n]
      BY <1>3 DEF BlockThreadRun
    <2>2. current_worker \in Worker /\ avail \in Int
      BY <1>1 DEF IInv, Where, InputFits
    <2>3. PICK w \in Worker, x \in WorkerRecord : w = current_worker /\ x = ws[w]
      BY <2>2 DEF IInv, Types
    <2>4. x.in_size \in Int /\ x.in_filled \in Int
      BY DEF WorkerRecord
    <2>5. n \in Int
      BY <2>1, <2>2, <2>3, <2>4 DEF SmallerOf, Wanted
    <2>6. PICK m \in Int : m = x.in_filled + n
      BY <2>4, <2>5
    <2>7. PICK y \in WorkerRecord : y = [x EXCEPT !.in_filled = m] /\ y.command = x.command /\ y.job = x.job
      BY TypedWorker
    <2>8. ws' = [ws EXCEPT ![w] = y]
      BY <2>1, <2>3, <2>6, <2>7 DEF IInv, Types
    <2>9. LessToDo
      BY <1>1, <2>3, <2>7, <2>8 DEF LessToDo, IInv, Types
    <2> QED BY <1>1, <2>1, <2>5, <2>9, Consumes, Between DEF IInv
  <1> QED BY <1>2, <1>3

LEMMA DirectTakes ==
  ASSUME IInv, sequence = "BlockDirectRun", NEW r, Takes(r), DirectStep(r)
  PROVE  Flows /\ Counts(direct)'
  <1>1. r.in \in Int /\ Counts(r.d) /\ avail' = avail - r.in /\ eaten' = eaten + r.in
    BY DEF Takes, DirectStep
  <1>2. Counts(Direct!FreshDecoder)
    BY DEF Direct!FreshDecoder, Counts
  <1>3. Counts(direct)'
    BY <1>1, <1>2 DEF DirectStep, Counts
  <1>4. PICK n \in Int, a \in Int, e \in Int : n = r.in /\ a = avail /\ e = eaten
    BY <1>1 DEF IInv, InputFits
  <1> QED BY <1>1, <1>3, <1>4 DEF Flows

LEMMA RecordedTakes == ASSUME NEW r, Takes(r) PROVE Takes(Recorded(r))
  <1>1. CASE r.ret = "STREAM_END" /\ File[block].flaw = "record"
    <2>1. Recorded(r) = Direct!Answer(r.d, r.in, r.units, "DATA_ERROR")
      BY <1>1 DEF Recorded, Takes, Direct!Answer
    <2> QED BY <2>1 DEF Takes, Direct!Answer
  <1>2. CASE ~(r.ret = "STREAM_END" /\ File[block].flaw = "record")
    BY <1>2 DEF Recorded
  <1> QED BY <1>1, <1>2

LEMMA BlockDirectRunStep == ASSUME IInv, BlockDirectRun PROVE IInv'
  <1>1. /\ Uncounted /\ UNCHANGED <<block, ws, wl, current_worker>> /\ sequence = "BlockDirectRun"
        /\ pc' \notin {"prepare", "start", "assign", "request"}
        /\ sequence' \in {"BlockDirectRun", "BlockHeader"}
    BY DEF BlockDirectRun, DirectStep, GoTo, Return, Uncounted, locals, shared, hist
  <1>2. Counts(direct) /\ avail \in Int /\ block # 0
    BY <1>1 DEF IInv, InputFits, AtBlock
  <1>3. File[block].comp \in Int /\ File[block].tail \in Int /\ Total(block) \in Int
    BY <1>2, NextType DEF IInv
  <1>4. \A x : Takes(Direct!Answer(direct, 0, <<>>, x))
    BY <1>2 DEF Takes, Direct!Answer
  <1>5. Takes(Direct!Code(File[block], direct, avail, space, action = "FINISH"))
    BY <1>2, <1>3, CodeTakes
  <1>6. Takes(Buffered(File[block], direct, avail, space))
    BY <1>2, <1>3, BufferedTakes
  <1>7. \E r : Takes(r) /\ DirectStep(r)
    BY <1>4, <1>5, <1>6, RecordedTakes DEF BlockDirectRun
  <1>8. Flows /\ Counts(direct)'
    BY <1>1, <1>7, DirectTakes
  <1>9. InputFits'
    BY <1>1, <1>2, <1>8, StillFits DEF Uncounted, IInv, InputFits
  <1>10. Where'
    BY <1>1 DEF Where
  <1> QED BY <1>1, <1>9, <1>10, SameThreads, AppStep

LEMMA DoneStep == ASSUME IInv, Done PROVE IInv'
  <1>1. /\ Uncounted /\ UNCHANGED <<block, flow, wl>> /\ pc' \notin {"start", "assign", "request"}
        /\ (ws' = ws \/ AbortWorkers)
        /\ direct' = IF sequence = "BlockDirectInit" THEN Direct!FreshDecoder ELSE direct
    BY DEF Done, ToSequence, ReturnFilled, Return, GoTo, Uncounted, shared, hist
  <1>2. LessToDo
    BY <1>1, SameThreads, ToldToExit
  <1>3. /\ (pc' = "prepare" => sequence = "BlockThreadInit" /\ sequence' = sequence)
        /\ \/ UNCHANGED <<sequence, current_worker>>
           \/ sequence' \in Outside
           \/ sequence = "BlockDirectInit" /\ sequence' = "BlockDirectRun"
    BY DEF Done, ToSequence, ReturnFilled, Return, GoTo, Outside
  <1>4. Counts(direct)'
    BY <1>1 DEF Direct!FreshDecoder, Counts, IInv, InputFits
  <1>5. InputFits'
    <2>1. AtBlock' => block' # 0
      BY <1>1, <1>3 DEF IInv, InputFits, AtBlock, Outside
    <2> QED BY <1>1, <1>4, <2>1, Stays, StillFits DEF IInv, InputFits, Uncounted
  <1>6. Where'
    BY <1>1, <1>3 DEF IInv, Where, Outside
  <1> QED BY <1>1, <1>2, <1>5, <1>6, AppStep

LEMMA RequestAtStartStep == ASSUME IInv, RequestAtStart PROVE IInv'
  <1>1. /\ Uncounted /\ UNCHANGED <<block, direct, wl, current_worker, flow>> /\ pc = "request"
        /\ pc' = "code" /\ sequence' = "BlockThreadRun"
        /\ ws' = [ws EXCEPT ![asked].partial = IF @ = "Disabled" THEN "Start" ELSE @]
    BY DEF RequestAtStart, GoTo, Uncounted, kept, shared, hist
  <1>2. LessToDo
    <2>1. CASE asked \in Worker
      <3>1. PICK w \in Worker, x \in WorkerRecord, p \in Partials :
              w = asked /\ x = ws[w] /\ p = IF x.partial = "Disabled" THEN "Start" ELSE x.partial
        BY <2>1 DEF IInv, Types, WorkerRecord, Partials
      <3>2. PICK y \in WorkerRecord : y = [x EXCEPT !.partial = p] /\ y.command = x.command /\ y.job = x.job
        BY TypedWorker
      <3>3. ws' = [ws EXCEPT ![w] = y]
        BY <1>1, <3>1, <3>2 DEF IInv, Types
      <3> QED BY <1>1, <3>1, <3>2, <3>3 DEF LessToDo, IInv, Types
    <2>2. CASE asked \notin Worker
      BY <1>1, <2>2 DEF LessToDo, IInv, Types
    <2> QED BY <2>1, <2>2
  <1>3. block' # 0
    BY <1>1 DEF IInv, Where, InputFits, AtBlock
  <1>4. InputFits'
    BY <1>1, <1>3, Stays, StillFits DEF IInv, InputFits, Uncounted, Counts
  <1>5. Where'
    BY <1>1 DEF IInv, Where
  <1> QED BY <1>1, <1>2, <1>4, <1>5, AppStep

LEMMA AssignWorkerStep == ASSUME IInv, AssignWorker PROVE IInv'
  <1>1. /\ Uncounted /\ UNCHANGED <<block, direct, wl, sequence, flow>> /\ pc = "assign"
        /\ pc' \in {"request", "app"}
    BY DEF AssignWorker, Return, GoTo, Uncounted, shared, hist
  <1>2. InputFits' /\ asked \in Worker /\ block # 0 /\ sequence = "BlockThreadInit" /\ File' = File
    BY <1>1, InputKept DEF IInv, Where, InputFits, AtBlock, Uncounted, flow
  <1>3. block \in DOMAIN File /\ Total(block) \in Int /\ block \in Int
    BY <1>2, NextType, FileType DEF IInv, InputFits
  <1>4. PICK w \in Worker, x \in WorkerRecord, total \in Int, b \in Int, zero \in Int :
          w = asked /\ x = ws[w] /\ total = Total(block) /\ b = block /\ zero = 0
    BY <1>2, <1>3 DEF IInv, Types
  <1>5. PICK p \in Partials : p = "Disabled"
    BY DEF Partials
  <1>6. PICK job : job = [x EXCEPT !.in_size = total, !.in_filled = zero, !.outbuf = b, !.partial = p]
    OBVIOUS
  <1>7. job \in WorkerRecord /\ job.command = x.command /\ job.job = x.job
    BY <1>6 DEF WorkerRecord
  <1>8. PICK c \in {"Idle", "Run", "Exit"} : c = "Run"
    OBVIOUS
  <1>9. PICK run : run = [job EXCEPT !.job = b, !.command = c]
    OBVIOUS
  <1>10. run \in WorkerRecord /\ run.job = block
    BY <1>4, <1>7, <1>9 DEF WorkerRecord
  <1>11. PICK y \in {run, job} : /\ ws' = [ws EXCEPT ![w] = y]
                                 /\ pc' = "request" => current_worker' = asked
                                 /\ pc' # "request" => UNCHANGED current_worker
    <2>1. CASE /\ ws' = [ws EXCEPT ![asked] = [job EXCEPT !.job = block, !.command = "Run"]]
               /\ current_worker' = asked /\ GoTo("request")
      BY <1>4, <1>8, <1>9, <2>1 DEF GoTo
    <2>2. CASE ws' = [ws EXCEPT ![asked] = job] /\ UNCHANGED current_worker /\ Return("MEM_ERROR")
      <3>1. PICK y \in {run, job} : y = job
        OBVIOUS
      <3>2. pc' = "app" /\ job.job = x.job
        BY <1>7, <2>2 DEF Return
      <3> QED BY <1>4, <1>9, <2>2, <3>1, <3>2
    <2> QED BY <1>4, <1>5, <1>6, <2>1, <2>2 DEF AssignWorker
  <1>12. /\ ws' \in [Worker -> WorkerRecord] /\ ws'[w] = y
         /\ \A v \in Worker : v # w => ws'[v] = ws[v]
    BY <1>7, <1>10, <1>11 DEF IInv, Types
  <1>13. JobsSound'
    BY <1>1, <1>2, <1>3, <1>4, <1>7, <1>10, <1>12 DEF IInv, JobsSound
  <1>14. Where'
    BY <1>1, <1>2, <1>11 DEF Where
  <1> QED BY <1>1, <1>2, <1>12, <1>13, <1>14, QuietStep DEF IInv, Types

-----------------------------------------------------------------------------
(* A Block is given to a worker.                                           *)

(* What the queue counts.                                                  *)
LEMMA QueueCounts ==
  ASSUME IInv
  PROVE  /\ IsQueue(outq, Buffer, Nat) /\ Counted(outq)
         /\ outq.mem_in_use \in Nat /\ outq.mem_allocated \in Nat /\ mem_in_use \in Int
         /\ MemlimitThreading \in Nat
  <1>1. IsQueue(outq, Buffer, Nat) /\ Counted(outq) /\ mem_in_use \in Int
    BY DEF IInv, Types
  <1> QED BY <1>1, BuffersSized, CountsAreNat, DecoderAssumption

(* A buffer of the cache counts no more than the whole cache.              *)
LEMMA UsageHolds ==
  ASSUME NEW s \in Seq(Nat), NEW x \in ToSet(s)
  PROVE  x \in Nat /\ Usage(x) <= UsageOf(s)
  <1>1. PICK n \in Nat : n = Len(s)
    OBVIOUS
  <1>2. PICK k \in 1 .. n : x = s[k]
    BY <1>1 DEF ToSet
  <1>3. PICK v : v = [i \in 1 .. n |-> Usage(s[i])]
    OBVIOUS
  <1>4. \A i \in 1 .. n : v[i] \in Nat /\ v[i] = Usage(s[i])
    BY <1>1, <1>3, QueueAssumption DEF Usage
  <1>5. PICK w : w = [i \in 1 .. n |-> IF i = k THEN 0 ELSE v[i]]
    OBVIOUS
  <1>6. /\ \A i \in 1 .. n : w[i] \in Nat /\ (i # k => v[i] = w[i])
        /\ w[k] = 0
    BY <1>4, <1>5
  <1>7. SumTo(w, n) \in Nat /\ SumTo(v, n) \in Nat
    BY <1>4, <1>6, SumNat
  <1>8. SumTo(w, n) = SumTo(v, n) - v[k] + w[k]
    <2>1. Numbers(v, n) /\ Numbers(w, n)
      BY <1>4, <1>6 DEF Numbers
    <2> QED BY <1>6, <2>1, SumChange
  <1>9. v[k] \in Nat
    BY <1>4
  <1>10. v[k] <= SumTo(v, n)
    BY <1>6, <1>7, <1>8, <1>9
  <1>11. UsageOf(s) = SumTo(v, n)
    BY <1>1, <1>3, UsageIsSum
  <1>12. x \in Nat
    BY <1>1, <1>2
  <1> QED BY <1>2, <1>4, <1>10, <1>11, <1>12

(* Cached buffers of another size are dropped if there is no room beside   *)
(* them.                                                                   *)
LEMMA PrepareRoomStep == ASSUME IInv, PrepareRoom PROVE IInv'
  <1>1. /\ UNCHANGED <<setup, free_workers, mem_in_use, block, direct, ws, wl, sequence, current_worker>>
        /\ UNCHANGED <<avail, eaten>> /\ pc = "prepare" /\ pc' = "start"
    BY DEF PrepareRoom, GoTo, coder, flow, hist
  <1>2. InputFits' /\ File' = File
    BY <1>1, InputKept DEF IInv
  <1>3. block # 0 /\ NextMem' = NextMem
    BY <1>1, <1>2 DEF IInv, Where, InputFits, AtBlock, NextMem, Total
  <1>4. PICK out \in Nat, next \in Nat, L \in Nat, m \in Int, i \in Nat, a \in Nat :
          /\ out = File[block].out /\ next = NextMem /\ L = MemlimitThreading
          /\ m = mem_in_use /\ i = outq.mem_in_use /\ a = outq.mem_allocated
    BY <1>3, NextType, QueueCounts DEF IInv
  <1>5. Where' /\ JobsSound'
    BY <1>1, <1>2 DEF IInv, Where, JobsSound
  <1>6. CASE ~NeedsRoom
    <2>1. outq' = outq
      BY <1>6 DEF PrepareRoom
    <2>2. m + a + next <= L
      BY <1>4, <1>6 DEF NeedsRoom
    <2>3. RoomMade'
      BY <1>1, <1>3, <1>4, <2>1, <2>2 DEF RoomMade
    <2>4. Types' /\ ThreadingMemoryBounded'
      BY <1>1, <2>1 DEF IInv, Types, ThreadingMemoryBounded
    <2> QED BY <1>2, <1>5, <2>3, <2>4 DEF IInv
  <1>7. CASE NeedsRoom
    <2>1. PICK k : k = ClearCacheKeep(outq, out)
      OBVIOUS
    <2>2. outq' = k
      BY <1>4, <1>7, <2>1 DEF PrepareRoom
    <2>3. IsQueue(k, Buffer, Nat)
      BY <1>4, <2>1, QueueCounts, TrimmedCache
    <2>4. Counted(k) /\ (k.cache = <<>> \/ k.cache = <<out>>)
      BY <1>4, <2>1, QueueCounts, BuffersSized, TrimCounted
    <2>5. k.mem_allocated <= a
      <3>1. k.mem_in_use = i
        BY <1>4, <2>1, QueueCounts, TrimmedCache
      <3>2. PICK u \in Nat : u = UsageOf(outq.cache)
        BY QueueCounts, BuffersSized, CountsAreNat
      <3>3. a = i + u
        BY <1>4, <3>2, QueueCounts DEF Counted
      <3>4. CASE out \in ToSet(outq.cache)
        <4>1. PICK c \in Seq(Nat) : c = outq.cache
          BY QueueCounts DEF IsQueue
        <4>2. PICK U \in Nat : U = Usage(out)
          BY QueueAssumption DEF Usage
        <4>3. U <= u
          BY <3>2, <3>4, <4>1, <4>2, UsageHolds
        <4>4. k.mem_allocated = i \/ k.mem_allocated = i + U
          BY <1>4, <2>1, <4>2, QueueCounts, BuffersSized, TrimCounted
        <4> QED BY <3>3, <4>3, <4>4
      <3>5. CASE out \notin ToSet(outq.cache)
        <4>1. k = ClearCache(outq)
          BY <2>1, <3>5 DEF ClearCacheKeep
        <4>2. k.mem_allocated = i
          BY <1>4, <4>1, QueueCounts, BuffersSized, ClearCounted
        <4> QED BY <3>3, <4>2
      <3> QED BY <3>4, <3>5
    <2>6. k.mem_allocated \in Nat
      BY <2>3, <2>4, BuffersSized, CountsAreNat
    <2>7. ThreadingMemoryBounded'
      <3>1. PICK j \in Nat : j = k.mem_allocated
        BY <2>6
      <3>2. m + a <= L
        BY <1>4 DEF IInv, ThreadingMemoryBounded
      <3>3. m + j <= L
        BY <2>5, <3>1, <3>2
      <3> QED BY <1>1, <1>4, <2>2, <3>1, <3>3 DEF ThreadingMemoryBounded
    <2>8. RoomMade'
      BY <1>1, <1>2, <1>4, <2>2, <2>4 DEF RoomMade
    <2>9. Types'
      BY <1>1, <2>2, <2>3, <2>4 DEF IInv, Types
    <2> QED BY <1>2, <1>5, <2>7, <2>8, <2>9 DEF IInv
  <1> QED BY <1>6, <1>7

(* The queue after a step that takes memory from it, or none.              *)
Shrinks == IsQueue(outq, Buffer, Nat)' /\ Counted(outq)' /\ outq'.mem_allocated <= outq.mem_allocated

LEMMA ShrinkStep ==
  ASSUME IInv, Shrinks, UNCHANGED mem_in_use, UNCHANGED free_workers, pc' # "start",
         ws' \in [Worker -> WorkerRecord], wl' \in [Worker -> ThreadRecord],
         InputFits', Where', JobsSound'
  PROVE  IInv'
  <1>1. Types'
    BY DEF IInv, Types, Shrinks
  <1>2. outq'.mem_allocated \in Nat
    BY BuffersSized, CountsAreNat DEF Shrinks
  <1>3. PICK m \in Int, a \in Nat, b \in Nat, L \in Nat :
          m = mem_in_use /\ a = outq.mem_allocated /\ b = outq'.mem_allocated /\ L = MemlimitThreading
    BY <1>2, QueueCounts
  <1>4. m + a <= L /\ b <= a
    BY <1>3 DEF IInv, ThreadingMemoryBounded, Shrinks
  <1>5. m + b <= L
    BY <1>4
  <1>6. ThreadingMemoryBounded' /\ RoomMade'
    BY <1>3, <1>5 DEF ThreadingMemoryBounded, RoomMade
  <1> QED BY <1>1, <1>6 DEF IInv

LEMMA JoinStep == ASSUME IInv, Join PROVE IInv'
  <1>1. /\ UNCHANGED <<setup, mem_in_use, free_workers, block, direct, sequence, avail, eaten, ws, wl>>
        /\ outq' = Empty /\ pc' = "ended" /\ UNCHANGED current_worker
    BY DEF Join, GoTo, coder, flow, hist
  <1>2. InputFits' /\ File' = File
    BY <1>1, InputKept DEF IInv
  <1>3. Where' /\ JobsSound'
    BY <1>1, <1>2 DEF IInv, Where, JobsSound
  <1>4. IsQueue(Empty, Buffer, Nat) /\ Empty.mem_allocated = 0
    BY DEF Empty, IsQueue
  <1>5. Shrinks
    <2>1. Counted(Empty)
      BY EmptyCounted
    <2>2. outq'.mem_allocated = 0 /\ outq.mem_allocated \in Nat
      BY <1>1, <1>4, QueueCounts
    <2> QED BY <1>1, <1>4, <2>1, <2>2 DEF Shrinks
  <1> QED BY <1>1, <1>2, <1>3, <1>5, ShrinkStep DEF IInv, Types

(* The worker of the head is asked once.                                   *)
LEMMA HeadTaken ==
  ASSUME NEW r, IsQueue(r, Buffer, Nat), Counted(r)
  PROVE  LET k == TakeHeadWorker(r)
         IN IsQueue(k, Buffer, Nat) /\ Counted(k) /\ k.mem_allocated = r.mem_allocated
  <1>1. CASE HeadWorker(r) = NoWorker
    BY <1>1 DEF TakeHeadWorker
  <1>2. CASE HeadWorker(r) # NoWorker
    <2>1. r.active \in Seq(Buffer) /\ r.active # <<>>
      BY <1>2 DEF HeadWorker, IsQueue
    <2>2. PICK b \in Seq(Buffer) : b = r.active
      BY <2>1
    <2>3. Len(b) \in Nat \ {0} /\ b[1] \in Buffer
      BY <2>1, <2>2
    <2>4. PICK d \in Buffer, none \in Int : d = b[1] /\ none = NoWorker
      BY <2>3 DEF NoWorker
    <2>5. PICK e : e = [d EXCEPT !.worker = none]
      OBVIOUS
    <2>6. e \in Buffer /\ e.size = d.size
      BY <2>5 DEF Buffer
    <2>7. PICK a : a = [b EXCEPT ![1] = e]
      OBVIOUS
    <2>8. /\ a \in Seq(Buffer) /\ Len(a) = Len(b) /\ a[1] = e
          /\ \A i \in 1 .. Len(b) : i # 1 => a[i] = b[i]
      BY <2>3, <2>6, <2>7
    <2>9. PICK k : k = [r EXCEPT !.active = a]
      OBVIOUS
    <2>10. k = TakeHeadWorker(r)
      BY <1>2, <2>2, <2>4, <2>5, <2>7, <2>9 DEF TakeHeadWorker
    <2>11. /\ IsQueue(k, Buffer, Nat) /\ k.active = a /\ k.cache = r.cache
           /\ k.mem_in_use = r.mem_in_use /\ k.mem_allocated = r.mem_allocated
      BY <2>8, <2>9, SetActive
    <2>12. \A i \in 1 .. Len(b) : a[i].size = b[i].size
      BY <2>4, <2>6, <2>8
    <2>13. Counted(k)
      BY <2>2, <2>8, <2>11, <2>12, SameSizesCounted
    <2> QED BY <2>10, <2>11, <2>13
  <1> QED BY <1>1, <1>2

LEMMA ReadShrinks ==
  ASSUME NEW r, IsQueue(r, Buffer, Nat), Counted(r), NEW s
  PROVE  LET k == Read(r, s)
         IN IsQueue(k, Buffer, Nat) /\ Counted(k) /\ k.mem_allocated <= r.mem_allocated
  <1>1. Counted(Read(r, s)) /\ Read(r, s).mem_allocated <= r.mem_allocated
    BY BuffersSized, ReadCounted
  <1>2. CASE ~Drains(r, s)
    <2>1. IsQueue(Read(r, s), Buffer, Nat)
      BY <1>2, ReadOn
    <2> QED BY <1>1, <2>1
  <1>3. CASE Drains(r, s)
    <2>1. Head(r.active) \in Buffer
      BY <1>3 DEF Drains, IsQueue
    <2>2. Head(r.active).size \in Nat
      BY <2>1 DEF Buffer
    <2>3. IsQueue(Read(r, s), Buffer, Nat)
      BY <1>3, <2>2, ReadOut
    <2> QED BY <1>1, <2>3
  <1> QED BY <1>2, <1>3

LEMMA ReadQueueStep == ASSUME IInv, ReadQueue PROVE IInv'
  <1>1. PICK q : q = Read(outq, space)
    OBVIOUS
  <1>2. /\ UNCHANGED <<setup, mem_in_use, free_workers, block, direct, sequence, current_worker>>
        /\ UNCHANGED <<avail, eaten, wl>>
        /\ pc' \notin {"prepare", "start", "assign", "request"}
        /\ (outq' = q \/ outq' = TakeHeadWorker(q))
        /\ (ws' = ws \/ AbortWorkers)
    BY <1>1 DEF ReadQueue, GoTo, Return, hist
  <1>3. LessToDo
    BY <1>2, SameThreads, ToldToExit
  <1>4. /\ InputFits' /\ Where' /\ JobsSound'
        /\ ws' \in [Worker -> WorkerRecord] /\ wl' \in [Worker -> ThreadRecord]
    BY <1>2, <1>3, InputKept, StillSound DEF IInv, Where, Types, LessToDo
  <1>5. IsQueue(q, Buffer, Nat) /\ Counted(q) /\ q.mem_allocated <= outq.mem_allocated
    BY <1>1, QueueCounts, ReadShrinks
  <1>6. Shrinks
    <2>1. PICK k : k = TakeHeadWorker(q)
      OBVIOUS
    <2>2. IsQueue(k, Buffer, Nat) /\ Counted(k) /\ k.mem_allocated = q.mem_allocated
      BY <1>5, <2>1, HeadTaken
    <2> QED BY <1>2, <1>5, <2>1, <2>2 DEF Shrinks
  <1> QED BY <1>2, <1>4, <1>6, ShrinkStep

(* The buffer for the Block comes out of the cache or is allocated in      *)
(* place of it.                                                            *)
LEMMA StartWorkerStep == ASSUME IInv, StartWorker PROVE IInv'
  <1>1. /\ UNCHANGED <<setup, block, direct, sequence, current_worker, avail, eaten, ws, wl>>
        /\ pc = "start" /\ pc' \in {"assign", "app"} /\ pc' # "start"
    BY DEF StartWorker, GoTo, Return, coder, flow, hist
  <1>2. InputFits' /\ File' = File /\ JobsSound'
    BY <1>1, InputKept DEF IInv, JobsSound
  <1>3. CASE ~InputPossible(outq)
    <2>1. UNCHANGED <<outq, free_workers, mem_in_use>> /\ pc' = "app"
      BY <1>3 DEF StartWorker, Return
    <2>2. Where'
      BY <1>1, <2>1 DEF IInv, Where
    <2> QED BY <1>1, <1>2, <2>1, <2>2, QuietStep DEF Uncounted, IInv, Types
  <1>4. CASE InputPossible(outq)
    <2>1. block # 0 /\ sequence = "BlockThreadInit"
      BY <1>1 DEF IInv, Where, InputFits, AtBlock
    <2>2. PICK out \in Nat, filters \in Nat, total \in Nat, O \in Nat, L \in Nat, m \in Int, i \in Nat, a \in Nat :
            /\ out = File[block].out /\ filters = File[block].filters /\ total = Total(block)
            /\ O = Usage(out) /\ L = MemlimitThreading
            /\ m = mem_in_use /\ i = outq.mem_in_use /\ a = outq.mem_allocated
      BY <2>1, NextType, QueueCounts DEF IInv
    <2>3. L >= m + i + (filters + total + O) /\ free_workers # <<>>
      <3>1. NextMem = filters + total + O
        BY <2>1, <2>2, NextType DEF IInv
      <3> QED BY <1>4, <2>2, <3>1 DEF InputPossible
    <2>4. free_workers \in Seq(Worker) /\ Len(free_workers) > 0
      BY <2>3 DEF IInv, Types
    <2>5. PICK w \in Worker : w = Last(free_workers)
      BY <2>4, FrontOfCache
    <2>6. FreeAfterPop \in Seq(Worker)
      BY <2>4, FrontOfCache DEF FreeAfterPop
    <2>7. /\ outq' = GetBuf(PreallocBuf(outq, out), block, w)
          /\ free_workers' = FreeAfterPop /\ asked' = w /\ mem_in_use' = m + total + filters
      BY <1>4, <2>2, <2>5 DEF StartWorker
    <2>8. IsQueue(outq, Buffer, Nat) /\ Counted(outq)
      BY QueueCounts
    <2>9. PICK p : p = PreallocBuf(outq, out)
      OBVIOUS
    <2>10. /\ IsQueue(p, Buffer, Nat) /\ Counted(p) /\ p.mem_in_use = i
           /\ Len(p.cache) > 0 /\ Last(p.cache) = out
           /\ \/ Reusable(outq, out) /\ p.mem_allocated = a
              \/ p.mem_allocated = i + O
      <3>1. /\ IsQueue(p, Buffer, Nat) /\ p.mem_in_use = i
            /\ p.cache = <<out>> \/ (p.cache = outq.cache /\ Len(outq.cache) > 0 /\ Last(outq.cache) = out)
        BY <2>2, <2>8, <2>9, Preallocated
      <3>2. Counted(p) /\ ((Reusable(outq, out) /\ p.mem_allocated = a) \/ p.mem_allocated = i + O)
        BY <2>2, <2>8, <2>9, BuffersSized, PreallocCounted
      <3>3. Len(<<out>>) > 0 /\ Last(<<out>>) = out
        BY DEF Last
      <3> QED BY <3>1, <3>2, <3>3
    <2>11. PICK b \in Buffer : b = FreshBuf(block, out, w)
      <3>1. PICK n \in Int, zero \in Int, who \in Int : n = block /\ zero = 0 /\ who = w
        BY QueueAssumption, FileType DEF IInv, InputFits, Worker
      <3>2. PICK ret0 \in Rets : ret0 = "STREAM_END"
        BY DEF Rets
      <3>3. PICK b : b = [job |-> n, size |-> out, worker |-> who, pos |-> zero, in_pos |-> zero,
                          finished |-> FALSE, ret |-> ret0]
        OBVIOUS
      <3>4. b \in Buffer
        BY <3>3 DEF Buffer
      <3>5. b = FreshBuf(block, out, w)
        BY <3>1, <3>2, <3>3 DEF FreshBuf
      <3> QED BY <3>4, <3>5
    <2>12. PICK g : g = GetBuf(p, block, w)
      OBVIOUS
    <2>13. IsQueue(g, Buffer, Nat) /\ Counted(g) /\ g.mem_allocated = p.mem_allocated
      <3>1. FreshBuf(block, Last(p.cache), w) \in Buffer
        BY <2>10, <2>11
      <3>2. IsQueue(g, Buffer, Nat) /\ g.mem_allocated = p.mem_allocated
        BY <2>10, <2>12, <3>1, Taken
      <3>3. Counted(g)
        BY <2>10, <2>12, <3>1, BuffersSized, GetCounted
      <3> QED BY <3>2, <3>3
    <2>14. Types'
      <3>1. IsQueue(outq', Buffer, Nat) /\ Counted(outq')
        BY <2>7, <2>9, <2>12, <2>13
      <3>2. mem_in_use' \in Int /\ free_workers' \in Seq(Worker)
        BY <2>6, <2>7
      <3> QED BY <1>1, <3>1, <3>2 DEF IInv, Types
    <2>15. m + total + filters + p.mem_allocated <= L
      <3>1. CASE p.mem_allocated = i + O
        BY <2>3, <3>1
      <3>2. CASE Reusable(outq, out) /\ p.mem_allocated = a
        <4>1. CASE mem_in_use + outq.mem_allocated + NextMem <= MemlimitThreading
          <5>1. NextMem = filters + total + O
            BY <2>1, <2>2, NextType DEF IInv
          <5>2. m + a + (filters + total + O) <= L
            BY <2>2, <4>1, <5>1
          <5> QED BY <3>2, <5>2
        <4>2. CASE outq.cache = <<>>
          BY <3>2, <4>2 DEF Reusable
        <4>3. CASE outq.cache = <<out>>
          <5>1. UsageOf(outq.cache) = O
            BY <2>2, <4>3, UsageOne
          <5>2. a = i + O
            BY <2>2, <2>8, <5>1 DEF Counted
          <5> QED BY <2>3, <3>2, <5>2
        <4> QED BY <1>1, <2>2, <4>1, <4>2, <4>3 DEF IInv, RoomMade
      <3> QED BY <2>10, <3>1, <3>2
    <2>16. ThreadingMemoryBounded'
      <3>1. outq'.mem_allocated = p.mem_allocated /\ MemlimitThreading = L
        BY <2>2, <2>7, <2>9, <2>12, <2>13
      <3>2. mem_in_use' + outq'.mem_allocated = m + total + filters + p.mem_allocated
        BY <2>7, <3>1
      <3> QED BY <2>15, <3>1, <3>2 DEF ThreadingMemoryBounded
    <2>17. Where' /\ RoomMade'
      BY <1>1, <2>1, <2>7 DEF IInv, Where, RoomMade
    <2> QED BY <1>2, <2>14, <2>16, <2>17 DEF IInv
  <1> QED BY <1>3, <1>4

-----------------------------------------------------------------------------
(* The workers. Beside its own state, a worker's step may fill a buffer,   *)
(* give memory back and wake the application's thread.                     *)
Woken ==
  /\ pc' = pc \/ (pc = "sleep" /\ pc' = "read")
  /\ UNCHANGED <<setup, sequence, block, direct, current_worker, asked, avail, eaten>>

Fills ==
  /\ IsQueue(outq, Buffer, Nat)' /\ Counted(outq)'
  /\ outq'.cache = outq.cache /\ outq'.mem_allocated = outq.mem_allocated

LEMMA WorkerStep ==
  ASSUME IInv, Woken, Fills,
         mem_in_use' \in Int, mem_in_use' <= mem_in_use, free_workers' \in Seq(Worker),
         ws' \in [Worker -> WorkerRecord], wl' \in [Worker -> ThreadRecord],
         NEW w \in Worker, \A v \in Worker : v # w => ws'[v] = ws[v] /\ wl'[v] = wl[v],
         (ws'[w].command = "Run" /\ wl'[w].pc = "idle") => ws'[w].job \in DOMAIN File,
         wl'[w].pc \notin {"idle", "exited"} => wl'[w].job \in DOMAIN File
  PROVE  IInv'
  <1>1. InputFits' /\ File' = File
    BY InputKept DEF IInv, Woken
  <1>2. Where'
    BY DEF IInv, Where, Woken
  <1>3. JobsSound'
    BY <1>1 DEF IInv, JobsSound
  <1>4. Types'
    BY DEF IInv, Types, Fills
  <1>5. PICK m \in Int, n \in Int, a \in Nat, L \in Nat :
          m = mem_in_use /\ n = mem_in_use' /\ a = outq.mem_allocated /\ L = MemlimitThreading
    BY QueueCounts
  <1>6. ThreadingMemoryBounded'
    <2>1. m + a <= L /\ n <= m
      BY <1>5 DEF IInv, ThreadingMemoryBounded
    <2>2. n + a <= L
      BY <2>1
    <2> QED BY <1>5, <2>2 DEF ThreadingMemoryBounded, Fills
  <1>7. RoomMade'
    <2> SUFFICES ASSUME pc' = "start" PROVE RoomMade'
      BY DEF RoomMade
    <2>1. pc = "start" /\ block' = block
      BY DEF Woken
    <2>2. block # 0
      BY <2>1 DEF IInv, Where, InputFits, AtBlock
    <2>3. PICK next \in Nat : next = NextMem
      BY <2>2, NextType DEF IInv
    <2>4. NextMem' = next
      BY <1>1, <2>1, <2>3 DEF NextMem, Total
    <2>5. m + a + next <= L => n + a + next <= L
      BY <1>5
    <2> QED BY <1>1, <1>5, <2>1, <2>3, <2>4, <2>5 DEF IInv, RoomMade, Fills
  <1> QED BY <1>1, <1>2, <1>3, <1>4, <1>6, <1>7 DEF IInv

(* A step that touches nothing but what belongs to one worker.             *)
LEMMA OwnStep ==
  ASSUME IInv, Woken, UNCHANGED <<outq, free_workers, mem_in_use>>,
         ws' \in [Worker -> WorkerRecord], wl' \in [Worker -> ThreadRecord],
         NEW w \in Worker, \A v \in Worker : v # w => ws'[v] = ws[v] /\ wl'[v] = wl[v],
         (ws'[w].command = "Run" /\ wl'[w].pc = "idle") => ws'[w].job \in DOMAIN File,
         wl'[w].pc \notin {"idle", "exited"} => wl'[w].job \in DOMAIN File
  PROVE  IInv'
  <1>1. Fills
    BY DEF Fills, IInv, Types
  <1>2. mem_in_use' \in Int /\ mem_in_use' <= mem_in_use /\ free_workers' \in Seq(Worker)
    BY DEF IInv, Types
  <1> QED BY <1>1, <1>2, WorkerStep

LEMMA WorkerTyped ==
  ASSUME IInv, NEW w \in Worker
  PROVE  /\ ws[w] \in WorkerRecord /\ wl[w] \in ThreadRecord
         /\ (ws[w].command = "Run" /\ wl[w].pc = "idle") => ws[w].job \in DOMAIN File
         /\ wl[w].pc \notin {"idle", "exited"} => wl[w].job \in DOMAIN File /\ wl[w].job \in Int
  BY DEF IInv, Types, JobsSound, ThreadRecord

(* Where a thread can be, and its record with one field changed.           *)
Places == {"idle", "look", "publish", "notify", "decode", "release", "finish", "reset", "exited"}

LEMMA TypedThread ==
  ASSUME NEW x \in ThreadRecord
  PROVE  \A p \in Places : /\ [x EXCEPT !.pc = p] \in ThreadRecord
                           /\ [x EXCEPT !.pc = p].pc = p /\ [x EXCEPT !.pc = p].job = x.job
  BY DEF ThreadRecord, Places

LEMMA IdleTyped == IdleThread \in ThreadRecord /\ IdleWorker \in WorkerRecord
  <1>1. None \in Int /\ 0 \in Int
    BY DEF None
  <1>2. PICK none \in Int, zero \in Int : none = None /\ zero = 0
    BY <1>1
  <1>3. PICK p \in Partials, r \in Rets : p = "Disabled" /\ r = "OK"
    BY DEF Partials, Rets
  <1>4. [pc |-> "idle", job |-> none, seen |-> zero, partial |-> p, ret |-> r] \in ThreadRecord
    BY DEF ThreadRecord
  <1>5. [command |-> "Idle", in_size |-> zero, in_filled |-> zero, job |-> none,
         outbuf |-> none, partial |-> p] \in WorkerRecord
    BY DEF WorkerRecord
  <1> QED BY <1>2, <1>3, <1>4, <1>5 DEF IdleThread, IdleWorker

LEMMA TakeJobStep == ASSUME IInv, NEW w \in Worker, TakeJob(w) PROVE IInv'
  <1>1. Woken /\ UNCHANGED <<outq, free_workers, mem_in_use>> /\ wl[w].pc = "idle"
    BY DEF TakeJob, Woken, coder, locals, shared, flow, hist
  <1>2. /\ ws[w] \in WorkerRecord /\ wl[w] \in ThreadRecord
        /\ ws \in [Worker -> WorkerRecord] /\ wl \in [Worker -> ThreadRecord]
    BY WorkerTyped DEF IInv, Types
  <1>3. CASE ws[w].command = "Exit"
    <2>1. PICK x \in ThreadRecord : x = wl[w]
      BY <1>2
    <2>2. PICK p \in Places : p = "exited"
      BY DEF Places
    <2>3. PICK y \in ThreadRecord : y = [x EXCEPT !.pc = p] /\ y.pc = p
      BY TypedThread
    <2>4. wl' = [wl EXCEPT ![w] = y] /\ ws' = ws
      BY <1>2, <1>3, <2>2, <2>1, <2>3 DEF TakeJob
    <2>5. wl' \in [Worker -> ThreadRecord] /\ wl'[w] = y /\ \A v \in Worker : v # w => wl'[v] = wl[v]
      BY <1>2, <2>4
    <2> QED BY <1>1, <1>2, <2>2, <2>3, <2>4, <2>5, OwnStep
  <1>4. CASE ws[w].command # "Exit"
    <2>1. ws[w].command = "Run"
      BY <1>2, <1>4 DEF TakeJob, WorkerRecord
    <2>2. ws[w].job \in DOMAIN File /\ ws[w].job \in Int
      BY <1>1, <1>2, <2>1, WorkerTyped DEF WorkerRecord
    <2>3. PICK x \in ThreadRecord, n \in Int, x2 \in WorkerRecord, none \in Int :
            x = IdleThread /\ n = ws[w].job /\ x2 = ws[w] /\ none = None
      BY <1>2, <2>2, IdleTyped DEF None
    <2>4. PICK p \in Places : p = "look"
      BY DEF Places
    <2>5. PICK y : y = [x EXCEPT !.pc = p, !.job = n]
      OBVIOUS
    <2>6. y \in ThreadRecord /\ y.pc = "look" /\ y.job = n
      BY <2>4, <2>5 DEF ThreadRecord, Places
    <2>7. PICK z : z = [x2 EXCEPT !.job = none]
      OBVIOUS
    <2>8. z \in WorkerRecord
      BY <2>7 DEF WorkerRecord
    <2>9. wl' = [wl EXCEPT ![w] = y] /\ ws' = [ws EXCEPT ![w] = z]
      BY <1>2, <1>4, <2>3, <2>4, <2>5, <2>7 DEF TakeJob
    <2>10. /\ wl' \in [Worker -> ThreadRecord] /\ wl'[w] = y
           /\ ws' \in [Worker -> WorkerRecord]
           /\ \A v \in Worker : v # w => wl'[v] = wl[v] /\ ws'[v] = ws[v]
      BY <1>2, <2>6, <2>8, <2>9
    <2> QED BY <1>1, <2>2, <2>3, <2>6, <2>10, OwnStep
  <1> QED BY <1>3, <1>4

LEMMA LookStep == ASSUME IInv, NEW w \in Worker, Look(w) PROVE IInv'
  <1>1. Woken /\ UNCHANGED <<outq, free_workers, mem_in_use>> /\ wl[w].pc = "look"
    BY DEF Look, Woken, coder, locals, shared, flow, hist
  <1>2. /\ ws[w] \in WorkerRecord /\ wl[w] \in ThreadRecord /\ wl[w].job \in DOMAIN File
        /\ ws \in [Worker -> WorkerRecord] /\ wl \in [Worker -> ThreadRecord]
    BY <1>1, WorkerTyped DEF IInv, Types
  <1>3. PICK x \in ThreadRecord, x2 \in WorkerRecord : x = wl[w] /\ x2 = ws[w]
    BY <1>2
  <1>4. PICK y \in ThreadRecord :
          wl' = [wl EXCEPT ![w] = y] /\ y.job = x.job /\ y.pc \notin {"idle", "exited"}
    <2>1. CASE ws[w].command = "Exit"
      <3>1. PICK p \in Places, r \in Rets : p = "release" /\ r = "PROG_ERROR"
        BY DEF Places, Rets
      <3>2. PICK y : y = [x EXCEPT !.pc = p, !.ret = r]
        OBVIOUS
      <3>3. y \in ThreadRecord /\ y.job = x.job /\ y.pc = p
        BY <3>2 DEF ThreadRecord, Places
      <3>4. wl' = [wl EXCEPT ![w] = y]
        BY <1>2, <1>3, <2>1, <3>1, <3>2 DEF Look
      <3> QED BY <3>1, <3>3, <3>4
    <2>2. CASE ws[w].command # "Exit"
      <3>1. PICK p \in Places, n \in Int :
              n = x2.in_filled /\ p = IF x2.partial = "Disabled" THEN "decode" ELSE "publish"
        BY DEF Places, WorkerRecord
      <3>2. PICK y : y = [x EXCEPT !.seen = n, !.pc = p]
        OBVIOUS
      <3>3. y \in ThreadRecord /\ y.job = x.job /\ y.pc = p
        BY <3>2 DEF ThreadRecord, Places
      <3>4. wl' = [wl EXCEPT ![w] = y]
        BY <1>2, <1>3, <2>2, <3>1, <3>2 DEF Look
      <3>5. p \notin {"idle", "exited"}
        BY <3>1
      <3> QED BY <3>3, <3>4, <3>5
    <2> QED BY <2>1, <2>2
  <1>5. ws' \in [Worker -> WorkerRecord] /\ \A v \in Worker : v # w => ws'[v] = ws[v]
    <2>1. CASE ws' = ws
      BY <1>2, <2>1
    <2>2. CASE ws' = [ws EXCEPT ![w].partial = IF @ = "Start" THEN "Enabled" ELSE @]
      <3>1. PICK p \in Partials : p = IF x2.partial = "Start" THEN "Enabled" ELSE x2.partial
        BY DEF WorkerRecord, Partials
      <3>2. PICK z \in WorkerRecord : z = [x2 EXCEPT !.partial = p]
        BY TypedWorker
      <3>3. ws' = [ws EXCEPT ![w] = z]
        BY <1>2, <1>3, <2>2, <3>1, <3>2
      <3> QED BY <1>2, <3>3
    <2> QED BY <2>1, <2>2 DEF Look
  <1>6. wl' \in [Worker -> ThreadRecord] /\ wl'[w] = y /\ \A v \in Worker : v # w => wl'[v] = wl[v]
    BY <1>2, <1>4
  <1> QED BY <1>1, <1>2, <1>3, <1>4, <1>5, <1>6, OwnStep

LEMMA NotifyStep == ASSUME IInv, NEW w \in Worker, Notify(w) PROVE IInv'
  <1>1. Woken /\ UNCHANGED <<outq, free_workers, mem_in_use, ws>> /\ wl[w].pc = "notify"
    BY DEF Notify, Notified, Woken, coder, shared, flow
  <1>2. /\ wl[w] \in ThreadRecord /\ wl[w].job \in DOMAIN File
        /\ ws \in [Worker -> WorkerRecord] /\ wl \in [Worker -> ThreadRecord]
    BY <1>1, WorkerTyped DEF IInv, Types
  <1>3. PICK x \in ThreadRecord : x = wl[w]
    BY <1>2
  <1>4. PICK p \in Places : p = "decode"
    BY DEF Places
  <1>5. PICK y \in ThreadRecord : y = [x EXCEPT !.pc = p] /\ y.pc = p /\ y.job = x.job
    BY TypedThread
  <1>6. wl' = [wl EXCEPT ![w] = y]
    BY <1>4, <1>2, <1>3, <1>5 DEF Notify
  <1>7. wl' \in [Worker -> ThreadRecord] /\ wl'[w] = y /\ \A v \in Worker : v # w => wl'[v] = wl[v]
    BY <1>2, <1>6
  <1> QED BY <1>4, <1>1, <1>2, <1>3, <1>5, <1>7, OwnStep

LEMMA DecodeStep == ASSUME IInv, NEW w \in Worker, Decode(w) PROVE IInv'
  <1>1. Woken /\ UNCHANGED <<outq, free_workers, mem_in_use, ws>> /\ wl[w].pc = "decode"
    BY DEF Decode, Woken, coder, locals, shared, flow, hist
  <1>2. /\ wl[w] \in ThreadRecord /\ wl[w].job \in DOMAIN File
        /\ ws \in [Worker -> WorkerRecord] /\ wl \in [Worker -> ThreadRecord]
    BY <1>1, WorkerTyped DEF IInv, Types
  <1>3. PICK r0 \in Verdicts(w) :
          wl' = [wl EXCEPT ![w].ret = r0, ![w].pc = IF r0 = "OK" THEN "look" ELSE "release"]
    BY DEF Decode
  <1>4. r0 \in Rets
    BY DEF Verdicts, Rets
  <1>5. PICK x \in ThreadRecord, r \in Rets, p \in Places :
          x = wl[w] /\ r = r0 /\ p = IF r = "OK" THEN "look" ELSE "release"
    BY <1>2, <1>4 DEF Places
  <1>6. PICK y : y = [x EXCEPT !.ret = r, !.pc = p]
    OBVIOUS
  <1>7. y \in ThreadRecord /\ y.job = x.job /\ y.pc = p
    BY <1>6 DEF ThreadRecord, Places
  <1>8. wl' = [wl EXCEPT ![w] = y]
    BY <1>2, <1>3, <1>5, <1>6
  <1>9. wl' \in [Worker -> ThreadRecord] /\ wl'[w] = y /\ \A v \in Worker : v # w => wl'[v] = wl[v]
    BY <1>2, <1>7, <1>8
  <1>10. p \notin {"idle", "exited"}
    BY <1>5
  <1> QED BY <1>1, <1>2, <1>5, <1>7, <1>9, <1>10, OwnStep

LEMMA ReleaseStep == ASSUME IInv, NEW w \in Worker, Release(w) PROVE IInv'
  <1>1. Woken /\ UNCHANGED <<outq, free_workers, mem_in_use>> /\ wl[w].pc = "release"
    BY DEF Release, Woken, coder, locals, shared, flow, hist
  <1>2. /\ wl[w] \in ThreadRecord /\ wl[w].job \in DOMAIN File /\ ws[w] \in WorkerRecord
        /\ ws \in [Worker -> WorkerRecord] /\ wl \in [Worker -> ThreadRecord]
    BY <1>1, WorkerTyped DEF IInv, Types
  <1>3. PICK x \in ThreadRecord, x2 \in WorkerRecord, zero \in Int : x = wl[w] /\ x2 = ws[w] /\ zero = 0
    BY <1>2
  <1>4. PICK p \in Places : p = "finish"
    BY DEF Places
  <1>5. PICK y \in ThreadRecord : y = [x EXCEPT !.pc = p] /\ y.pc = p /\ y.job = x.job
    BY TypedThread
  <1>6. wl' = [wl EXCEPT ![w] = y]
    BY <1>4, <1>2, <1>3, <1>5 DEF Release
  <1>7. wl' \in [Worker -> ThreadRecord] /\ wl'[w] = y /\ \A v \in Worker : v # w => wl'[v] = wl[v]
    BY <1>2, <1>6
  <1>8. ws' \in [Worker -> WorkerRecord] /\ \A v \in Worker : v # w => ws'[v] = ws[v]
    <2>1. CASE ws' = ws
      BY <1>2, <2>1
    <2>2. CASE ws' = [ws EXCEPT ![w].in_size = 0, ![w].in_filled = 0]
      <3>1. PICK z : z = [x2 EXCEPT !.in_size = zero, !.in_filled = zero]
        OBVIOUS
      <3>2. z \in WorkerRecord
        BY <3>1 DEF WorkerRecord
      <3>3. ws' = [ws EXCEPT ![w] = z]
        BY <1>2, <1>3, <2>2, <3>1
      <3> QED BY <1>2, <3>2, <3>3
    <2> QED BY <2>1, <2>2 DEF Release
  <1>9. wl'[w].pc \notin {"idle", "exited"} /\ wl'[w].pc # "idle" /\ wl'[w].job \in DOMAIN File
    BY <1>2, <1>3, <1>4, <1>5, <1>7
  <1>10. \A v \in Worker : v # w => ws'[v] = ws[v] /\ wl'[v] = wl[v]
    BY <1>7, <1>8
  <1> QED BY <1>1, <1>7, <1>8, <1>9, <1>10, OwnStep

LEMMA ResetStep == ASSUME IInv, NEW w \in Worker, Reset(w) PROVE IInv'
  <1>1. Woken /\ UNCHANGED <<outq, free_workers, mem_in_use>>
    BY DEF Reset, Woken, coder, locals, shared, flow
  <1>2. /\ wl[w] \in ThreadRecord /\ ws[w] \in WorkerRecord
        /\ ws \in [Worker -> WorkerRecord] /\ wl \in [Worker -> ThreadRecord]
    BY WorkerTyped DEF IInv, Types
  <1>3. wl' = [wl EXCEPT ![w] = IdleThread]
    BY DEF Reset
  <1>4. /\ wl' \in [Worker -> ThreadRecord] /\ wl'[w].pc = "idle"
        /\ \A v \in Worker : v # w => wl'[v] = wl[v]
    <2>1. PICK t \in ThreadRecord : t = IdleThread
      BY IdleTyped
    <2>2. t.pc = "idle"
      BY <2>1 DEF IdleThread
    <2> QED BY <1>2, <1>3, <2>1, <2>2
  <1>5. PICK x \in WorkerRecord, none \in Int, p \in Partials, c \in {"Idle", "Exit"} :
          x = ws[w] /\ none = None /\ p = "Disabled" /\ c = CommandAfterReset(x.command)
    BY <1>2 DEF None, Partials, CommandAfterReset
  <1>6. PICK z : z = [x EXCEPT !.outbuf = none, !.job = none, !.partial = p, !.command = c]
    OBVIOUS
  <1>7. z \in WorkerRecord /\ z.command = c
    BY <1>6 DEF WorkerRecord
  <1>8. ws' = [ws EXCEPT ![w] = z]
    BY <1>2, <1>5, <1>6 DEF Reset
  <1>9. /\ ws' \in [Worker -> WorkerRecord] /\ ws'[w].command # "Run"
        /\ \A v \in Worker : v # w => ws'[v] = ws[v]
    BY <1>2, <1>7, <1>8
  <1> QED BY <1>1, <1>4, <1>9, OwnStep

(* A buffer of the queue is filled or finished.                            *)
Replaces(a, b, j, e) ==
  /\ a = [b EXCEPT ![j] = e]
  /\ j \in DOMAIN b => e \in Buffer /\ e.size = b[j].size

LEMMA QueueFilled ==
  ASSUME IInv, NEW j, NEW e, NEW a, Replaces(a, outq.active, j, e),
         outq' = [outq EXCEPT !.active = a]
  PROVE  Fills
  <1>1. IsQueue(outq, Buffer, Nat) /\ Counted(outq)
    BY QueueCounts
  <1>2. PICK b \in Seq(Buffer) : b = outq.active
    BY <1>1 DEF IsQueue
  <1>3. a = [b EXCEPT ![j] = e] /\ (j \in DOMAIN b => e \in Buffer /\ e.size = b[j].size)
    BY <1>2 DEF Replaces
  <1>4. Len(b) \in Nat /\ DOMAIN b = 1 .. Len(b) /\ \A i \in 1 .. Len(b) : b[i] \in Buffer
    OBVIOUS
  <1>5. a \in Seq(Buffer) /\ Len(a) = Len(b) /\ \A i \in 1 .. Len(b) : a[i].size = b[i].size
    <2>1. CASE j \in DOMAIN b
      <3>1. a \in Seq(Buffer) /\ Len(a) = Len(b) /\ \A i \in 1 .. Len(b) : a[i] = IF i = j THEN e ELSE b[i]
        BY <1>3, <1>4, <2>1
      <3> QED BY <1>3, <1>4, <2>1, <3>1
    <2>2. CASE j \notin DOMAIN b
      <3>1. a = b
        BY <1>3, <1>4, <2>2
      <3> QED BY <3>1
    <2> QED BY <2>1, <2>2
  <1>6. PICK k : k = [outq EXCEPT !.active = a]
    OBVIOUS
  <1>7. /\ IsQueue(k, Buffer, Nat) /\ k.active = a /\ k.cache = outq.cache
        /\ k.mem_in_use = outq.mem_in_use /\ k.mem_allocated = outq.mem_allocated
    BY <1>1, <1>5, <1>6, SetActive
  <1>8. Counted(k)
    BY <1>1, <1>2, <1>5, <1>7, SameSizesCounted
  <1> QED BY <1>6, <1>7, <1>8 DEF Fills

LEMMA PublishStep == ASSUME IInv, NEW w \in Worker, Publish(w) PROVE IInv'
  <1>1. Woken /\ UNCHANGED <<free_workers, mem_in_use, ws>> /\ wl[w].pc = "publish"
    BY DEF Publish, Woken, coder, locals, flow, hist
  <1>2. /\ wl[w] \in ThreadRecord /\ wl[w].job \in DOMAIN File /\ wl[w].seen \in Int
        /\ ws \in [Worker -> WorkerRecord] /\ wl \in [Worker -> ThreadRecord]
        /\ mem_in_use \in Int /\ free_workers \in Seq(Worker)
    BY <1>1, WorkerTyped DEF IInv, Types, ThreadRecord
  <1>3. PICK x \in ThreadRecord, p \in Places, n \in Int : x = wl[w] /\ p = "notify" /\ n = wl[w].seen
    BY <1>2 DEF Places
  <1>4. PICK y \in ThreadRecord : y = [x EXCEPT !.pc = p] /\ y.pc = p /\ y.job = x.job
    BY TypedThread
  <1>5. wl' = [wl EXCEPT ![w] = y]
    BY <1>2, <1>3, <1>4 DEF Publish
  <1>6. wl' \in [Worker -> ThreadRecord] /\ wl'[w] = y /\ \A v \in Worker : v # w => wl'[v] = wl[v]
    BY <1>2, <1>5
  <1>7. PICK b \in Seq(Buffer) : b = outq.active
    BY QueueCounts DEF IsQueue
  <1>8. PICK j : j = Place(wl[w].job)
    OBVIOUS
  <1>9. PICK e : e = [b[j] EXCEPT !.in_pos = n]
    OBVIOUS
  <1>10. PICK a : a = [b EXCEPT ![j] = e]
    OBVIOUS
  <1>11. outq' = [outq EXCEPT !.active = a]
    BY <1>3, <1>7, <1>8, <1>9, <1>10 DEF Publish
  <1>12. Replaces(a, b, j, e)
    <2> SUFFICES ASSUME j \in DOMAIN b PROVE e \in Buffer /\ e.size = b[j].size
      BY <1>10 DEF Replaces
    <2>1. PICK d \in Buffer : d = b[j]
      OBVIOUS
    <2>2. e = [d EXCEPT !.in_pos = n]
      BY <1>9, <2>1
    <2> QED BY <2>1, <2>2 DEF Buffer
  <1>13. Fills
    BY <1>7, <1>11, <1>12, QueueFilled
  <1>14. mem_in_use' <= mem_in_use /\ mem_in_use' \in Int /\ free_workers' \in Seq(Worker)
    BY <1>1, <1>2
  <1> QED BY <1>1, <1>2, <1>3, <1>4, <1>6, <1>13, <1>14, WorkerStep

LEMMA FinishStep == ASSUME IInv, NEW w \in Worker, Finish(w) PROVE IInv'
  <1>1. Woken /\ UNCHANGED ws /\ wl[w].pc = "finish"
    BY DEF Finish, Notified, Woken, coder, flow, hist
  <1>2. /\ wl[w] \in ThreadRecord /\ wl[w].job \in DOMAIN File /\ wl[w].ret \in Rets
        /\ ws \in [Worker -> WorkerRecord] /\ wl \in [Worker -> ThreadRecord]
        /\ mem_in_use \in Int /\ free_workers \in Seq(Worker)
    BY <1>1, WorkerTyped DEF IInv, Types, ThreadRecord
  <1>3. PICK x \in ThreadRecord, p \in Places, r \in Rets : x = wl[w] /\ p = "reset" /\ r = wl[w].ret
    BY <1>2 DEF Places
  <1>4. PICK y \in ThreadRecord : y = [x EXCEPT !.pc = p] /\ y.pc = p /\ y.job = x.job
    BY TypedThread
  <1>5. wl' = [wl EXCEPT ![w] = y]
    BY <1>2, <1>3, <1>4 DEF Finish
  <1>6. wl' \in [Worker -> ThreadRecord] /\ wl'[w] = y /\ \A v \in Worker : v # w => wl'[v] = wl[v]
    BY <1>2, <1>5
  <1>7. PICK job \in DOMAIN File : job = wl[w].job
    BY <1>2
  <1>8. Total(job) \in Nat /\ File[job].out \in Nat /\ File[job].filters \in Nat
    <2>1. /\ File[job].comp \in Nat /\ File[job].tail \in Nat
          /\ File[job].out \in Nat /\ File[job].filters \in Nat
      BY FileType DEF IInv, InputFits
    <2> QED BY <2>1 DEF Total
  <1>9. PICK pos \in Int, in_pos \in Int :
          /\ pos = IF r = "STREAM_END" THEN File[job].out ELSE 0
          /\ in_pos = IF r = "STREAM_END" THEN Total(job) ELSE 0
    <2>1. (IF r = "STREAM_END" THEN File[job].out ELSE 0) \in Int
      BY <1>8
    <2>2. (IF r = "STREAM_END" THEN Total(job) ELSE 0) \in Int
      BY <1>8
    <2> QED BY <2>1, <2>2
  <1>10. PICK b \in Seq(Buffer) : b = outq.active
    BY QueueCounts DEF IsQueue
  <1>11. PICK j : j = Place(job)
    OBVIOUS
  <1>12. PICK e : e = [b[j] EXCEPT !.finished = TRUE, !.ret = r, !.pos = pos, !.in_pos = in_pos]
    OBVIOUS
  <1>13. PICK a : a = [b EXCEPT ![j] = e]
    OBVIOUS
  <1>14. outq' = [outq EXCEPT !.active = a]
    BY <1>3, <1>7, <1>9, <1>10, <1>11, <1>12, <1>13 DEF Finish
  <1>15. Replaces(a, b, j, e)
    <2> SUFFICES ASSUME j \in DOMAIN b PROVE e \in Buffer /\ e.size = b[j].size
      BY <1>13 DEF Replaces
    <2>1. PICK d \in Buffer : d = b[j]
      OBVIOUS
    <2>2. e = [d EXCEPT !.finished = TRUE, !.ret = r, !.pos = pos, !.in_pos = in_pos]
      BY <1>12, <2>1
    <2> QED BY <2>1, <2>2 DEF Buffer
  <1>16. Fills
    BY <1>10, <1>14, <1>15, QueueFilled
  <1>17. mem_in_use' <= mem_in_use /\ mem_in_use' \in Int
    <2>1. mem_in_use' = mem_in_use \/ mem_in_use' = mem_in_use - (Total(job) + File[job].filters)
      BY <1>7 DEF Finish
    <2>2. PICK n \in Nat, m \in Int : n = Total(job) + File[job].filters /\ m = mem_in_use
      BY <1>2, <1>8
    <2> QED BY <2>1, <2>2
  <1>18. free_workers' \in Seq(Worker)
    <2>1. free_workers' = free_workers \/ free_workers' = Append(free_workers, w)
      BY DEF Finish
    <2> QED BY <1>2, <2>1
  <1> QED BY <1>1, <1>2, <1>3, <1>4, <1>6, <1>16, <1>17, <1>18, WorkerStep

-----------------------------------------------------------------------------
(* The invariant holds from the start and in every step.                   *)

LEMMA InitInv == Init => IInv
  <1> SUFFICES ASSUME Init PROVE IInv
    OBVIOUS
  <1>1. /\ setup \in Setups /\ block = 0 /\ avail = 0 /\ eaten = 0 /\ sequence = "StreamHeader"
        /\ pc = "app" /\ mem_in_use = 0 /\ outq = Empty /\ direct = Direct!FreshDecoder
        /\ free_workers = [i \in 1 .. Threads |-> i - 1]
        /\ ws = [w \in Worker |-> IdleWorker] /\ wl = [w \in Worker |-> IdleThread]
    BY DEF Init
  <1>2. Threads \in Nat /\ Worker = 0 .. Threads - 1
    BY QueueAssumption DEF Worker
  <1>3. IsQueue(outq, Buffer, Nat) /\ Counted(outq) /\ outq.mem_allocated = 0
    <2>1. IsQueue(Empty, Buffer, Nat) /\ Empty.mem_allocated = 0
      BY DEF Empty, IsQueue
    <2> QED BY <1>1, <2>1, EmptyCounted
  <1>4. Types
    <2>1. free_workers \in Seq(Worker)
      BY <1>1, <1>2
    <2>2. ws \in [Worker -> WorkerRecord] /\ wl \in [Worker -> ThreadRecord]
      BY <1>1, IdleTyped
    <2> QED BY <1>1, <1>3, <2>1, <2>2 DEF Types
  <1>5. InputFits
    <2>1. Len(File) \in Nat /\ FileSize \in Nat
      BY <1>1, FileType, FileSizeType
    <2>2. Counts(direct)
      BY <1>1 DEF Direct!FreshDecoder, Counts
    <2> QED BY <1>1, <2>1, <2>2 DEF InputFits, AtBlock
  <1>6. Where /\ RoomMade
    BY <1>1 DEF Where, RoomMade
  <1>7. JobsSound
    <2>1. ASSUME NEW w \in Worker PROVE ws[w].command = "Idle" /\ wl[w].pc = "idle"
      BY <1>1 DEF IdleWorker, IdleThread
    <2> QED BY <2>1 DEF JobsSound
  <1>8. ThreadingMemoryBounded
    BY <1>1, <1>3, DecoderAssumption DEF ThreadingMemoryBounded
  <1> QED BY <1>4, <1>5, <1>6, <1>7, <1>8 DEF IInv

LEMMA StutterStep == ASSUME IInv, UNCHANGED vars PROVE IInv'
  <1>1. /\ UNCHANGED <<setup, pc, avail, eaten, sequence, block, direct, current_worker, asked>>
        /\ UNCHANGED <<outq, free_workers, mem_in_use, ws, wl>>
    BY DEF vars, coder, locals, shared, flow, hist
  <1>2. InputFits'
    BY <1>1, InputKept DEF IInv
  <1>3. Where' /\ Uncounted
    BY <1>1 DEF IInv, Where, Uncounted
  <1> QED BY <1>1, <1>2, <1>3, SameThreads, AppStep

LEMMA NextInv == IInv /\ [Next]_vars => IInv'
  <1> SUFFICES ASSUME IInv, [Next]_vars PROVE IInv'
    OBVIOUS
  <1>1. CASE Call
    BY <1>1, CallStep
  <1>2. CASE SetMemlimit
    BY <1>2, SetMemlimitStep
  <1>3. CASE End
    BY <1>3, EndStep
  <1>4. CASE Code
    <2>1. CASE StreamHeader
      BY <2>1, StreamHeaderStep
    <2>2. CASE BlockHeader
      BY <2>2, BlockHeaderStep
    <2>3. CASE BlockInit
      BY <2>3, BlockInitStep
    <2>4. CASE WaitFirst
      BY <2>4, WaitFirstStep
    <2>5. CASE ErrorNow
      BY <2>5, ErrorNowStep
    <2>6. CASE BlockThreadRun
      BY <2>6, BlockThreadRunStep
    <2>7. CASE BlockDirectRun
      BY <2>7, BlockDirectRunStep
    <2>8. CASE IndexDecode
      BY <2>8, IndexDecodeStep
    <2>9. CASE StreamFooter
      BY <2>9, StreamFooterStep
    <2>10. CASE StreamPadding
      BY <2>10, StreamPaddingStep
    <2> QED BY <1>4, <2>1, <2>2, <2>3, <2>4, <2>5, <2>6, <2>7, <2>8, <2>9, <2>10 DEF Code
  <1>5. CASE ReadQueue
    BY <1>5, ReadQueueStep
  <1>6. CASE RequestPartial
    BY <1>6, RequestPartialStep
  <1>7. CASE Park \/ TimeOut \/ SpuriousWake
    BY <1>7, ParkStep
  <1>8. CASE Done
    BY <1>8, DoneStep
  <1>9. CASE PrepareRoom
    BY <1>9, PrepareRoomStep
  <1>10. CASE StartWorker
    BY <1>10, StartWorkerStep
  <1>11. CASE AssignWorker
    BY <1>11, AssignWorkerStep
  <1>12. CASE RequestAtStart
    BY <1>12, RequestAtStartStep
  <1>13. CASE Join
    BY <1>13, JoinStep
  <1>14. ASSUME NEW w \in Worker, WorkerThread(w) PROVE IInv'
    <2>1. CASE TakeJob(w)
      BY <2>1, TakeJobStep
    <2>2. CASE Look(w)
      BY <2>2, LookStep
    <2>3. CASE Publish(w)
      BY <2>3, PublishStep
    <2>4. CASE Notify(w)
      BY <2>4, NotifyStep
    <2>5. CASE Decode(w)
      BY <2>5, DecodeStep
    <2>6. CASE Release(w)
      BY <2>6, ReleaseStep
    <2>7. CASE Finish(w)
      BY <2>7, FinishStep
    <2>8. CASE Reset(w)
      BY <2>8, ResetStep
    <2> QED BY <1>14, <2>1, <2>2, <2>3, <2>4, <2>5, <2>6, <2>7, <2>8 DEF WorkerThread
  <1>15. CASE UNCHANGED vars
    BY <1>15, StutterStep
  <1>16. Next => \/ Call \/ SetMemlimit \/ End \/ Code \/ ReadQueue \/ RequestPartial
                 \/ (Park \/ TimeOut \/ SpuriousWake)
                 \/ Done \/ PrepareRoom \/ StartWorker \/ AssignWorker \/ RequestAtStart \/ Join
                 \/ \E w \in Worker : WorkerThread(w)
    BY DEF Next, AppThread
  <1> QED BY <1>1, <1>2, <1>3, <1>4, <1>5, <1>6, <1>7, <1>8, <1>9, <1>10, <1>11, <1>12, <1>13, <1>14,
             <1>15, <1>16

(* What the workers and the queue of the threaded decoder hold stays       *)
(* within memlimit_threading, with the cache counted                       *)
(* (threaded_input_possible, prepare_worker, decoder_worker_loop).         *)
THEOREM DecoderThreadingMemoryBounded == Spec => []ThreadingMemoryBounded
  <1>1. IInv => ThreadingMemoryBounded
    BY DEF IInv
  <1> QED BY <1>1, InitInv, NextInv, PTL DEF Spec
=============================================================================
