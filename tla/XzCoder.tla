------------------------------ MODULE XzCoder ------------------------------
(* What the xz program does with one file. src/xz/coder.c: it reads into   *)
(* in_buf, calls lzma_code, writes out_buf, and decides between running,   *)
(* flushing, ending a Block and finishing. Or src/xz/list.c: it lists what *)
(* the Indexes at the ends of the file's Streams say.                      *)
(*                                                                         *)
(* liblzma is seen from outside. A unit x is coded as Code + x; a .xz file *)
(* is a head, Blocks that each end with BlockEnd, and a foot. The encoder  *)
(* hands out what it holds when it likes, all of it once told to flush.    *)
EXTENDS FileIO, Stepwise

VARIABLES strm,     \* lzma_stream: in_buf, out_buf and the coder behind it
          loc       \* the locals of coder_normal

coderVars == <<strm, loc>>

Code == 20
XzHead == 10
XzFoot == 11
BlockEnd == 12
Uncheckable == 14     \* a head with a Check that is not supported
TooBig == 15          \* a head that asks for too much memory
LzipHead == 16
LzmaHead == 17
LzmaFoot == 18
NoLimit == 9999       \* UINT64_MAX as the size of a Block

(* --- lzma_code, as the program sees it ---                               *)
Lz(seq, format) == [seq |-> seq, format |-> format, queue |-> <<>>, block |-> 0, closed |-> FALSE]
Called(lz, in, out, ret) == [lz |-> lz, in |-> in, out |-> out, ret |-> ret]

HeadOf == [xz |-> <<XzHead>>, lzma |-> <<LzmaHead>>, raw |-> <<>>]
FootOf == [xz |-> <<XzFoot>>, lzma |-> <<LzmaFoot>>, raw |-> <<LzmaFoot>>]
EndBlock(lz) == IF lz.block > 0 /\ lz.format = "xz"
                THEN [lz EXCEPT !.queue = Append(@, BlockEnd), !.block = 0] ELSE lz
EncodeUnit(lz, u) ==
  With([lz EXCEPT !.queue = Append(@, Code + u), !.block = @ + 1],
       LAMBDA e : IF opt.mt /\ e.block = opt.block_size THEN EndBlock(e) ELSE e)
Encoded(lz, in) == Fold(EncodeUnit, lz, in)
Closed(lz) == IF lz.closed THEN lz
              ELSE LET e == EndBlock(lz) IN [e EXCEPT !.queue = @ \o FootOf[lz.format], !.closed = TRUE]
Encode(lz, in, out, action) ==
  LET e == Encoded(lz, in)
      f == CASE action = "FULL_BARRIER" -> EndBlock(e) [] action = "FINISH" -> Closed(e) [] OTHER -> e
      room == Lesser(BufSize - Len(out), Len(f.queue))
      Give(n) == Called([f EXCEPT !.queue = SubSeq(@, n + 1, Len(@))], <<>>, out \o SubSeq(f.queue, 1, n),
                        IF action # "RUN" /\ n = Len(f.queue) THEN "STREAM_END" ELSE "OK")
  IN {Give(n) : n \in IF action = "RUN" THEN {0, room} ELSE {room}}

Heads(format) == CASE format = "xz" -> {XzHead, Uncheckable, TooBig} [] format = "lzip" -> {LzipHead}
                   [] OTHER -> {LzmaHead}
Another(lz) == ~opt.single /\ lz.format \in {"xz", "lzip"}
DecodeUnit(s, room) ==
  LET u == Head(s.in)
      took == [s EXCEPT !.in = Tail(@)]
      body == [took EXCEPT !.lz.seq = "body"]
      stop(r, ret) == [r EXCEPT !.ret = ret, !.stop = TRUE]
  IN CASE s.lz.seq # "body" /\ u \in Heads(s.lz.format) ->
            CASE u = TooBig -> stop(s, "MEMLIMIT_ERROR")
              [] u = Uncheckable /\ ~opt.ignore_check -> stop(body, "UNSUPPORTED_CHECK")
              [] OTHER -> body
       [] s.lz.seq # "body" /\ u \notin Heads(s.lz.format) ->
            CASE s.lz.seq = "again" /\ s.lz.format = "lzip" -> stop(s, "STREAM_END")
              [] s.lz.seq = "again" /\ s.lz.format = "xz" /\ u = 0 -> took
              [] OTHER -> stop(s, "DATA_ERROR")
       [] s.lz.seq = "body" /\ u \in Code .. Code + 9 ->
            IF Len(s.out) = room THEN stop(s, "OK") ELSE [took EXCEPT !.out = Append(@, u - Code)]
       [] s.lz.seq = "body" /\ u = BlockEnd -> took
       [] s.lz.seq = "body" /\ u \in {XzFoot, LzmaFoot} ->
            IF Another(s.lz) THEN [took EXCEPT !.lz.seq = "again"]
            ELSE stop([took EXCEPT !.lz.seq = "done"], "STREAM_END")
       [] OTHER -> stop(s, "DATA_ERROR")
Exhausted(s, in, out, action) ==
  CASE action = "FINISH" /\ s.lz.seq = "again" -> "STREAM_END"
    [] action = "FINISH" /\ s.lz.seq # "again" -> IF in = <<>> /\ s.out = out THEN "BUF_ERROR" ELSE "OK"
    [] OTHER -> "OK"
Decode(lz, in, out, action, room) ==
  IF lz.seq = "done" THEN Called(lz, in, out, "STREAM_END")
  ELSE With(Times(Len(in), LAMBDA s : IF s.stop THEN s ELSE DecodeUnit(s, room),
                  [lz |-> lz, in |-> in, out |-> out, ret |-> "OK", stop |-> FALSE]),
            LAMBDA s : Called(s.lz, s.in, s.out, IF s.stop THEN s.ret ELSE Exhausted(s, in, out, action)))

LzmaCode(action) == IF opt.mode = "compress" THEN Encode(strm.lz, strm.in, strm.out, action)
                    ELSE {Decode(strm.lz, strm.in, strm.out, action, BufSize)}

(* --- coder_init ---                                                      *)
IsFormat(format, in) == in # <<>> /\ Head(in) \in Heads(format)
Detected(in) == LET is == {f \in {"xz", "lzip", "lzma"} : IsFormat(f, in)}
                IN CASE opt.format = "raw" -> "raw"
                     [] opt.format # "raw" /\ is # {} /\ opt.format \in {"auto"} \cup is -> CHOOSE f \in is : TRUE
                     [] OTHER -> "auto"
Passthru(format) == format = "auto" /\ opt.mode = "decompress" /\ opt.stdout /\ opt.force
AllowTrailing == opt.mode # "compress" /\ (opt.single \/ strm.lz.format = "lzip")

(* The head is decoded before the target is opened, so that a file that    *)
(* cannot be decoded leaves no empty target behind.                        *)
Predecoded(lz, in) ==
  IF lz.format = "raw" THEN Called(lz, in, <<>>, "OK") ELSE Decode(lz, in, <<>>, "RUN", 0)
InitStrm(in) ==
  IF opt.mode = "compress"
  THEN Called([Lz("body", opt.format) EXCEPT !.queue = HeadOf[opt.format]], <<>>, <<>>, "OK")
  ELSE LET format == Detected(in)
       IN IF format = "auto" THEN Called(Lz("head", "auto"), in, <<>>, "FORMAT_ERROR")
          ELSE Predecoded(Lz(IF format = "raw" THEN "body" ELSE "head", format), in)
Told(s) == s.ret = "UNSUPPORTED_CHECK"
AfterTold(first) ==
  Times(Len(first.in), LAMBDA s : IF Told(s) THEN Predecoded(s.lz, s.in) ELSE s, first)

Strm(s) == [in |-> s.in, out |-> s.out, lz |-> s.lz]
Ends(success) == io' = [NoIo EXCEPT !.success = success] /\ Goto("close")

CoderInit ==
  /\ at = "init" /\ UNCHANGED <<opt, files, pair, loc>>
  /\ IF io.ret = "failed" THEN Ends(FALSE) /\ UNCHANGED <<proc, strm>>
     ELSE \E first \in {InitStrm(io.got)} : \E s \in {AfterTold(first)} :
            LET p == IF Told(first) THEN Warned(proc) ELSE proc
                good == s.ret \in {"OK", "STREAM_END"} \/ Passthru(s.lz.format)
            IN /\ strm' = Strm(s)
               /\ \/ /\ good /\ proc' = p
                     /\ IF proc.abort THEN Ends(FALSE)
                        ELSE io' = NoIo /\ Goto(IF opt.mode = "test" THEN "start" ELSE "open_dest")
                  \/ /\ ~good \/ MayFail("mem")
                     /\ proc' = Erred(p) /\ Ends(FALSE)

(* --- coder_normal ---                                                    *)
Local(action, left, next, list_pos) ==
  [action |-> action, ret |-> "OK", left |-> left, next |-> next, list_pos |-> list_pos]
Splits == ~opt.mt /\ opt.block_size > 0

(* Sizes of Blocks: from --block-list, its last one again and again, each  *)
(* in pieces of --block-size at most when a single thread encodes.         *)
FirstBlock ==
  LET size == IF Splits THEN opt.block_size ELSE NoLimit
  IN CASE opt.mode # "compress" \/ opt.format # "xz" -> [left |-> NoLimit, next |-> 0]
       [] opt.mode = "compress" /\ opt.format = "xz" /\ opt.block_list = <<>> -> [left |-> size, next |-> 0]
       [] OTHER -> IF size < opt.block_list[1] THEN [left |-> size, next |-> opt.block_list[1] - size]
                   ELSE [left |-> opt.block_list[1], next |-> 0]
SplitBlock(l) ==
  IF l.next > 0
  THEN LET left == Lesser(l.next, opt.block_size) IN Local("RUN", left, l.next - left, l.list_pos)
  ELSE LET k == IF l.list_pos < Len(opt.block_list) THEN l.list_pos + 1 ELSE l.list_pos
           size == opt.block_list[k]
       IN IF Splits /\ size > opt.block_size
          THEN Local("RUN", opt.block_size, size - opt.block_size, k)
          ELSE Local("RUN", size, 0, k)
NextBlock(l) == IF opt.block_list = <<>> THEN Local("RUN", opt.block_size, 0, l.list_pos) ELSE SplitBlock(l)

Step(place) == at = place /\ UNCHANGED <<opt, files>>
Start ==
  /\ Step("start") /\ UNCHANGED <<proc, pair, io>>
  /\ loc' = Local(IF pair.src_eof THEN "FINISH" ELSE "RUN", FirstBlock.left, FirstBlock.next, 1)
  /\ IF Passthru(strm.lz.format) THEN Goto("pass") /\ UNCHANGED strm
     ELSE Goto("code") /\ strm' = [strm EXCEPT !.out = <<>>]

MustRead == strm.in = <<>> /\ loc.action = "RUN"
Begin ==
  /\ Step("code") /\ UNCHANGED <<proc, pair, strm, loc>>
  /\ CASE proc.abort -> Ends(FALSE)
       [] ~proc.abort /\ MustRead -> io' = StartRead(Lesser(loc.left, BufSize), "more") /\ Goto("read")
       [] OTHER -> Goto("lzma") /\ UNCHANGED io

(* What was read decides what is asked of the encoder next.                *)
ActionAfter(left) == CASE pair.src_eof -> "FINISH"
                       [] ~pair.src_eof /\ left = 0 -> "FULL_BARRIER"
                       [] OTHER -> IF pair.flush_needed THEN "SYNC_FLUSH" ELSE "RUN"
GotMore ==
  /\ Step("more") /\ UNCHANGED <<proc, pair>>
  /\ IF io.ret = "failed" THEN Ends(FALSE) /\ UNCHANGED coderVars
     ELSE LET left == IF pair.src_eof \/ loc.left = NoLimit THEN loc.left ELSE loc.left - Len(io.got)
          IN /\ strm' = [strm EXCEPT !.in = io.got]
             /\ loc' = [loc EXCEPT !.left = left, !.action = ActionAfter(left)]
             /\ Goto("lzma") /\ UNCHANGED io

(* coder_write_output; nothing is written while testing.                   *)
WriteOutput(out, then) == IF opt.mode = "test" THEN io' = [NoIo EXCEPT !.then = then] /\ Goto(then)
                          ELSE io' = StartWrite(out, then) /\ Goto("write_out")
CallLzma ==
  /\ Step("lzma") /\ UNCHANGED <<proc, pair>>
  /\ \E s \in LzmaCode(loc.action) :
       /\ loc' = [loc EXCEPT !.ret = s.ret]
       /\ IF Len(s.out) = BufSize
          THEN strm' = [Strm(s) EXCEPT !.out = <<>>] /\ WriteOutput(s.out, "after")
          ELSE strm' = Strm(s) /\ io' = NoIo /\ Goto("after")

Flushed == loc.ret = "STREAM_END" /\ loc.action \in {"SYNC_FLUSH", "FULL_BARRIER"}
After ==
  /\ Step("after") /\ UNCHANGED pair
  /\ CASE io.ret = "failed" -> Ends(FALSE) /\ UNCHANGED <<coderVars, proc>>
       [] io.ret = "ok" /\ Flushed /\ loc.action = "FULL_BARRIER" ->
            loc' = NextBlock(loc) /\ Goto("code") /\ UNCHANGED <<strm, proc, io>>
       [] io.ret = "ok" /\ Flushed /\ loc.action = "SYNC_FLUSH" ->
            /\ strm' = [strm EXCEPT !.out = <<>>] /\ WriteOutput(strm.out, "flushed")
            /\ UNCHANGED <<loc, proc>>
       [] io.ret = "ok" /\ ~Flushed /\ loc.ret \in {"OK", "UNSUPPORTED_CHECK"} ->
            /\ proc' = IF loc.ret = "OK" THEN proc ELSE Warned(proc)
            /\ Goto("code") /\ UNCHANGED <<coderVars, io>>
       [] OTHER -> /\ strm' = [strm EXCEPT !.out = <<>>] /\ WriteOutput(strm.out, "stopped")
                   /\ UNCHANGED <<loc, proc>>
AfterFlush ==
  /\ Step("flushed") /\ UNCHANGED <<proc, strm>>
  /\ IF io.ret = "failed" THEN Ends(FALSE) /\ UNCHANGED <<loc, pair>>
     ELSE /\ pair' = [pair EXCEPT !.seen = FALSE, !.flush_needed = FALSE]
          /\ loc' = [loc EXCEPT !.action = "RUN"] /\ Goto("code") /\ UNCHANGED io

(* The end is an end only if nothing follows, or what follows is allowed.  *)
Refused == proc' = Erred(proc) /\ Ends(FALSE)
Stopped ==
  /\ Step("stopped") /\ UNCHANGED coderVars
  /\ CASE io.ret = "failed" -> Ends(FALSE) /\ UNCHANGED <<pair, proc>>
       [] io.ret = "ok" /\ loc.ret # "STREAM_END" -> Refused /\ UNCHANGED pair
       [] io.ret = "ok" /\ loc.ret = "STREAM_END" /\ AllowTrailing ->
            pair' = FixSrcPos(pair, Len(strm.in)) /\ Ends(TRUE) /\ UNCHANGED proc
       [] OTHER -> /\ UNCHANGED pair
                   /\ CASE strm.in # <<>> -> Refused
                        [] strm.in = <<>> /\ ~pair.src_eof ->
                             io' = StartRead(1, "trailing") /\ Goto("read") /\ UNCHANGED proc
                        [] OTHER -> Ends(TRUE) /\ UNCHANGED proc
Trailing == /\ Step("trailing") /\ UNCHANGED <<coderVars, pair>>
            /\ CASE io.ret = "failed" -> Ends(FALSE) /\ UNCHANGED proc
                 [] io.ret = "ok" /\ io.got = <<>> -> Ends(TRUE) /\ UNCHANGED proc
                 [] OTHER -> Refused

(* --- coder_passthru ---                                                  *)
PassOn == /\ Step("pass") /\ UNCHANGED <<proc, pair, coderVars>>
          /\ CASE strm.in = <<>> -> Ends(TRUE)
               [] strm.in # <<>> /\ proc.abort -> Ends(FALSE)
               [] OTHER -> io' = StartWrite(strm.in, "passed") /\ Goto("write_out")
Passed == /\ Step("passed") /\ UNCHANGED <<proc, pair, coderVars>>
          /\ IF io.ret = "failed" THEN Ends(FALSE)
             ELSE io' = StartRead(BufSize, "pass_more") /\ Goto("read")
PassMore == /\ Step("pass_more") /\ UNCHANGED <<proc, pair, loc>>
            /\ IF io.ret = "failed" THEN Ends(FALSE) /\ UNCHANGED strm
               ELSE strm' = [strm EXCEPT !.in = io.got] /\ Goto("pass") /\ UNCHANGED io

CoderRun == \/ CoderInit \/ Start \/ Begin \/ GotMore \/ CallLzma \/ After \/ AfterFlush
            \/ Stopped \/ Trailing \/ PassOn \/ Passed \/ PassMore

-----------------------------------------------------------------------------
(* xz --list, src/xz/list.c: the Indexes of a file are found from its end, *)
(* seeking as liblzma asks for it; headers and Check values of Blocks are  *)
(* read where the Index says they are; what was listed is added up.        *)
(*                                                                         *)
(* lzma_file_info_decoder is seen from outside: it wants the start of the  *)
(* file first and the rest from the end on, a buffer at a time. The first  *)
(* unit of a Block stands for its header.                                  *)
VARIABLES info,     \* xz_file_info, and the file_info decoder
          totals    \* what is added up over the files

listVars == <<info, totals>>

(* --- what is in a file, as lzma_index tells it ---                       *)
BadHeader == 13       \* a Block header with a wrong CRC32
(* Streams end with a foot; what is not a Stream is padding, or refused.   *)
NoIndex == [streams |-> 0, blocks |-> <<>>, padding |-> 0, unc |-> 0, from |-> 0, pos |-> 0, ok |-> TRUE, in |-> FALSE]
IndexUnit(y, u) == LET x == [y EXCEPT !.pos = @ + 1]
                       pos == x.pos IN
  CASE ~x.in /\ u = XzHead -> [x EXCEPT !.in = TRUE, !.streams = @ + 1, !.from = pos + 1]
    [] ~x.in /\ u = 0 /\ x.streams > 0 -> [x EXCEPT !.padding = @ + 1]
    [] x.in /\ (u \in Code .. Code + 9 \/ u = BadHeader) -> [x EXCEPT !.unc = @ + 1]
    [] x.in /\ u = BlockEnd -> [x EXCEPT !.blocks = Append(@, [from |-> x.from, to |-> pos]), !.from = pos + 1]
    [] x.in /\ u = XzFoot /\ x.from = pos -> [x EXCEPT !.in = FALSE]
    [] OTHER -> [x EXCEPT !.ok = FALSE]
IndexOf(data) == Fold(IndexUnit, NoIndex, data)

NoInfo == [k |-> 1, seen |-> <<>>, index |-> NoIndex, block |-> 0,
           memusage_max |-> 0, sizes |-> TRUE, min_version |-> 2]
(* What the decoder wants to see: where, and how many units.               *)
Parts(size) == LET n == (size + BufSize - 1) \div BufSize
               IN [k \in 1 .. n + 1 |-> IF k = 1 THEN 0 ELSE Later(0, size - (k - 1) * BufSize)]
PartSize(size, k) == IF k = Len(Parts(size)) THEN size - (k - 2) * BufSize ELSE BufSize

(* --- list_file ---                                                       *)
Listing(place) == at = place /\ UNCHANGED <<opt, files, coderVars>>
ListOk == opt.format \in {"xz", "auto"}
Die == proc' = Erred(proc) /\ at' = "ended"

ListFile(path) ==
  /\ UNCHANGED <<files, pair, io, coderVars, totals>> /\ info' = NoInfo
  /\ CASE ~ListOk -> Die /\ UNCHANGED opt
       [] ListOk /\ path = Stdin -> proc' = Erred(proc) /\ Goto("next") /\ UNCHANGED opt
       [] OTHER -> opt' = [opt EXCEPT !.stdout = FALSE, !.force = TRUE, !.listed = path]
                   /\ Goto("list_open") /\ UNCHANGED proc
ListOpen == /\ at = "list_open" /\ OpenSrc(opt.listed, "list_init") /\ UNCHANGED <<coderVars, listVars>>

(* --- parse_indexes ---                                                   *)
Size == Len(Source.data)
ListFails == proc' = Erred(proc) /\ Ends(FALSE)
ListInit ==
  /\ Listing("list_init") /\ UNCHANGED <<pair, listVars>>
  /\ \/ Size >= 2 /\ io' = StartRead(BufSize, "list_code") /\ Goto("read") /\ UNCHANGED proc
     \/ (Size < 2 \/ MayFail("mem")) /\ ListFails
ListCode ==
  /\ Listing("list_code") /\ UNCHANGED totals
  /\ LET seen == IF info.k = 1 THEN <<>> ELSE SubSeq(io.got, 1, PartSize(Size, info.k)) \o info.seen
         index == IndexOf(seen)
     IN CASE io.ret = "failed" -> Ends(FALSE) /\ UNCHANGED <<pair, proc, info>>
          [] io.ret = "ok" /\ info.k = 1 /\ io.got[1] # XzHead -> ListFails /\ UNCHANGED <<pair, info>>
          [] io.ret = "ok" /\ info.k = Len(Parts(Size)) ->
               /\ UNCHANGED pair /\ info' = [info EXCEPT !.index = index]
               /\ IF index.ok /\ ~index.in THEN Goto("list_print") /\ UNCHANGED <<proc, io>> ELSE ListFails
          [] OTHER ->
               \/ /\ info' = [info EXCEPT !.seen = seen, !.k = @ + 1]
                  /\ pair' = [pair EXCEPT !.src_pos = Parts(Size)[info.k + 1]]
                  /\ io' = StartRead(BufSize, "list_code") /\ Goto("read") /\ UNCHANGED proc
               \/ MayFail("seek") /\ ListFails /\ UNCHANGED <<pair, info>>

(* --- what is shown of it ---                                             *)
(* Details of Blocks are for -vv; each takes two reads.                    *)
Detailed == opt.verbosity >= 4
Done(x) == /\ Ends(FALSE) /\ UNCHANGED proc
           /\ totals' = [files |-> totals.files + 1,
                         streams |-> totals.streams + x.index.streams,
                         blocks |-> totals.blocks + Len(x.index.blocks),
                         size |-> totals.size + Size,
                         unc |-> totals.unc + x.index.unc,
                         padding |-> totals.padding + x.index.padding,
                         memusage_max |-> Later(totals.memusage_max, x.memusage_max),
                         sizes |-> totals.sizes /\ x.sizes,
                         min_version |-> Later(totals.min_version, x.min_version),
                         shown |-> FALSE]
NoTotals == [files |-> 0, streams |-> 0, blocks |-> 0, size |-> 0, unc |-> 0, padding |-> 0,
             memusage_max |-> 0, sizes |-> TRUE, min_version |-> 2, shown |-> FALSE]

(* parse_block_header: memory and versions grow, sizes may be missing. A   *)
(* Block of nothing but its end needs a version that can decode it.        *)
Block == info.index.blocks[info.block + 1]
HeaderUnit == Source.data[Block.from]
HeaderBad == HeaderUnit = BadHeader
WithHeader(x) ==
  [x EXCEPT !.block = @ + 1, !.memusage_max = Later(@, HeaderUnit), !.sizes = @ /\ HeaderUnit % 2 = 0,
            !.min_version = Later(@, CASE HeaderUnit = Code + 3 -> 4 [] HeaderUnit = BlockEnd -> 3 [] OTHER -> 2)]
ListPrint ==
  /\ Listing("list_print") /\ UNCHANGED pair
  /\ IF ~Detailed \/ info.block = Len(info.index.blocks)
     THEN Done(info) /\ UNCHANGED info
     ELSE \/ ~HeaderBad /\ info' = WithHeader(info) /\ UNCHANGED <<proc, io, totals, at>>
          \/ (HeaderBad \/ MayFail("read")) /\ ListFails /\ UNCHANGED listVars

(* list_totals: for a script always, otherwise for more than one file.     *)
ListTotals == totals' = [totals EXCEPT !.shown = opt.robot \/ totals.files > 1]

ListRun == ListOpen \/ ListInit \/ ListCode \/ ListPrint
=============================================================================
