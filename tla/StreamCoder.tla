----------------------------- MODULE StreamCoder -----------------------------
(***************************************************************************)
(* The .xz Stream encoder and decoder of one thread, with the Block        *)
(* encoder and decoder they use                                            *)
(* (src/original/src/liblzma/common/stream_encoder.c, stream_decoder.c,    *)
(* block_encoder.c, block_decoder.c).                                      *)
(*                                                                         *)
(* As in the modules below, a coder is a record, and one call of it takes  *)
(* a piece of input and the room there is, and gives [c, used, out, ret].  *)
(***************************************************************************)
EXTENDS Lzma2Encoder, StreamFields

Supply(in, v) == SubSeq(in, v.used + 1, Len(in))
Space(room, v) == room - Len(v.out)
Returns(v, r) == [v EXCEPT !.ret = r, !.done = TRUE]
(* What a coder inside did with what was left.                             *)
Passed(v, r) == [v EXCEPT !.used = @ + r.used, !.out = @ \o r.out]

CheckBytes(check, crc) == [k \in 1 .. CheckSize[check] |-> CrcByte(crc, k - 1)]
CompressedMax == UnpaddedMax - BLOCK_HEADER_MAX - CheckSize.sha256

-----------------------------------------------------------------------------
(* --- the chains ---                                                      *)
(* A filter of an encoder also has the options that the header does not    *)
(* tell: [id, opt, props, fast, finder].                                   *)
FrontOf(filters, encoder) ==
  CASE Len(filters) = 1 -> NoFilter
    [] Len(filters) > 1 /\ filters[1].id = "delta" -> DeltaInit(filters[1].opt)
    [] Len(filters) > 1 /\ filters[1].id \in Branches -> SimpleInit(filters[1].id, filters[1].opt, encoder)
(* A branch filter begins at a multiple of its alignment.                  *)
RawCoderInit(filters) ==
  LET valid == ValidateChain(filters)
  IN IF valid = "OK" /\ filters[1].id \in Branches /\ filters[1].opt % AlignmentOf[filters[1].id] # 0 THEN "OPTIONS_ERROR" ELSE valid

(* What a new Block finds in son[] of the last one.                        *)
OldSon(old, finder) == IF old = NoFilter \/ IsBt(old.mf) # (finder \in {"bt2", "bt3", "bt4"}) THEN NeverSon(finder)
                       ELSE old.mf.son

RawEncoderInit(filters, old) ==
  LET f == Last(filters)
      coder == IF f.id = "lzma2" THEN Lzma2Init(f.fast, f.props) ELSE LzmaCreate(f.fast, TRUE, f.props)
  IN IF RawCoderInit(filters) # "OK" THEN [ret |-> RawCoderInit(filters), k |-> NoFilter]
     ELSE [ret |-> "OK",
           k |-> LzInit(f.finder, coder, f.id = "lzma2", FrontOf(filters, TRUE), OldSon(old, f.finder))]

(* Lzma2 takes new properties first, then the ids of the rest are compared. *)
ChainUpdate(k, filters) ==
  With(LzUpdate(k, Last(filters).props), LAMBDA u :
    IF u.ret = "OK" /\ FrontOf(filters, TRUE).kind # k.next.kind THEN [u EXCEPT !.ret = "PROG_ERROR"] ELSE u)
NextFilterUpdate(k, filters) ==
  IF Last(filters).id # "lzma2" THEN Coded(k, 0, <<>>, "PROG_ERROR")
  ELSE ChainUpdate(k, filters)

RawDecoderInit(filters) ==
  [front |-> FrontOf(filters, FALSE), lz |-> LzDecoderInit(Lzma2DecoderInit, TRUE, Last(filters).opt)]
RawDecoderMemusage(filters) ==
  1 + Total(filters, LAMBDA f : IF f.id \in LastOnly THEN f.opt ELSE 1)

-----------------------------------------------------------------------------
(* --- the Block encoder ---                                               *)
BlockEncoderInit(b, old) ==
  With(RawEncoderInit(b.filters, old), LAMBDA r :
    [ret |-> IF Supported(b.check) THEN r.ret ELSE "UNSUPPORTED_CHECK",
     c |-> [seq |-> "CODE", chain |-> r.k, b |-> b, compressed |-> 0, uncompressed |-> 0, crc |-> 0, pos |-> 0]])

BlockCode(c, in, room, action) ==
  With(LzEncode(c.chain, in, room, action), LAMBDA r :
    LET d == [c EXCEPT !.chain = r.c, !.compressed = @ + Len(r.out), !.uncompressed = @ + r.used,
                       !.crc = CrcOver(@, SubSeq(in, 1, r.used))]
        ended == [d EXCEPT !.seq = "PADDING", !.b.compressed = d.compressed, !.b.uncompressed = d.uncompressed]
    IN CASE CompressedMax - c.compressed < Len(r.out) -> Coded([c EXCEPT !.chain = r.c], r.used, r.out, "DATA_ERROR")
         [] CompressedMax - c.compressed >= Len(r.out) /\ (r.ret # "STREAM_END" \/ action = "SYNC_FLUSH") ->
              Coded(d, r.used, r.out, r.ret)
         [] OTHER -> Coded(ended, r.used, r.out, "OK"))

PaddingOf(size) == (4 - (size % 4)) % 4
BlockPad(v, room) ==
  LET n == Least(PaddingOf(v.c.compressed), Space(room, v))
      c == [v.c EXCEPT !.compressed = @ + n]
      w == [v EXCEPT !.out = @ \o Zeroes(n)]
  IN CASE v.c.seq # "PADDING" \/ v.ret # "OK" -> v
       [] v.c.seq = "PADDING" /\ v.ret = "OK" /\ n < PaddingOf(v.c.compressed) -> [w EXCEPT !.c = c]
       [] OTHER -> IF v.c.b.check = "none" THEN [w EXCEPT !.c = c, !.ret = "STREAM_END"]
                   ELSE [w EXCEPT !.c = [c EXCEPT !.seq = "CHECK"]]

BlockCheck(v, room) ==
  LET bytes == CheckBytes(v.c.b.check, v.c.crc)
      n == Least(Len(bytes) - v.c.pos, Space(room, v))
  IN IF v.c.seq # "CHECK" \/ v.ret # "OK" THEN v
     ELSE [v EXCEPT !.c.pos = @ + n, !.out = @ \o SubSeq(bytes, v.c.pos + 1, v.c.pos + n),
                    !.ret = IF v.c.pos + n = Len(bytes) THEN "STREAM_END" ELSE "OK"]

BlockEncode(c, in, room, action) ==
  IF VliMax - c.uncompressed < Len(in) THEN Coded(c, 0, <<>>, "DATA_ERROR")
  ELSE With(IF c.seq = "CODE" THEN BlockCode(c, in, room, action) ELSE Coded(c, 0, <<>>, "OK"), LAMBDA v :
         With(BlockPad(v, room), LAMBDA w : BlockCheck(w, room)))

BlockUpdate(c, filters) ==
  IF c.seq # "CODE" THEN Coded(c, 0, <<>>, "PROG_ERROR")
  ELSE With(NextFilterUpdate(c.chain, filters), LAMBDA u : [u EXCEPT !.c = [c EXCEPT !.chain = u.c]])

-----------------------------------------------------------------------------
(* --- the Stream encoder ---                                              *)
NewBlock(filters, check) == [compressed |-> VliUnknown, uncompressed |-> VliUnknown, filters |-> filters,
                             header_size |-> 0, check |-> check]
OldChain(s) == IF s.block = NoFilter THEN NoFilter ELSE s.block.chain

(* block_encoder_init: [ret, c].                                           *)
BlockInit(s, filters) ==
  With(BlockHeaderSize(NewBlock(filters, s.check)), LAMBDA h :
    IF h.ret # "OK" THEN [ret |-> h.ret, c |-> s.block] ELSE BlockEncoderInit(h.b, OldChain(s)))

(* v is [c, used, out, ret, done].                                         *)
CopyField(v, room) ==
  LET n == Least(Len(v.c.buffer), Space(room, v))
      w == [v EXCEPT !.out = @ \o SubSeq(v.c.buffer, 1, n), !.c.buffer = SubSeq(@, n + 1, Len(@))]
  IN CASE n < Len(v.c.buffer) -> Returns(w, "OK")
       [] n = Len(v.c.buffer) /\ v.c.seq = "STREAM_FOOTER" -> Returns(w, "STREAM_END")
       [] OTHER -> [w EXCEPT !.c.seq = IF @ = "STREAM_HEADER" THEN "BLOCK_INIT" ELSE "BLOCK_ENCODE"]

NextBlock(v, in, action) ==
  LET s == v.c
      BeginBlock(block) == [v EXCEPT !.c = [s EXCEPT !.block = block, !.ready = FALSE, !.seq = "BLOCK_HEADER",
                                                !.buffer = BlockHeaderBytes(block.b)]]
  IN CASE Supply(in, v) = <<>> /\ action = "FINISH" ->
            [v EXCEPT !.c = [s EXCEPT !.ienc = EncoderReset, !.seq = "INDEX_ENCODE"]]
       [] Supply(in, v) = <<>> /\ action # "FINISH" -> Returns(v, IF action = "RUN" THEN "OK" ELSE "STREAM_END")
       [] Supply(in, v) # <<>> /\ s.ready -> BeginBlock(s.block)
       [] OTHER -> With(BlockInit(s, s.filters), LAMBDA r : IF r.ret # "OK" THEN Returns(v, r.ret) ELSE BeginBlock(r.c))

ConvertAction == [RUN |-> "RUN", SYNC_FLUSH |-> "SYNC_FLUSH", FULL_FLUSH |-> "FINISH",
                  FULL_BARRIER |-> "FINISH", FINISH |-> "FINISH"]

EncodeBlock(v, in, room, action) ==
  With(BlockEncode(v.c.block, Supply(in, v), Space(room, v), ConvertAction[action]), LAMBDA r :
    LET w == [Passed(v, r) EXCEPT !.c.block = r.c]
    IN IF r.ret # "STREAM_END" \/ action = "SYNC_FLUSH" THEN Returns(w, r.ret)
       ELSE With(AppendBlock(v.c.index, UnpaddedSize(r.c.b), r.c.b.uncompressed), LAMBDA a :
              IF a.ret # "OK" THEN Returns(w, a.ret)
              ELSE [w EXCEPT !.c.index = a.index, !.c.seq = "BLOCK_INIT"]))

EncodeIndex(v, room) ==
  With(IndexEncode(v.c.ienc, v.c.index, Space(room, v)), LAMBDA r :
    LET w == [v EXCEPT !.out = @ \o r.bytes, !.c.ienc = r.c]
        size == IndexSize(v.c.index.record_count, v.c.index.list_size)
    IN IF r.ret # "STREAM_END" THEN Returns(w, r.ret)
       ELSE [w EXCEPT !.c.buffer = FooterBytes(v.c.check, size), !.c.seq = "STREAM_FOOTER"])

StreamRound(v, in, room, action) ==
  CASE Space(room, v) = 0 -> Returns(v, "OK")
    [] Space(room, v) > 0 /\ v.c.seq \in {"STREAM_HEADER", "BLOCK_HEADER", "STREAM_FOOTER"} -> CopyField(v, room)
    [] Space(room, v) > 0 /\ v.c.seq = "BLOCK_INIT" -> NextBlock(v, in, action)
    [] Space(room, v) > 0 /\ v.c.seq = "BLOCK_ENCODE" -> EncodeBlock(v, in, room, action)
    [] Space(room, v) > 0 /\ v.c.seq = "INDEX_ENCODE" -> EncodeIndex(v, room)

Begun(c) == [c |-> c, used |-> 0, out |-> <<>>, ret |-> "OK", done |-> FALSE]
StreamEncode(s, in, room, action) == Loop(LAMBDA v : StreamRound(v, in, room, action), Begun(s))

(* New filters for the next Block, or options for the rest of this one.    *)
StreamUpdate(s, filters) ==
  CASE s.seq \in {"STREAM_HEADER", "BLOCK_INIT"} ->
         With(BlockInit(s, filters), LAMBDA r :
           IF r.ret # "OK" THEN Coded([s EXCEPT !.ready = FALSE, !.block = r.c], 0, <<>>, r.ret)
           ELSE Coded([s EXCEPT !.ready = TRUE, !.block = r.c, !.filters = filters], 0, <<>>, "OK"))
    [] s.seq \in {"BLOCK_HEADER", "BLOCK_ENCODE"} ->
         With(BlockUpdate(s.block, filters), LAMBDA r :
           Coded([s EXCEPT !.block = r.c, !.filters = IF r.ret = "OK" THEN filters ELSE @], 0, <<>>, r.ret))
    [] OTHER -> Coded(s, 0, <<>>, "PROG_ERROR")

(* The coder of an earlier Stream is used again, if there is one.          *)
StreamEncoderInit(filters, check, old) ==
  StreamUpdate([kind |-> "stream", seq |-> "STREAM_HEADER", ready |-> FALSE, block |-> old, filters |-> <<>>, check |-> check,
                index |-> IndexInit, ienc |-> EncoderReset, buffer |-> HeaderBytes(check)], filters)

-----------------------------------------------------------------------------
(* --- the Block decoder ---                                               *)
SizeNotLarger(size, reference) == reference = VliUnknown \/ size <= reference
IsSizeValid(size, reference) == reference = VliUnknown \/ reference = size
BlockDecoderInit(b, ignore) ==
  [seq |-> "CODE", chain |-> RawDecoderInit(b.filters), b |-> b, compressed |-> 0, uncompressed |-> 0,
   compressed_limit |-> IF HasSize(b.compressed) THEN b.compressed
                        ELSE UnpaddedMax - b.header_size - CheckSize[b.check],
   uncompressed_limit |-> IF HasSize(b.uncompressed) THEN b.uncompressed ELSE VliMax,
   crc |-> 0, raw |-> <<>>, ignore |-> ignore]

BlockDecodeData(c, in, room, action) ==
  LET given == SubSeq(in, 1, Least(Len(in), c.compressed_limit - c.compressed))
      space == Least(room, c.uncompressed_limit - c.uncompressed)
  IN With(ChainDecode(c.chain, given, space, action), LAMBDA r :
       LET d == [c EXCEPT !.chain = r.c, !.compressed = @ + r.used, !.uncompressed = @ + Len(r.out)]
           e == [d EXCEPT !.crc = IF c.ignore THEN @ ELSE CrcOver(@, r.out)]
           comp_done == d.compressed = c.b.compressed
           uncomp_done == d.uncompressed = c.b.uncompressed
           stuck == \/ comp_done /\ (uncomp_done \/ Len(r.out) < room)
                    \/ uncomp_done /\ r.used < Len(in)
           sizes == IsSizeValid(d.compressed, c.b.compressed) /\ IsSizeValid(d.uncompressed, c.b.uncompressed)
       IN CASE r.ret = "OK" -> IF stuck THEN Coded(d, r.used, r.out, "DATA_ERROR") ELSE Coded(e, r.used, r.out, "OK")
            [] r.ret \notin {"OK", "STREAM_END"} -> Coded(e, r.used, r.out, r.ret)
            [] OTHER -> IF ~sizes THEN Coded(e, r.used, r.out, "DATA_ERROR")
                        ELSE Coded([e EXCEPT !.seq = "PADDING", !.b.compressed = d.compressed,
                                             !.b.uncompressed = d.uncompressed], r.used, r.out, "OK"))

(* The first byte of the padding that is not zero is consumed.             *)
BlockSkipPadding(v, in) ==
  LET left == Supply(in, v)
      n == Least(PaddingOf(v.c.compressed), Len(left))
      bad == {k \in 1 .. n : left[k] # 0}
      upto == IF bad = {} THEN n ELSE CHOOSE k \in bad : \A j \in bad : k <= j
      w == [v EXCEPT !.used = @ + upto, !.c.compressed = @ + upto]
  IN CASE v.c.seq # "PADDING" \/ v.ret # "OK" -> v
       [] v.c.seq = "PADDING" /\ v.ret = "OK" /\ bad # {} -> [w EXCEPT !.ret = "DATA_ERROR"]
       [] OTHER -> IF n < PaddingOf(v.c.compressed) THEN w
                   ELSE IF v.c.b.check = "none" THEN [w EXCEPT !.ret = "STREAM_END"] ELSE [w EXCEPT !.c.seq = "CHECK"]

BlockVerify(v, in) ==
  LET left == Supply(in, v)
      size == CheckSize[v.c.b.check]
      n == Least(size - Len(v.c.raw), Len(left))
      raw == v.c.raw \o SubSeq(left, 1, n)
      wrong == ~v.c.ignore /\ Supported(v.c.b.check) /\ raw # CheckBytes(v.c.b.check, v.c.crc)
  IN IF v.c.seq # "CHECK" \/ v.ret # "OK" THEN v
     ELSE [v EXCEPT !.used = @ + n, !.c.raw = raw,
                    !.ret = IF Len(raw) < size THEN "OK" ELSE IF wrong THEN "DATA_ERROR" ELSE "STREAM_END"]

BlockDecode(c, in, room, action) ==
  With(IF c.seq = "CODE" THEN BlockDecodeData(c, in, room, action) ELSE Coded(c, 0, <<>>, "OK"), LAMBDA v :
    With(BlockSkipPadding(v, in), LAMBDA w : BlockVerify(w, in)))

-----------------------------------------------------------------------------
(* --- the Stream decoder ---                                              *)
(* flags is a subset of TELL_NO_CHECK, TELL_UNSUPPORTED_CHECK,             *)
(* TELL_ANY_CHECK, IGNORE_CHECK, CONCATENATED.                             *)
StreamDecoderReset(s) == [s EXCEPT !.seq = "STREAM_HEADER", !.hash = HashInit, !.buffer = <<>>, !.pos = 0]
StreamDecoderInit(memlimit, flags) ==
  StreamDecoderReset([kind |-> "stream", seq |-> "STREAM_HEADER", block |-> NoFilter, header_size |-> 0,
    stream |-> FlagsOf("OK", BadFlags, VliUnknown), hash |-> HashInit,
    memlimit |-> IF memlimit = 0 THEN 1 ELSE memlimit, memusage |-> 1, flags |-> flags,
    first |-> TRUE, buffer |-> <<>>, pos |-> 0])

(* lzma_bufcpy into the buffer up to size; until it is full LZMA_OK.       *)
Collected(v, in, size) ==
  LET left == Supply(in, v)
      n == Least(size - Len(v.c.buffer), Len(left))
      w == [v EXCEPT !.used = @ + n, !.c.buffer = @ \o SubSeq(left, 1, n)]
  IN IF n < size - Len(v.c.buffer) THEN Returns(w, "OK") ELSE w

Tells(s, check) == CASE "TELL_NO_CHECK" \in s.flags /\ check = "none" -> "NO_CHECK"
                     [] "TELL_UNSUPPORTED_CHECK" \in s.flags /\ ~Supported(check) -> "UNSUPPORTED_CHECK"
                     [] OTHER -> IF "TELL_ANY_CHECK" \in s.flags THEN "GET_CHECK" ELSE "OK"

TakeStreamHeader(v0, in) ==
  With(Collected(v0, in, HeaderSize), LAMBDA v : IF v.done THEN v ELSE
    With(HeaderDecode(v.c.buffer), LAMBDA f :
      LET s == [v.c EXCEPT !.buffer = <<>>, !.stream = f, !.first = FALSE, !.seq = "BLOCK_HEADER"]
      IN CASE f.ret = "FORMAT_ERROR" -> Returns(v, IF v.c.first THEN "FORMAT_ERROR" ELSE "DATA_ERROR")
           [] f.ret \notin {"OK", "FORMAT_ERROR"} -> Returns(v, f.ret)
           [] OTHER -> IF Tells(s, f.check) = "OK" THEN [v EXCEPT !.c = s]
                       ELSE Returns([v EXCEPT !.c = s], Tells(s, f.check))))

INDEX_INDICATOR == 0
SizeFromThisByte(s, byte) == HeaderSizeDecode(byte)
SizeOfHeader(s, byte) == IF s.buffer = <<>> THEN HeaderSizeDecode(byte) ELSE s.header_size
TakeBlockHeader(v0, in) ==
  LET first == Supply(in, v0)[1]
      size == SizeOfHeader(v0.c, first)
  IN CASE Supply(in, v0) = <<>> -> Returns(v0, "OK")
       [] Supply(in, v0) # <<>> /\ v0.c.buffer = <<>> /\ first = INDEX_INDICATOR -> [v0 EXCEPT !.c.seq = "INDEX"]
       [] OTHER -> With(Collected([v0 EXCEPT !.c.header_size = size], in, size), LAMBDA v :
                     IF v.done THEN v ELSE [v EXCEPT !.c.seq = "BLOCK_INIT"])

(* After MEMLIMIT_ERROR the header is decoded again from the buffer.       *)
InitBlock(v) ==
  With(BlockHeaderDecode(v.c.buffer, v.c.header_size, v.c.stream.check), LAMBDA h :
    LET usage == RawDecoderMemusage(h.b.filters)
        s == [v.c EXCEPT !.memusage = usage]
    IN CASE h.ret # "OK" -> Returns(v, h.ret)
         [] h.ret = "OK" /\ ValidateChain(h.b.filters) # "OK" -> Returns(v, "OPTIONS_ERROR")
         [] OTHER ->
              IF usage > v.c.memlimit THEN Returns([v EXCEPT !.c = s], "MEMLIMIT_ERROR")
              ELSE IF RawCoderInit(h.b.filters) # "OK" THEN Returns([v EXCEPT !.c = s], RawCoderInit(h.b.filters))
              ELSE [v EXCEPT !.c = [s EXCEPT !.seq = "BLOCK_RUN", !.buffer = <<>>,
                                             !.block = BlockDecoderInit(h.b, "IGNORE_CHECK" \in s.flags)]])

RunBlock(v, in, room, action) ==
  With(BlockDecode(v.c.block, Supply(in, v), Space(room, v), action), LAMBDA r :
    LET w == [Passed(v, r) EXCEPT !.c.block = r.c]
    IN IF r.ret # "STREAM_END" THEN Returns(w, r.ret)
       ELSE With(HashAppend(v.c.hash, UnpaddedSize(r.c.b), r.c.b.uncompressed), LAMBDA a :
              IF a.ret # "OK" THEN Returns([w EXCEPT !.c.hash = a.h], a.ret)
              ELSE [w EXCEPT !.c = [@ EXCEPT !.hash = a.h, !.seq = "BLOCK_HEADER"]]))

TakeIndex(v, in) ==
  IF Supply(in, v) = <<>> THEN Returns(v, "OK")
  ELSE With(HashDecode(v.c.hash, Supply(in, v)), LAMBDA d :
         LET w == [v EXCEPT !.used = @ + d.used, !.c.hash = d.c]
         IN IF d.ret # "STREAM_END" THEN Returns(w, d.ret) ELSE [w EXCEPT !.c.seq = "STREAM_FOOTER"])

TakeFooter(v0, in) ==
  With(Collected(v0, in, HeaderSize), LAMBDA v : IF v.done THEN v ELSE
    With(FooterDecode(v.c.buffer), LAMBDA f :
      CASE f.ret # "OK" -> Returns(v, IF f.ret = "FORMAT_ERROR" THEN "DATA_ERROR" ELSE f.ret)
        [] f.ret = "OK" /\ HashSize(v.c.hash) # f.backward -> Returns(v, "DATA_ERROR")
        [] OTHER -> IF FlagsCompare(v.c.stream, f) # "OK" THEN Returns(v, FlagsCompare(v.c.stream, f))
                    ELSE IF "CONCATENATED" \notin v.c.flags THEN Returns(v, "STREAM_END")
                    ELSE [v EXCEPT !.c = [@ EXCEPT !.buffer = <<>>, !.seq = "STREAM_PADDING"]]))

TakeStreamPadding(v, in, action) ==
  LET left == Supply(in, v)
      n == CHOOSE k \in 0 .. Len(left) : /\ \A j \in 1 .. k : left[j] = 0
                                         /\ k = Len(left) \/ left[k + 1] # 0
      w == [v EXCEPT !.used = @ + n, !.c.pos = (@ + n) % 4]
  IN CASE n = Len(left) -> Returns(w, IF action # "FINISH" THEN "OK"
                                      ELSE IF w.c.pos = 0 THEN "STREAM_END" ELSE "DATA_ERROR")
       [] n < Len(left) /\ w.c.pos # 0 -> Returns([w EXCEPT !.used = @ + 1], "DATA_ERROR")
       [] OTHER -> [w EXCEPT !.c = StreamDecoderReset(@)]

DecodeRound(v, in, room, action) ==
  CASE v.c.seq = "STREAM_HEADER"  -> TakeStreamHeader(v, in)
    [] v.c.seq = "BLOCK_HEADER"   -> TakeBlockHeader(v, in)
    [] v.c.seq = "BLOCK_INIT"     -> InitBlock(v)
    [] v.c.seq = "BLOCK_RUN"      -> RunBlock(v, in, room, action)
    [] v.c.seq = "INDEX"          -> TakeIndex(v, in)
    [] v.c.seq = "STREAM_FOOTER"  -> TakeFooter(v, in)
    [] v.c.seq = "STREAM_PADDING" -> TakeStreamPadding(v, in, action)

StreamDecode(s, in, room, action) == Loop(LAMBDA v : DecodeRound(v, in, room, action), Begun(s))
=============================================================================
