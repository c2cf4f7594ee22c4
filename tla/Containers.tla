------------------------------ MODULE Containers ------------------------------
(***************************************************************************)
(* The other containers of LZMA, and one way to call any of them: .lzma,   *)
(* .lz, the detection of the format, MicroLZMA and coders without any      *)
(* container (src/original/src/liblzma/common/alone_encoder.c,             *)
(* alone_decoder.c, lzip_decoder.c, auto_decoder.c, microlzma_*.c,         *)
(* filter_encoder.c, filter_decoder.c). At the end, a whole Stream, Block  *)
(* or chain of filters in a single call (stream_buffer_*.c,                *)
(* block_buffer_*.c, filter_buffer_*.c).                                   *)
(***************************************************************************)
EXTENDS StreamCoder

CONSTANTS LzipLogMin, LzipLogMax,   \* the least and the largest dictionary of .lz (12, 29)
          PickySizeMax              \* what .lzma files of the auto decoder may hold (2^38)

(* --- numbers of fixed width, in a smaller base ---                       *)
LeBase == 8
LeBytes(n, v) == [k \in 1 .. n |-> IF v = Unknown THEN 255 ELSE (v \div LeBase^(k - 1)) % LeBase]
LeValue(bytes) == IF \A k \in DOMAIN bytes : bytes[k] = 255 THEN Unknown
                  ELSE Total([k \in DOMAIN bytes |-> bytes[k] * LeBase^(k - 1)], LAMBDA d : d)

(* 2^n and 2^n + 2^(n - 1).                                                *)
NiceDict(d) == \E n \in 0 .. d : d \in {2^n, 3 * 2^n}
RoundedUp(d) == CHOOSE x \in d .. 2 * d : NiceDict(x) /\ \A y \in d .. x - 1 : ~NiceDict(y)

Lzma1Chain(dict, size, allow_eopm, props) ==
  [front |-> NoFilter, lz |-> LzDecoderInit(LzmaDecoderInit(size, allow_eopm, props), FALSE, dict)]
RawChain(filters) ==
  IF Last(filters).id = "lzma2" THEN RawDecoderInit(filters)
  ELSE [Lzma1Chain(Last(filters).opt, Unknown, TRUE, Last(filters).props) EXCEPT !.front = FrontOf(filters, FALSE)]

-----------------------------------------------------------------------------
(* --- encoders: raw, .lzma, .lz ---                                       *)
(* c is [kind, header, chain, footer, crc, uncompressed, compressed]; f is *)
(* the one filter.                                                         *)
Framed(kind, header, chain) == [kind |-> kind, header |-> header, chain |-> chain, footer |-> FALSE, crc |-> 0,
                                 uncompressed |-> 0, compressed |-> 0]
RawInit(filters) == With(RawEncoderInit(filters, NoFilter), LAMBDA r :
                      [ret |-> r.ret, c |-> Framed("raw", <<>>, r.k)])

AloneHeader(f, size) == <<f.props>> \o LeBytes(4, RoundedUp(f.opt)) \o LeBytes(8, size)
LzmaAloneInit(f, size, eopm) ==
  IF f.props > PropsMax \/ f.opt < DictMin THEN [ret |-> "OPTIONS_ERROR", c |-> NoFilter]
  ELSE With(RawEncoderInit(<<f>>, NoFilter), LAMBDA r :
         [ret |-> r.ret, c |-> Framed("alone", AloneHeader(f, size), [r.k EXCEPT !.z.eopm = eopm])])
(* This library never knows the size when it begins.                       *)
AloneEncoderInit(f) == LzmaAloneInit(f, Unknown, TRUE)

LzipMagic == <<76, 90, 73, 80>>
LzipLog(dict) == CHOOSE n \in LzipLogMin .. LzipLogMax : dict <= 2^n /\ (n = LzipLogMin \/ dict > 2^(n - 1))
LzipDict(dict) == LzipLog(dict) + 32 * ((2^LzipLog(dict) - dict) \div (2^LzipLog(dict) \div 16))
LzipInit(f, version) ==
  With(RawEncoderInit(<<f>>, NoFilter), LAMBDA r :
    [ret |-> r.ret,
     c |-> Framed("lzip", LzipMagic \o <<version, LzipDict(f.opt)>>, r.k) @@ [version |-> version]])
LzipFooter(c) == [k \in 1 .. 4 |-> CrcByte(c.crc, k - 1)] \o LeBytes(8, c.uncompressed)
                   \o (IF c.version = 0 THEN <<>> ELSE LeBytes(8, c.compressed + 20))

FramedEncode(c, in, room, action) ==
  LET n == Least(Len(c.header), room)
      rest == [c EXCEPT !.header = SubSeq(@, n + 1, Len(@)), !.compressed = @ + n]
      field == SubSeq(c.header, 1, n)
  IN CASE n = room -> Coded(rest, 0, field, "OK")
       [] n < room /\ c.footer -> Coded(rest, 0, field, "STREAM_END")
       [] OTHER -> With(LzEncode(c.chain, in, room - n, action), LAMBDA r :
            LET d == [rest EXCEPT !.chain = r.c, !.uncompressed = @ + r.used, !.compressed = @ + Len(r.out),
                                  !.crc = CrcOver(@, SubSeq(in, 1, r.used))]
                closing == r.ret = "STREAM_END" /\ c.kind = "lzip"
            IN Coded(IF closing THEN [d EXCEPT !.footer = TRUE, !.header = LzipFooter(d)] ELSE d,
                     r.used, field \o r.out, IF closing THEN "OK" ELSE r.ret))

-----------------------------------------------------------------------------
(* --- .lzma decoder ---                                                   *)
ContainerInit(kind, seq, memlimit, flags) ==
  [kind |-> kind, seq |-> seq, header |-> <<>>, lz |-> NoFilter, memlimit |-> IF memlimit = 0 THEN 1 ELSE memlimit,
   memusage |-> 1, flags |-> flags]
AloneDecoderInit(memlimit, picky) == ContainerInit("alone", "HEADER", memlimit, IF picky THEN {"PICKY"} ELSE {})

AloneInit(v) ==
  LET h == v.c.header
  IN IF v.c.memusage > v.c.memlimit THEN Returns(v, "MEMLIMIT_ERROR")
     ELSE [v EXCEPT !.c.lz = Lzma1Chain(LeValue(SubSeq(h, 2, 5)), LeValue(SubSeq(h, 6, 13)), TRUE, h[1]),
                    !.c.seq = "CODE"]

(* A byte that makes it another format is not consumed, the last one is.   *)
AloneTake(v, byte) ==
  LET h == Append(v.c.header, byte)
      n == Len(h)
      dict == LeValue(SubSeq(h, 2, 5))
      picky == "PICKY" \in v.c.flags
      w == [v EXCEPT !.used = @ + 1, !.c.header = h]
      size == LeValue(SubSeq(h, 6, 13))
  IN CASE n = 1 /\ PropsBad(byte) -> Returns(v, "FORMAT_ERROR")
       [] n = 5 /\ picky /\ dict # Unknown /\ ~NiceDict(dict) -> Returns(v, "FORMAT_ERROR")
       [] n = 13 -> IF picky /\ size # Unknown /\ size >= PickySizeMax THEN Returns(w, "FORMAT_ERROR")
                    ELSE AloneInit([w EXCEPT !.c.memusage = 1 + dict, !.c.seq = "CODER_INIT"])
       [] OTHER -> w

-----------------------------------------------------------------------------
(* --- .lz decoder ---                                                     *)
LzipDecoderInit(memlimit, flags) ==
  ContainerInit("lzip", "ID_STRING", memlimit, flags)
    @@ [version |-> 0, crc |-> 0, uncompressed |-> 0, member |-> 0, first |-> TRUE]

LzipId(v, in, action) ==
  LET byte == Supply(in, v)[1]
      h == Append(v.c.header, byte)
  IN CASE Supply(in, v) = <<>> -> Returns(v, IF ~v.c.first /\ action = "FINISH" THEN "STREAM_END" ELSE "OK")
       [] Supply(in, v) # <<>> /\ byte # LzipMagic[Len(h)] ->
            Returns(v, IF v.c.first THEN "FORMAT_ERROR" ELSE "STREAM_END")
       [] OTHER -> IF Len(h) < 4 THEN [v EXCEPT !.used = @ + 1, !.c.header = h]
                   ELSE [v EXCEPT !.used = @ + 1,
                                  !.c = [@ EXCEPT !.header = <<>>, !.crc = 0, !.uncompressed = 0, !.member = 4,
                                                  !.seq = "VERSION"]]

LzipVersion(v, byte) ==
  LET w == [v EXCEPT !.used = @ + 1, !.c.version = byte]
      y == [w EXCEPT !.c.member = @ + 1, !.c.seq = "DICT_SIZE"]
  IN CASE byte > 1 -> Returns(w, "OPTIONS_ERROR")
       [] byte <= 1 /\ "TELL_ANY_CHECK" \in v.c.flags -> Returns(y, "GET_CHECK")
       [] OTHER -> y

LzipDictSize(v, byte) ==
  LET log == byte % 32
      frac == byte \div 32
      w == [v EXCEPT !.used = @ + 1, !.c.member = @ + 1]
  IN IF log \notin LzipLogMin .. LzipLogMax \/ (log = LzipLogMin /\ frac > 0) THEN Returns(w, "DATA_ERROR")
     ELSE [w EXCEPT !.c.header = <<2^log - (2^log * frac) \div 16>>, !.c.seq = "CODER_INIT",
                    !.c.memusage = 1 + 2^log - (2^log * frac) \div 16]

LzipProps == 1       \* LZIP_LC, LZIP_LP, LZIP_PB
LzipCoderInit(v) ==
  IF v.c.memusage > v.c.memlimit THEN Returns(v, "MEMLIMIT_ERROR")
  ELSE [v EXCEPT !.c = [@ EXCEPT !.lz = Lzma1Chain(v.c.header[1], Unknown, TRUE, LzipProps), !.header = <<>>,
                                 !.crc = 0, !.seq = "CODE"]]

LzipFooterOk(c) ==
  /\ "IGNORE_CHECK" \in c.flags \/ SubSeq(c.header, 1, 4) = [k \in 1 .. 4 |-> CrcByte(c.crc, k - 1)]
  /\ c.uncompressed = LeValue(SubSeq(c.header, 5, 12))
  /\ c.version = 0 \/ c.member = LeValue(SubSeq(c.header, 13, 20))

LzipTakeFooter(v, in) ==
  LET size == IF v.c.version = 0 THEN 12 ELSE 20
      left == Supply(in, v)
      n == Least(size - Len(v.c.header), Len(left))
      w == [v EXCEPT !.used = @ + n, !.c.header = @ \o SubSeq(left, 1, n)]
      y == [w EXCEPT !.c.member = @ + size]
  IN CASE Len(w.c.header) < size -> Returns(w, "OK")
       [] Len(w.c.header) = size /\ ~LzipFooterOk(y.c) -> Returns(y, "DATA_ERROR")
       [] OTHER -> IF "CONCATENATED" \notin v.c.flags THEN Returns(y, "STREAM_END")
                   ELSE [y EXCEPT !.c = [@ EXCEPT !.header = <<>>, !.first = FALSE, !.seq = "ID_STRING"]]

-----------------------------------------------------------------------------
(* --- MicroLZMA ---                                                       *)
(* One call encodes what fits into out[]; how much that was is known to    *)
(* the application only.                                                   *)
MicroEncoderInit(f) ==
  IF f.props > PropsMax THEN [ret |-> "OPTIONS_ERROR", c |-> NoFilter]
  ELSE With(RawEncoderInit(<<f>>, NoFilter), LAMBDA r :
         [ret |-> r.ret, c |-> [Framed("micro", <<>>, r.k) EXCEPT !.header = <<-f.props - 1>>]])
MicroLimited(c, room) == SetOutLimit(c.chain, room - 1)
MicroEncoded(r) == IF r.ret = "STREAM_END" THEN [r EXCEPT !.used = r.c.chain.z.uncomp]
                   ELSE [r EXCEPT !.ret = IF @ = "OK" THEN "PROG_ERROR" ELSE @]

MicroDecoderInit(comp_size, uncomp_size, exact, dict) ==
  [ContainerInit("micro", "HEADER", 0, {}) EXCEPT !.header = <<dict>>]
    @@ [comp |-> comp_size, uncomp |-> uncomp_size, exact |-> exact]
MicroTake(v, byte) ==
  IF PropsBad(-byte - 1) \/ byte >= 0 THEN Returns(v, "OPTIONS_ERROR")
  ELSE [v EXCEPT !.used = @ + 1, !.c.seq = "CODE",
                 !.c.lz = Lzma1Chain(v.c.header[1], IF v.c.exact THEN v.c.uncomp ELSE Unknown, ~v.c.exact, -byte - 1)]

(* The input ends where the compressed size says, the output, unless the   *)
(* size is exact, where the uncompressed size does.                        *)
MicroEnd(v) ==
  LET c == [v.c EXCEPT !.comp = @ - v.used, !.uncomp = IF v.c.exact THEN @ ELSE @ - Len(v.out)]
  IN [v EXCEPT !.c = c,
        !.ret = CASE @ = "STREAM_END" -> IF v.c.exact /\ c.comp = 0 THEN "STREAM_END" ELSE "DATA_ERROR"
                  [] @ # "STREAM_END" /\ ~v.c.exact /\ c.uncomp = 0 /\ v.c.seq = "CODE" -> "STREAM_END"
                  [] OTHER -> @]

-----------------------------------------------------------------------------
(* --- all of them ---                                                     *)
LzmaCodes(v, in, room, action) ==
  With(ChainDecode(v.c.lz, Supply(in, v), Space(room, v), action), LAMBDA r :
    LET w == [Passed(v, r) EXCEPT !.c.lz = r.c]
        counted == [w EXCEPT !.c.member = @ + r.used, !.c.uncompressed = @ + Len(r.out),
                             !.c.crc = IF "IGNORE_CHECK" \in v.c.flags THEN @ ELSE CrcOver(@, r.out)]
    IN CASE v.c.kind # "lzip" -> Returns(w, r.ret)
         [] v.c.kind = "lzip" /\ r.ret # "STREAM_END" -> Returns(counted, r.ret)
         [] OTHER -> [counted EXCEPT !.c.seq = "MEMBER_FOOTER"])

WaitsForInput(v, in, room) ==
  \/ v.c.kind = "alone" /\ (room = 0 \/ (v.c.seq # "CODE" /\ Supply(in, v) = <<>>))
  \/ v.c.kind \in {"lzip", "micro"} /\ v.c.seq \in {"VERSION", "DICT_SIZE", "HEADER"} /\ Supply(in, v) = <<>>

ContainerRound(v, in, room, action) ==
  CASE WaitsForInput(v, in, room) -> Returns(v, "OK")
    [] ~WaitsForInput(v, in, room) /\ v.c.seq = "CODE" -> LzmaCodes(v, in, room, action)
    [] OTHER ->
         CASE v.c.seq = "HEADER" /\ v.c.kind = "alone" -> AloneTake(v, Supply(in, v)[1])
           [] v.c.seq = "HEADER" /\ v.c.kind = "micro" -> MicroTake(v, Supply(in, v)[1])
           [] v.c.seq = "CODER_INIT" /\ v.c.kind = "alone" -> AloneInit(v)
           [] v.c.seq = "CODER_INIT" /\ v.c.kind = "lzip" -> LzipCoderInit(v)
           [] v.c.seq = "ID_STRING" -> LzipId(v, in, action)
           [] v.c.seq = "VERSION" -> LzipVersion(v, Supply(in, v)[1])
           [] v.c.seq = "DICT_SIZE" -> LzipDictSize(v, Supply(in, v)[1])
           [] v.c.seq = "MEMBER_FOOTER" -> LzipTakeFooter(v, in)

RawDecoder(filters) == [ContainerInit("raw", "CODE", 0, {}) EXCEPT !.lz = RawChain(filters)]

Decoding(c, in, room, action) ==
  LET micro == c.kind = "micro"
      given == IF micro /\ c.comp < Len(in) THEN SubSeq(in, 1, c.comp) ELSE in
      space == IF micro /\ ~c.exact THEN Least(room, c.uncomp) ELSE room
  IN IF c.kind = "stream" THEN StreamDecode(c, in, room, action)
     ELSE With(Loop(LAMBDA v : ContainerRound(v, given, space, action), Begun(c)), LAMBDA v :
            IF micro THEN MicroEnd(v) ELSE v)

Encoding(c, in, room, action) ==
  IF c.kind = "stream" THEN StreamEncode(c, in, room, action)
  ELSE With(IF c.kind = "micro" THEN MicroLimited(c, room) ELSE Coded(c.chain, 0, <<>>, "OK"), LAMBDA l :
         IF l.ret # "OK" THEN Coded(c, 0, <<>>, "PROG_ERROR")
         ELSE With(FramedEncode([c EXCEPT !.chain = l.c], in, room, action), LAMBDA r :
                IF c.kind = "micro" THEN MicroEncoded(r) ELSE r))

(* lzma_filters_update; not every coder can take other options, and a raw  *)
(* encoder does not look at the id of its last filter.                     *)
MemusageKnown(filters) == ValidateChain(filters) = "OK" /\ Last(filters).props <= PropsMax
FiltersUpdate(c, filters) ==
  CASE c.kind \notin {"stream", "raw"} -> Coded(c, 0, <<>>, "PROG_ERROR")
    [] c.kind \in {"stream", "raw"} /\ ~MemusageKnown(filters) -> Coded(c, 0, <<>>, "OPTIONS_ERROR")
    [] OTHER -> IF c.kind = "stream" THEN StreamUpdate(c, filters)
                ELSE With(ChainUpdate(c.chain, filters), LAMBDA u : [u EXCEPT !.c = [c EXCEPT !.chain = u.c]])

-----------------------------------------------------------------------------
(* --- the detection of the format ---                                     *)
AutoInit(memlimit, flags) == [kind |-> "auto", seq |-> "INIT", next |-> NoFilter, flags |-> flags, memusage |-> 1,
                              memlimit |-> IF memlimit = 0 THEN 1 ELSE memlimit]
Detected(a, byte) == CASE byte = HeaderMagic[1] -> StreamDecoderInit(a.memlimit, a.flags)
                       [] byte = LzipMagic[1]   -> LzipDecoderInit(a.memlimit, a.flags)
                       [] OTHER                 -> AloneDecoderInit(a.memlimit, TRUE)
AutoTells(a, next) == CASE next.kind = "alone" /\ "TELL_NO_CHECK" \in a.flags -> "NO_CHECK"
                        [] OTHER -> IF next.kind = "alone" /\ "TELL_ANY_CHECK" \in a.flags THEN "GET_CHECK" ELSE "OK"

(* After the end of what is concatenated there must be nothing.            *)
AutoEnd(a, in, v, action) ==
  IF Supply(in, v) # <<>> THEN Coded(a, v.used, v.out, "DATA_ERROR")
  ELSE Coded(a, v.used, v.out, IF action = "FINISH" THEN "STREAM_END" ELSE "OK")
AutoAfter(a, in, r, action) ==
  LET b == [a EXCEPT !.next = r.c, !.memusage = r.c.memusage]
  IN IF r.ret # "STREAM_END" \/ "CONCATENATED" \notin a.flags THEN Coded(b, r.used, r.out, r.ret)
     ELSE AutoEnd([b EXCEPT !.seq = "FINISH"], in, r, action)

Decode1(c, in, room, action) ==
  LET auto == c.kind = "auto"
      begins == auto /\ c.seq = "INIT"
      a == IF begins /\ in # <<>> THEN [c EXCEPT !.seq = "CODE", !.next = Detected(c, in[1])] ELSE c
      tells == IF begins /\ in # <<>> THEN AutoTells(a, a.next) ELSE "OK"
  IN CASE begins /\ (in = <<>> \/ tells # "OK") -> Coded(a, 0, <<>>, tells)
       [] auto /\ c.seq = "FINISH" -> AutoEnd(c, in, Begun(c), action)
       [] OTHER -> With(Decoding(IF auto THEN a.next ELSE c, in, room, action), LAMBDA r :
                     IF auto THEN AutoAfter(a, in, r, action) ELSE r)

(* What is configured already keeps its own limit.                         *)
Memconfig(c, limit) ==
  IF limit < c.memusage THEN Coded(c, 0, <<>>, "MEMLIMIT_ERROR")
  ELSE Coded(IF c.kind = "auto" /\ c.seq # "INIT" THEN [c EXCEPT !.memlimit = limit, !.next.memlimit = limit]
             ELSE [c EXCEPT !.memlimit = limit], 0, <<>>, "OK")

-----------------------------------------------------------------------------
(* --- everything in a single call ---                                     *)
(* Either all of it is done in the room there is, or out_pos stays where   *)
(* it was. An encoder returns [ret, out, b], b being the Block with its    *)
(* sizes; a decoder [ret, used, out].                                      *)
Refused(ret) == [ret |-> ret, used |-> 0, out |-> <<>>]

(* --- the room that is always enough ---                                  *)
UncompressedHeader == 2      \* 3: the size takes two bytes
FloorOf4(n) == n - (n % 4)
Lzma2Bound(size) ==
  LET overhead == UncompressedHeader * ((size + ChunkMax - 1) \div ChunkMax) + 1
  IN IF size > CompressedMax \/ CompressedMax - overhead < size THEN 0 ELSE size + overhead
BlockHeadersBound == FloorOf4(2 + 2 * VliBytesMax + 3 + 4 + CheckSize.sha256 + 3)
BlockBufferBound(size) == IF Lzma2Bound(size) = 0 THEN 0 ELSE BlockHeadersBound + Ceil4(Lzma2Bound(size))
StreamHeadersBound == 2 * HeaderSize + FloorOf4(2 + 2 * VliBytesMax + 4 + 3)
StreamBufferBound(size) == IF BlockBufferBound(size) = 0 THEN 0 ELSE BlockBufferBound(size) + StreamHeadersBound

(* --- Block ---                                                           *)
(* Without compression: LZMA2 alone, whatever the filters are, in chunks   *)
(* of which only the first resets the dictionary.                          *)
Chunk(in, k) ==
  LET bytes == SubSeq(in, (k - 1) * ChunkMax + 1, Least(k * ChunkMax, Len(in)))
  IN <<IF k = 1 THEN 1 ELSE 2, Len(bytes) - 1>> \o bytes
EncodeUncompressed(b, in, room) ==
  With(BlockHeaderSize([b EXCEPT !.filters = <<[id |-> "lzma2", opt |-> DictMin]>>]), LAMBDA h :
    CASE h.ret # "OK" -> Refused("PROG_ERROR")
      [] h.ret = "OK" /\ room < h.b.header_size + b.compressed -> Refused("BUF_ERROR")
      [] OTHER -> [ret |-> "OK", b |-> [h.b EXCEPT !.filters = b.filters],
                   out |-> BlockHeaderBytes(h.b)
                             \o FlattenSeq([k \in 1 .. (Len(in) + ChunkMax - 1) \div ChunkMax |-> Chunk(in, k)]) \o <<0>>])

(* Compressed in no more room than without compression; the header has     *)
(* been laid out for the largest size and then tells the real one.         *)
EncodeNormal(b, in, room) ==
  With(BlockHeaderSize(b), LAMBDA h :
    CASE h.ret # "OK" -> Refused(h.ret)
      [] h.ret = "OK" /\ room <= h.b.header_size -> Refused("BUF_ERROR")
      [] OTHER ->
           With(RawEncoderInit(b.filters, NoFilter), LAMBDA i : IF i.ret # "OK" THEN Refused(i.ret) ELSE
             With(LzEncode(i.k, in, Least(room - h.b.header_size, b.compressed), "FINISH"), LAMBDA r :
               LET done == [h.b EXCEPT !.compressed = Len(r.out)]
               IN CASE r.ret = "OK" -> Refused("BUF_ERROR")
                    [] r.ret = "STREAM_END" -> [ret |-> "OK", b |-> done, out |-> BlockHeaderBytes(done) \o r.out]
                    [] OTHER -> Refused(r.ret))))

FillsBeforeCheck(room, check) == room - CheckSize[check]
LeftForData(room, check) == FloorOf4(room) - CheckSize[check]
Closed(r, in) == [r EXCEPT !.out = @ \o Zeroes(PaddingOf(r.b.compressed)) \o CheckBytes(r.b.check, CrcOver(0, in))]
BlockBufferEncode(filters, check, in, room, try_to_compress) ==
  LET left == LeftForData(room, check)
      b == [NewBlock(filters, check) EXCEPT !.compressed = Lzma2Bound(Len(in)), !.uncompressed = Len(in)]
  IN CASE ~Supported(check) -> Refused("UNSUPPORTED_CHECK")
       [] Supported(check) /\ left <= 0 -> Refused("BUF_ERROR")
       [] Supported(check) /\ left > 0 /\ b.compressed = 0 -> Refused("DATA_ERROR")
       [] OTHER -> With(IF try_to_compress THEN EncodeNormal(b, in, left) ELSE Refused("BUF_ERROR"), LAMBDA r :
                     CASE r.ret = "OK" -> Closed(r, in)
                       [] r.ret = "BUF_ERROR" -> With(EncodeUncompressed(b, in, left), LAMBDA u :
                                                   IF u.ret = "OK" THEN Closed(u, in) ELSE u)
                       [] OTHER -> r)

(* What a decoder that has stopped without an error says: the input ended  *)
(* too early, or the room did.                                             *)
StoppedFor(in, r) ==
  CASE r.ret = "STREAM_END" -> [ret |-> "OK", used |-> r.used, out |-> r.out]
    [] r.ret = "OK" -> Refused(IF r.used = Len(in) THEN "DATA_ERROR" ELSE "BUF_ERROR")
    [] OTHER -> Refused(r.ret)
(* The header in front of it has been decoded by the application.          *)
BlockBufferDecode(b, in, room) == StoppedFor(in, BlockDecode(BlockDecoderInit(b, FALSE), in, room, "FINISH"))

(* --- Stream ---                                                          *)
EmptyStream == [ret |-> "OK", out |-> <<>>]
StreamBufferEncode(filters, check, in, room) ==
  CASE ~Supported(check) -> Refused("UNSUPPORTED_CHECK")
    [] Supported(check) /\ room <= 2 * HeaderSize -> Refused("BUF_ERROR")
    [] OTHER ->
         With(IF in = <<>> THEN EmptyStream
              ELSE BlockBufferEncode(filters, check, in, room - 2 * HeaderSize, TRUE), LAMBDA r :
           IF r.ret # "OK" THEN r
           ELSE With(IF in = <<>> THEN [ret |-> "OK", index |-> IndexInit]
                     ELSE AppendBlock(IndexInit, UnpaddedSize(r.b), r.b.uncompressed), LAMBDA a :
             LET size == IndexSize(a.index.record_count, a.index.list_size)
             IN CASE a.ret # "OK" -> Refused(a.ret)
                  [] a.ret = "OK" /\ room - 2 * HeaderSize - Len(r.out) < size -> Refused("BUF_ERROR")
                  [] OTHER -> [ret |-> "OK", out |-> HeaderBytes(check) \o r.out \o IndexBytes(a.index)
                                                       \o FooterBytes(check, size)]))

(* memlimit becomes what is needed when it was too little.                 *)
StreamBufferDecode(memlimit, flags, in, room) ==
  IF "TELL_ANY_CHECK" \in flags THEN Refused("PROG_ERROR") @@ [memlimit |-> memlimit]
  ELSE With(StreamDecode(StreamDecoderInit(memlimit, flags), in, room, "FINISH"), LAMBDA r :
         StoppedFor(in, r) @@ [memlimit |-> IF r.ret = "MEMLIMIT_ERROR" THEN r.c.memusage ELSE memlimit])

(* --- filters alone ---                                                   *)
RawBufferEncode(filters, in, room) ==
  With(RawEncoderInit(filters, NoFilter), LAMBDA i : IF i.ret # "OK" THEN Refused(i.ret) ELSE
    With(LzEncode(i.k, in, room, "FINISH"), LAMBDA r :
      CASE r.ret = "STREAM_END" -> [ret |-> "OK", out |-> r.out]
        [] r.ret = "OK" -> Refused("BUF_ERROR")
        [] OTHER -> Refused(r.ret)))

(* With all the input used and the room full, one more byte tells which    *)
(* of the two was too little.                                              *)
RawBufferDecode(filters, in, room) ==
  With(ChainDecode(RawChain(filters), in, room, "FINISH"), LAMBDA r :
    CASE r.ret = "OK" /\ r.used = Len(in) /\ Len(r.out) = room ->
           With(ChainDecode(r.c, <<>>, 1, "FINISH"), LAMBDA more :
             Refused(IF Len(more.out) = 1 THEN "BUF_ERROR" ELSE "DATA_ERROR"))
      [] OTHER -> StoppedFor(in, r))
=============================================================================
