----------------------------- MODULE StreamFields -----------------------------
(***************************************************************************)
(* The fields of a Stream around its Blocks: Stream Header and Stream      *)
(* Footer, Block Header with its filter flags, and what a chain of filters *)
(* must be like (src/original/src/liblzma/common/stream_flags_*.c,         *)
(* block_header_*.c, block_util.c, filter_flags_*.c, filter_common.c).     *)
(* A field is a sequence of bytes.                                         *)
(***************************************************************************)
EXTENDS IndexCoder

CrcBytes(bytes) == With(CrcOver(0, bytes), LAMBDA crc : [k \in 1 .. 4 |-> CrcByte(crc, k - 1)])
Zeroes(n) == [k \in 1 .. n |-> 0]

(* Checks this build knows; an unknown one still has a size.               *)
CheckNo   == [none |-> 0, crc32 |-> 1, unknown |-> 2, crc64 |-> 4, sha256 |-> 10]
CheckSize == [none |-> 0, crc32 |-> 4, unknown |-> 4, crc64 |-> 8, sha256 |-> 32]
Supported(check) == check # "unknown"
CheckOf(no) == CHOOSE check \in DOMAIN CheckNo : CheckNo[check] = no
IsCheck(no) == \E check \in DOMAIN CheckNo : CheckNo[check] = no

(* --- Stream Header and Footer ---                                        *)
HeaderMagic == <<253, 55, 122, 88, 90, 0>>
FooterMagic == <<89, 90>>
FlagBytes(check) == <<0, CheckNo[check]>>
HeaderBytes(check) == HeaderMagic \o FlagBytes(check) \o CrcBytes(FlagBytes(check))
FooterBytes(check, backward) ==
  LET body == <<backward \div 4 - 1, 0, 0, 0>> \o FlagBytes(check)
  IN CrcBytes(body) \o body \o FooterMagic

BadFlags == "bad"
FlagsOf(ret, check, backward) == [ret |-> ret, check |-> check, backward |-> backward]
FlagsDecode(flags, backward) == IF flags[1] = 0 /\ IsCheck(flags[2]) THEN FlagsOf("OK", CheckOf(flags[2]), backward)
                                ELSE FlagsOf("OPTIONS_ERROR", BadFlags, 0)
HeaderDecode(in) ==
  CASE SubSeq(in, 1, 6) # HeaderMagic -> FlagsOf("FORMAT_ERROR", BadFlags, 0)
    [] SubSeq(in, 1, 6) = HeaderMagic /\ SubSeq(in, 9, 12) # CrcBytes(SubSeq(in, 7, 8)) ->
         FlagsOf("DATA_ERROR", BadFlags, 0)
    [] OTHER -> FlagsDecode(SubSeq(in, 7, 8), VliUnknown)
FooterDecode(in) ==
  CASE SubSeq(in, 11, 12) # FooterMagic -> FlagsOf("FORMAT_ERROR", BadFlags, 0)
    [] SubSeq(in, 11, 12) = FooterMagic /\ SubSeq(in, 1, 4) # CrcBytes(SubSeq(in, 5, 10)) ->
         FlagsOf("DATA_ERROR", BadFlags, 0)
    [] OTHER -> FlagsDecode(SubSeq(in, 9, 10), 4 * (in[5] + 1))

FlagsCompare(a, b) ==
  IF a.check # b.check \/ (VliUnknown \notin {a.backward, b.backward} /\ a.backward # b.backward)
  THEN "DATA_ERROR" ELSE "OK"

(* --- filters ---                                                         *)
(* A filter is [id, opt]: opt is the distance of Delta, the start offset   *)
(* of a BCJ filter, the dictionary of LZMA2.                               *)
FILTERS_MAX == 4
FilterReserved == (VliMax + 1) \div 2
FilterNo == [delta |-> 3, x86 |-> 4, powerpc |-> 5, ia64 |-> 6, arm |-> 7, armthumb |-> 8, sparc |-> 9, arm64 |-> 10,
             lzma2 |-> 33, lzma1 |-> FilterReserved + 1]
Branches == {"x86", "powerpc", "ia64", "arm", "armthumb", "sparc", "arm64"}
LastOnly == {"lzma1", "lzma2"}          \* these also change the size
DictBitsMax == 40

ValidateChain(filters) ==
  CASE filters = <<>> -> "PROG_ERROR"
    [] filters # <<>> /\ \E k \in DOMAIN filters : \/ filters[k].id \notin DOMAIN FilterNo
                                                   \/ k < Len(filters) /\ filters[k].id \in LastOnly -> "OPTIONS_ERROR"
    [] OTHER -> IF Len(filters) > FILTERS_MAX \/ Last(filters).id \notin LastOnly THEN "OPTIONS_ERROR" ELSE "OK"

Properties(f) == CASE f.id = "delta" -> <<f.opt - 1>>
                   [] f.id \in Branches -> IF f.opt = 0 THEN <<>> ELSE <<f.opt, 0, 0, 0>>
                   [] f.id = "lzma2" -> <<f.opt>>
VliBytes(v) == [k \in 1 .. VliSize(v) |-> VliByte(v, k - 1)]
FilterFlags(f) == VliBytes(FilterNo[f.id]) \o VliBytes(Len(Properties(f))) \o Properties(f)

(* LZMA1 has no place in a Block.                                          *)
Reserved(f) == f.id = "lzma1"
Encodable(f) == f.id \in DOMAIN FilterNo \ {"lzma1"}

(* lzma_vli_decode in one go: [ret, value, pos].                           *)
VliAt(in, pos) ==
  LET ends == {n \in 1 .. VliBytesMax : pos + n <= Len(in) /\ VliEnds(in[pos + n])}
      n == CHOOSE m \in ends : \A k \in ends : m <= k
  IN IF ends = {} \/ (n > 1 /\ in[pos + n] = 0) THEN [ret |-> "DATA_ERROR", value |-> 0, pos |-> pos]
     ELSE [ret |-> "OK", pos |-> pos + n,
           value |-> Total([k \in 1 .. n |-> (in[pos + k] % VliBase) * VliBase^(k - 1)], LAMBDA d : d)]

PropertiesDecode(no, props) ==
  LET Option(ok, id, opt) == IF ok THEN [ret |-> "OK", id |-> id, opt |-> opt]
                             ELSE [ret |-> "OPTIONS_ERROR", id |-> id, opt |-> 0]
      First == IF props = <<>> THEN 0 ELSE props[1]
  IN CASE no = FilterNo.delta -> Option(Len(props) = 1, "delta", First + 1)
       [] \E id \in Branches : no = FilterNo[id] ->
            Option(Len(props) \in {0, 4}, CHOOSE id \in Branches : no = FilterNo[id], First)
       [] no = FilterNo.lzma2 -> Option(Len(props) = 1 /\ First <= DictBitsMax, "lzma2", First)
       [] OTHER               -> Option(FALSE, "none", 0)

(* f is [ret, pos, filters].                                               *)
FilterFlagsDecode(f, in) ==
  LET Fail(ret) == [f EXCEPT !.ret = ret] IN
  With(VliAt(in, f.pos), LAMBDA no :
    IF no.ret # "OK" \/ no.value >= FilterReserved THEN Fail("DATA_ERROR")
    ELSE With(VliAt(in, no.pos), LAMBDA size :
      IF size.ret # "OK" \/ Len(in) - size.pos < size.value THEN Fail("DATA_ERROR")
      ELSE With(PropertiesDecode(no.value, SubSeq(in, size.pos + 1, size.pos + size.value)), LAMBDA p :
        [ret |-> p.ret, pos |-> size.pos + size.value, filters |-> Append(f.filters, [id |-> p.id, opt |-> p.opt])])))

(* --- Block Header ---                                                    *)
(* b is [compressed, uncompressed, filters, header_size, check].           *)
BLOCK_HEADER_MAX == 64
HasSize(v) == v # VliUnknown
SizeBytes(v) == IF HasSize(v) THEN VliBytes(v) ELSE <<>>
FlagsBytes(filters) == FlattenSeq([k \in DOMAIN filters |-> FilterFlags(filters[k])])

BlockHeaderSize(b) ==
  LET size == 6 + Len(SizeBytes(b.compressed) \o SizeBytes(b.uncompressed) \o FlagsBytes(b.filters))
      Answer(ret, n) == [ret |-> ret, b |-> [b EXCEPT !.header_size = n]]
      bad == {k \in DOMAIN b.filters : ~Encodable(b.filters[k])}
  IN CASE b.compressed = 0 \/ b.filters = <<>> -> Answer("PROG_ERROR", b.header_size)
       [] b.compressed # 0 /\ bad # {} ->
            Answer(IF \A j \in bad : \E k \in bad : k <= j /\ Reserved(b.filters[k]) THEN "PROG_ERROR"
                   ELSE "OPTIONS_ERROR", b.header_size)
       [] OTHER -> IF Len(b.filters) > FILTERS_MAX THEN Answer("PROG_ERROR", b.header_size)
                   ELSE Answer("OK", Ceil4(size))

(* Sizes of a Block; 0 when the header says something that cannot be.      *)
UnpaddedSize(b) ==
  LET size == b.compressed + b.header_size + CheckSize[b.check]
  IN CASE b.header_size \notin {4 * k : k \in 2 .. BLOCK_HEADER_MAX \div 4} \/ b.compressed = 0 -> 0
       [] b.header_size \in {4 * k : k \in 2 .. BLOCK_HEADER_MAX \div 4} /\ b.compressed = VliUnknown -> VliUnknown
       [] OTHER -> IF size > UnpaddedMax THEN 0 ELSE size

BlockHeaderBytes(b) ==
  LET flags == (IF HasSize(b.compressed) THEN 64 ELSE 0) + (IF HasSize(b.uncompressed) THEN 128 ELSE 0)
                 + Len(b.filters) - 1
      fields == <<b.header_size \div 4 - 1, flags>> \o SizeBytes(b.compressed) \o SizeBytes(b.uncompressed)
                  \o FlagsBytes(b.filters)
      body == fields \o Zeroes(b.header_size - 4 - Len(fields))
  IN body \o CrcBytes(body)
HeaderSizeDecode(byte) == 4 * (byte + 1)

(* d is [ret, pos, b]: the sizes one after the other.                      *)
TakeSize(d, in, there, which) ==
  IF d.ret # "OK" \/ ~there THEN d
  ELSE With(VliAt(in, d.pos), LAMBDA v :
         [ret |-> v.ret, pos |-> v.pos,
          b |-> IF which = "compressed" THEN [d.b EXCEPT !.compressed = v.value]
                ELSE [d.b EXCEPT !.uncompressed = v.value]])
CompressedFits(d) == IF d.ret = "OK" /\ UnpaddedSize(d.b) = 0 THEN [d EXCEPT !.ret = "DATA_ERROR"] ELSE d

FiltersOf(d, in, count) ==
  With(Times(count, LAMBDA f : IF f.ret = "OK" THEN FilterFlagsDecode(f, in) ELSE f,
             [ret |-> d.ret, pos |-> d.pos, filters |-> <<>>]), LAMBDA f :
    [ret |-> IF f.ret = "OK" /\ \E k \in f.pos + 1 .. Len(in) : in[k] # 0 THEN "OPTIONS_ERROR" ELSE f.ret,
     b |-> [d.b EXCEPT !.filters = f.filters]])

BlockHeaderDecode(bytes, header_size, check) ==
  LET in == SubSeq(bytes, 1, header_size - 4)
      flags == in[2]
      begun == [ret |-> "OK", pos |-> 2,
                b |-> [compressed |-> VliUnknown, uncompressed |-> VliUnknown, filters |-> <<>>,
                       header_size |-> header_size, check |-> check]]
  IN CASE SubSeq(bytes, header_size - 3, header_size) # CrcBytes(in) -> [ret |-> "DATA_ERROR", b |-> begun.b]
       [] SubSeq(bytes, header_size - 3, header_size) = CrcBytes(in) /\ (flags \div 4) % 16 # 0 ->
            [ret |-> "OPTIONS_ERROR", b |-> begun.b]
       [] OTHER ->
            With(CompressedFits(TakeSize(begun, in, (flags \div 64) % 2 = 1, "compressed")), LAMBDA c :
              With(TakeSize(c, in, (flags \div 128) % 2 = 1, "uncompressed"), LAMBDA d :
                IF d.ret = "OK" THEN FiltersOf(d, in, (flags % 4) + 1) ELSE [ret |-> d.ret, b |-> d.b]))
=============================================================================
