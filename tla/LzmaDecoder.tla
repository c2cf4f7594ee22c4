----------------------------- MODULE LzmaDecoder -----------------------------
(***************************************************************************)
(* The LZ decoder: the dictionary, LZMA and the chunks of LZMA2            *)
(* (src/original/src/liblzma/lz/lz_decoder.c, lz_decoder.h,                *)
(* lzma/lzma_decoder.c, lzma/lzma2_decoder.c).                             *)
(***************************************************************************)
EXTENDS LzmaEncoder

CONSTANTS Bytes,        \* bytes are 0 .. Bytes - 1
          DictMin,      \* the least dictionary of the decoder (4096)
          DictUnit      \* sizes of dictionaries are multiples of it (16)

ASSUME BytesAssumption == Bytes \in Nat \ {0, 1}
ASSUME DictAssumption == {DictMin, DictUnit} \subseteq Nat \ {0}

Least(x, y) == IF x < y THEN x ELSE y
Coded(c, used, out, ret) == [c |-> c, used |-> used, out |-> out, ret |-> ret]
PropsMax == 3      \* of the values of lc, lp and pb
Garbage == 9       \* what was never written

(* --- the dictionary ---                                                  *)
RoundedDict(size) == LET s == IF size < DictMin THEN DictMin ELSE size
                     IN ((s + DictUnit - 1) \div DictUnit) * DictUnit
DictReset(d) == [d EXCEPT !.pos = 0, !.full = 0, !.buf[d.size] = 0, !.need_reset = FALSE]
DictInit(size) == DictReset([buf |-> [k \in 1 .. size |-> Garbage], pos |-> 0, full |-> 0, limit |-> 0,
                             size |-> size, need_reset |-> FALSE])

DictGet(d, dist) == d.buf[d.pos - dist + (IF dist < d.pos THEN 0 ELSE d.size)]
DictHas(d, dist) == d.full > dist
DictFull(d) == d.pos = d.limit
DictPut(d, byte) == [d EXCEPT !.buf[d.pos + 1] = byte, !.pos = @ + 1,
                              !.full = IF d.pos + 1 > @ THEN d.pos + 1 ELSE @]
DictRepeat(d, dist, len) == Times(Least(len, d.limit - d.pos), LAMBDA x : DictPut(x, DictGet(x, dist)), d)
DictWrite(d, bytes) == Fold(DictPut, d, bytes)

-----------------------------------------------------------------------------
(* --- LZMA ---                                                            *)
LzmaDecoderReset(l, props) == [l EXCEPT !.state = 0, !.adapted = 7 * props, !.reps = <<0, 0, 0, 0>>, !.seq = "IS_MATCH"]
Unknown == Unlimited      \* uncompressed_size = LZMA_VLI_UNKNOWN
LzmaDecoderInit(size, allow_eopm, props) ==
  LzmaDecoderReset([state |-> 0, adapted |-> 0, reps |-> <<>>, seq |-> "IS_MATCH", symbol |-> 0, len |-> 0,
                    uncompressed |-> size, allow_eopm |-> allow_eopm], props)

(* What the range decoder makes of a byte, which is noise if it was coded  *)
(* in another state.                                                       *)
SymbolOf(l, byte) == byte - 1000 * l.state - 12000 * (l.adapted % 50)
Known(s) == s \in 0 .. 49 \cup 200 .. 300 + EndDist \cup 400 .. 949
Read(l, byte) == IF Known(SymbolOf(l, byte)) THEN SymbolOf(l, byte) ELSE byte % Bytes

(* x is [l, d, used, ret, done, eopm_valid, might_finish]. Leaving the     *)
(* loop for lack of input or of room keeps where it was.                   *)
Out(x, seq) == [x EXCEPT !.l.seq = seq, !.done = TRUE]
Fails(x) == [x EXCEPT !.ret = "DATA_ERROR", !.done = TRUE]
Again(x) == [x EXCEPT !.l.seq = "IS_MATCH"]

WriteLiteral(x) == IF DictFull(x.d) THEN Out(x, "LITERAL_WRITE")
                   ELSE Again([x EXCEPT !.d = DictPut(@, x.l.symbol)])
WriteShortRep(x) == IF DictFull(x.d) THEN Out(x, "SHORTREP")
                    ELSE Again([x EXCEPT !.d = DictPut(@, DictGet(x.d, x.l.reps[1]))])
WriteCopy(x) ==
  LET left == x.l.len - (x.d.limit - x.d.pos)
      y == [x EXCEPT !.d = DictRepeat(@, x.l.reps[1], x.l.len), !.l.len = IF left > 0 THEN left ELSE 0]
  IN IF left > 0 THEN Out(y, "COPY") ELSE Again(y)

TakeLiteral(x, symbol) ==
  LET match == IF IsLiteralState(x.l.state) THEN 0 ELSE DictGet(x.d, x.l.reps[1])
  IN WriteLiteral([x EXCEPT !.l.symbol = (symbol - 10 * (symbol \div 10) + match - symbol \div 10) % Bytes,
                            !.l.state = UpdateLiteral(@)])
TakeRep(x, len, rep) ==
  LET y == [x EXCEPT !.l.state = IF len = 1 THEN UpdateShortRep(@) ELSE UpdateLongRep(@),
                     !.l.reps = RepsAfter(@, rep), !.l.len = len]
  IN CASE ~DictHas(x.d, 0) -> Fails(x)
       [] DictHas(x.d, 0) /\ len = 1 -> WriteShortRep(y)
       [] DictHas(x.d, 0) /\ len > 1 -> WriteCopy(y)

EndMarker(x, byte) == [x EXCEPT !.ret = IF byte = FlushSymbol THEN "STREAM_END" ELSE "DATA_ERROR",
                                !.done = TRUE, !.used = @ + 1]
TakeDist(x, dist) ==
  LET y == [x EXCEPT !.l.state = UpdateMatch(@), !.l.reps = RepsAfter(@, dist + REPS)]
  IN CASE dist = EndDist -> IF x.eopm_valid THEN [y EXCEPT !.l.seq = "EOPM"] ELSE Fails(y)
       [] dist # EndDist /\ ~DictHas(x.d, dist) -> Fails(y)
       [] OTHER -> WriteCopy(y)

Took1(x) == [x EXCEPT !.used = @ + 1, !.l.adapted = @ + 1]
TakeSymbol(x, symbol) ==
  CASE symbol < 200 -> TakeLiteral(x, symbol)
    [] symbol \in 200 .. 299 -> [x EXCEPT !.l.len = symbol - 200, !.l.seq = "DIST"]
    [] symbol \in 300 .. 399 -> TakeLiteral(x, 0)
    [] symbol >= 400 -> TakeRep(x, (symbol - 400) \div 10, (symbol - 400) % 10)

AtEnd(x) == x.might_finish /\ x.d.pos = x.d.limit
LzmaStep(x, in) ==
  LET more == x.used < Len(in)
      byte == in[x.used + 1]
      symbol == Read(x.l, byte)
  IN CASE x.l.seq = "LITERAL_WRITE" -> WriteLiteral(x)
       [] x.l.seq = "SHORTREP" -> WriteShortRep(x)
       [] x.l.seq = "COPY" -> WriteCopy(x)
       [] x.l.seq = "EOPM" -> IF more THEN EndMarker(x, byte) ELSE Out(x, "EOPM")
       [] x.l.seq = "DIST" -> IF more THEN TakeDist(Took1(x), IF symbol \in 300 .. 399 THEN symbol - 300 ELSE 0)
                              ELSE Out(x, "DIST")
       [] x.l.seq \in {"NORMALIZE", "IS_MATCH"} /\ AtEnd(x) ->
            CASE ~more -> Out(x, "NORMALIZE")
              [] more /\ byte = FlushSymbol -> EndMarker(x, byte)
              [] more /\ byte # FlushSymbol /\ ~x.l.allow_eopm -> Fails(x)
              [] OTHER -> TakeSymbol(Took1([x EXCEPT !.eopm_valid = TRUE]), symbol)
       [] x.l.seq \in {"NORMALIZE", "IS_MATCH"} /\ ~AtEnd(x) ->
            IF more THEN TakeSymbol(Took1(x), symbol) ELSE Out(x, "IS_MATCH")

PastTheEnd(l, ret) == l.uncompressed = 0 /\ ret = "OK" /\ l.seq \in {"LITERAL_WRITE", "SHORTREP", "COPY"}

LzmaDecode(l, d, in) ==
  LET finish == l.uncompressed # Unknown /\ l.uncompressed <= d.limit - d.pos
      begun == [l |-> l, d |-> IF finish THEN [d EXCEPT !.limit = d.pos + l.uncompressed] ELSE d, used |-> 0,
                ret |-> "OK", done |-> FALSE, eopm_valid |-> l.uncompressed = Unknown, might_finish |-> finish]
  IN With(Loop(LAMBDA x : LzmaStep(x, in), begun), LAMBDA x :
       LET left == IF l.uncompressed = Unknown THEN Unknown ELSE l.uncompressed - (x.d.pos - d.pos)
           after == [x.l EXCEPT !.uncompressed = left]
       IN [l |-> IF x.ret = "STREAM_END" THEN [after EXCEPT !.seq = "IS_MATCH"] ELSE after,
           d |-> [x.d EXCEPT !.limit = d.limit], used |-> x.used,
           ret |-> IF PastTheEnd(after, x.ret) THEN "DATA_ERROR" ELSE x.ret])

-----------------------------------------------------------------------------
(* --- LZMA2 ---                                                           *)
Lzma2DecoderInit ==
  [seq |-> "CONTROL", next |-> "CONTROL", lzma |-> LzmaDecoderInit(Unknown, TRUE, 0), uncompressed |-> 0,
   compressed |-> 0, need_properties |-> TRUE, need_dict |-> TRUE, props |-> 0]

(* w is [z, d, used, ret, done].                                           *)
BadControl(z, control) ==
  \/ control \notin {0, 1, 2} /\ control < 128
  \/ control \in 2 .. 223 /\ z.need_dict
  \/ control \in 128 .. 191 /\ (z.need_properties \/ z.need_dict)

Lzma2Control(w, control) ==
  LET all == control >= 224 \/ control = 1
      z == [w.z EXCEPT !.need_dict = FALSE,
                       !.need_properties = IF control >= 192 THEN FALSE ELSE IF control = 1 THEN TRUE ELSE @,
                       !.seq = IF control >= 128 THEN "UNCOMPRESSED" ELSE "COMPRESSED",
                       !.next = CASE control >= 192 -> "PROPERTIES"
                                  [] control \in 128 .. 191 -> "LZMA"
                                  [] OTHER -> "COPY",
                       !.lzma = IF control \in 160 .. 191 THEN LzmaDecoderReset(@, w.z.props) ELSE @]
      y == [w EXCEPT !.used = @ + 1]
  IN CASE control = 0 -> [y EXCEPT !.ret = "STREAM_END", !.done = TRUE]
       [] control # 0 /\ BadControl(w.z, control) -> Fails(y)
       [] OTHER -> [y EXCEPT !.z = z, !.d.need_reset = all, !.done = all]

Lzma2Lzma(w, in) ==
  With(LzmaDecode(w.z.lzma, w.d, SubSeq(in, w.used + 1, Len(in))), LAMBDA r :
    LET z == [w.z EXCEPT !.lzma = r.l, !.compressed = @ - r.used]
        y == [w EXCEPT !.z = z, !.d = r.d, !.used = @ + r.used]
    IN CASE r.used > w.z.compressed -> Fails(y)
         [] r.used <= w.z.compressed /\ r.ret # "STREAM_END" -> [y EXCEPT !.ret = r.ret, !.done = TRUE]
         [] OTHER -> IF z.compressed # 0 THEN Fails(y) ELSE [y EXCEPT !.z.seq = "CONTROL"])

Lzma2Copied(w, in) ==
  LET n == Least(Least(w.z.compressed, Len(in) - w.used), w.d.limit - w.d.pos)
      y == [w EXCEPT !.d = DictWrite(@, SubSeq(in, w.used + 1, w.used + n)), !.used = @ + n,
                     !.z.compressed = @ - n]
  IN IF n < w.z.compressed THEN [y EXCEPT !.done = TRUE] ELSE [y EXCEPT !.z.seq = "CONTROL"]

PropsBad(byte) == byte > PropsMax
Lzma2Step(w, in) ==
  LET byte == in[w.used + 1]
      y == [w EXCEPT !.used = @ + 1]
  IN CASE w.z.seq = "LZMA" -> Lzma2Lzma(w, in)
       [] w.z.seq # "LZMA" /\ w.used >= Len(in) -> [w EXCEPT !.done = TRUE]
       [] OTHER ->
            CASE w.z.seq = "CONTROL" -> Lzma2Control(w, byte)
              [] w.z.seq = "UNCOMPRESSED" ->
                   [y EXCEPT !.z.seq = "COMPRESSED", !.z.uncompressed = byte + 1,
                             !.z.lzma = [@ EXCEPT !.uncompressed = byte + 1, !.allow_eopm = FALSE]]
              [] w.z.seq = "COMPRESSED" -> [y EXCEPT !.z.compressed = byte + 1, !.z.seq = w.z.next]
              [] w.z.seq = "PROPERTIES" ->
                   IF PropsBad(byte) THEN Fails(y)
                   ELSE [y EXCEPT !.z = [@ EXCEPT !.props = byte, !.lzma = LzmaDecoderReset(@, byte), !.seq = "LZMA"]]
              [] w.z.seq = "COPY" -> Lzma2Copied(w, in)

Lzma2Decode(z, d, in) ==
  Loop(LAMBDA w : Lzma2Step(w, in), [z |-> z, d |-> d, used |-> 0, ret |-> "OK", done |-> FALSE])
Lzma1Decode(l, d, in) ==
  With(LzmaDecode(l, d, in), LAMBDA r : [z |-> r.l, d |-> r.d, used |-> r.used, ret |-> r.ret])

-----------------------------------------------------------------------------
(* --- the LZ coder ---                                                    *)
LzDecoderInit(coder, lzma2, dict) == [z |-> coder, lzma2 |-> lzma2, d |-> DictInit(RoundedDict(dict))]

(* v is [k, used, out, ret, done]: the dictionary is a ring, and what is   *)
(* decoded into it is copied out before it is overwritten.                 *)
DecodeBuffer(v, in, room) ==
  LET wrapped == [v.k.d EXCEPT !.pos = IF @ = v.k.d.size THEN 0 ELSE @]
      d == [wrapped EXCEPT !.limit = wrapped.pos + Least(room - Len(v.out), wrapped.size - wrapped.pos)]
      left == SubSeq(in, v.used + 1, Len(in))
  IN With(IF v.k.lzma2 THEN Lzma2Decode(v.k.z, d, left) ELSE Lzma1Decode(v.k.z, d, left), LAMBDA r :
       LET out == v.out \o SubSeq(r.d.buf, d.pos + 1, r.d.pos)
           stop == r.ret # "OK" \/ Len(out) = room
       IN [k |-> [v.k EXCEPT !.z = r.z, !.d = IF r.d.need_reset THEN DictReset(r.d) ELSE r.d],
           used |-> v.used + r.used, out |-> out, ret |-> r.ret,
           done |-> stop \/ (~r.d.need_reset /\ r.d.pos < r.d.size)])

(* Last in the chain, as LZMA always is.                                   *)
LzDecode(k, in, room, action) ==
  With(Loop(LAMBDA v : DecodeBuffer(v, in, room), [k |-> k, used |-> 0, out |-> <<>>, ret |-> "OK", done |-> FALSE]),
       LAMBDA v : Coded(v.k, v.used, v.out, v.ret))
=============================================================================
