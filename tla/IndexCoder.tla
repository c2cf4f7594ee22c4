----------------------------- MODULE IndexCoder -----------------------------
(***************************************************************************)
(* The Index field as bytes: its encoder, its decoder and the hash that    *)
(* checks it without storing it. Each works through whatever piece of a    *)
(* buffer a call brings and goes on from there in the next               *)
(* (src/original/src/liblzma/common/index_encoder.c, index_decoder.c,      *)
(* index_hash.c, vli_encoder.c, vli_decoder.c).                            *)
(***************************************************************************)
EXTENDS LzmaIndex

(* A CRC32 tells sequences of bytes apart; its four bytes are like no      *)
(* others.                                                                 *)
Crc(crc, byte) == (31 * crc + byte + 7) % 4093
CrcByte(crc, k) == 1000 + 4 * crc + k
CrcOver(crc, bytes) == Fold(Crc, crc, bytes)

(* One byte of a variable-length integer: the digit, and whether more come. *)
VliByte(v, pos) == LET rest == v \div VliBase^pos
                   IN IF rest >= VliBase THEN VliBase + (rest % VliBase) ELSE rest
VliEnds(byte) == byte < VliBase

(* What lzma_vli_decode makes of the next byte.                            *)
VliDecode(v, pos, byte) ==
  LET sum == (IF pos = 0 THEN 0 ELSE v) + (byte % VliBase) * VliBase^pos
  IN [value |-> sum,
      pos   |-> IF VliEnds(byte) THEN 0 ELSE pos + 1,
      ret   |-> CASE VliEnds(byte) /\ byte = 0 /\ pos > 0              -> "DATA_ERROR"
                  [] VliEnds(byte) /\ ~(byte = 0 /\ pos > 0)           -> "STREAM_END"
                  [] ~VliEnds(byte) /\ pos + 1 = VliBytesMax           -> "DATA_ERROR"
                  [] OTHER                                            -> "OK"]

-----------------------------------------------------------------------------
(* The encoder. It writes byte by byte; between two bytes it may move to   *)
(* the next Record.                                                        *)
EncoderReset == [seq |-> "INDICATOR", iter |-> RewoundIter, at |-> <<0, 0, 0>>, pos |-> 0, crc |-> 0]

(* Everything that takes no byte: the next Record, or the padding.         *)
Prepared(c, i) ==
  LET next == NextPosition(i, c.iter, "BLOCK")
  IN CASE c.seq = "NEXT" /\ next[1] # 0 ->
            [c EXCEPT !.seq = "UNPADDED", !.at = next, !.iter = Keep(i, next[1], next[2], next[3])]
       [] c.seq = "NEXT" /\ next[1] = 0 /\ PaddingSize(i) = 0 ->
            [c EXCEPT !.seq = "CRC32", !.pos = 0]
       [] c.seq = "NEXT" /\ next[1] = 0 /\ PaddingSize(i) > 0 ->
            [c EXCEPT !.seq = "PADDING", !.pos = PaddingSize(i)]
       [] c.seq = "PADDING" /\ c.pos = 0 -> [c EXCEPT !.seq = "CRC32"]
       [] OTHER -> c

SizeAt(c, i) == CASE c.seq = "COUNT"        -> i.record_count
                  [] c.seq = "UNPADDED"     -> BlockInfo(i, c.at).unpadded_size
                  [] c.seq = "UNCOMPRESSED" -> BlockInfo(i, c.at).uncompressed_size

After == [COUNT |-> "NEXT", UNPADDED |-> "UNCOMPRESSED", UNCOMPRESSED |-> "NEXT"]

Written(e, byte) == [e EXCEPT !.bytes = Append(@, byte), !.c.crc = Crc(@, byte)]

(* e is [c, bytes, ret]; c is prepared.                                    *)
EncodeByte(e, i) ==
  LET c == e.c IN
  CASE c.seq = "INDICATOR" -> [Written(e, 0) EXCEPT !.c.seq = "COUNT"]
    [] c.seq \in {"COUNT", "UNPADDED", "UNCOMPRESSED"} ->
         With(VliByte(SizeAt(c, i), c.pos), LAMBDA byte :
           [Written(e, byte) EXCEPT !.c.pos = IF VliEnds(byte) THEN 0 ELSE @ + 1,
                                    !.c.seq = IF VliEnds(byte) THEN After[@] ELSE @])
    [] c.seq = "PADDING" -> [Written(e, 0) EXCEPT !.c.pos = @ - 1]
    [] c.seq = "CRC32"   -> [e EXCEPT !.bytes = Append(@, CrcByte(c.crc, c.pos)), !.c.pos = @ + 1,
                                      !.ret = IF c.pos = 3 THEN "STREAM_END" ELSE "OK"]

(* One call with room for so many bytes.                                   *)
IndexEncode(c, i, room) ==
  Times(room, LAMBDA e : IF e.ret = "STREAM_END" THEN e
                         ELSE EncodeByte([e EXCEPT !.c = Prepared(@, i)], i),
        [c |-> c, bytes |-> <<>>, ret |-> "OK"])

IndexBytes(i) == IndexEncode(EncoderReset, i, IndexSize(i.record_count, i.list_size)).bytes

-----------------------------------------------------------------------------
(* The decoder builds an lzma_index. seen runs ahead of crc within a call. *)
DecoderReset(memlimit) ==
  [seq |-> "INDICATOR", memlimit |-> IF memlimit = 0 THEN 1 ELSE memlimit, index |-> IndexInit,
   count |-> 0, unpadded |-> 0, uncompressed |-> 0, pos |-> 0, crc |-> 0, seen |-> 0]

Failed(d, r) == [d EXCEPT !.ret = r]
OutOfMemory(c) == MemUsage(1, c.count) > c.memlimit
Announced(c) == [c EXCEPT !.index = Prealloc(@, c.count),
                          !.seq = IF c.count = 0 THEN "PADDING_INIT" ELSE "UNPADDED"]

(* SEQ_MEMUSAGE: reached from the count, and again when the application    *)
(* comes back with a higher limit.                                         *)
CheckMemory(d) == IF OutOfMemory(d.c) THEN Failed(d, "MEMLIMIT_ERROR")
                  ELSE [d EXCEPT !.c = Announced(@)]

PaddingSettled(d) ==
  CASE d.c.seq = "PADDING_INIT" ->
         IF PaddingSize(d.c.index) = 0 THEN [d EXCEPT !.c.seq = "CRC32", !.c.pos = 0, !.c.crc = d.c.seen]
         ELSE [d EXCEPT !.c.seq = "PADDING", !.c.pos = PaddingSize(d.c.index)]
    [] d.c.seq = "PADDING" /\ d.c.pos = 0 -> [d EXCEPT !.c.seq = "CRC32", !.c.crc = d.c.seen]
    [] OTHER -> d

Settled(d) == IF d.c.seq = "MEMUSAGE" THEN With(CheckMemory(d), PaddingSettled)
              ELSE PaddingSettled(d)

Took(d, byte) == [d EXCEPT !.used = @ + 1, !.c.seen = Crc(@, byte)]

TakeCount(d, v) ==
  LET c == [d.c EXCEPT !.count = v.value, !.pos = v.pos] IN
  IF v.ret = "STREAM_END" THEN CheckMemory([d EXCEPT !.c = [c EXCEPT !.seq = "MEMUSAGE"]])
  ELSE [d EXCEPT !.c = c, !.ret = v.ret]

TakeUnpadded(d, v) ==
  LET c == [d.c EXCEPT !.unpadded = v.value, !.pos = v.pos] IN
  CASE v.ret # "STREAM_END" -> [d EXCEPT !.c = c, !.ret = v.ret]
    [] v.ret = "STREAM_END" /\ v.value \notin UnpaddedMin .. UnpaddedMax -> Failed(d, "DATA_ERROR")
    [] OTHER -> [d EXCEPT !.c = [c EXCEPT !.seq = "UNCOMPRESSED"]]

TakeUncompressed(d, v) ==
  LET c == [d.c EXCEPT !.uncompressed = v.value, !.pos = v.pos] IN
  IF v.ret # "STREAM_END" THEN [d EXCEPT !.c = c, !.ret = v.ret]
  ELSE With(AppendBlock(c.index, c.unpadded, v.value), LAMBDA r :
         IF r.ret # "OK" THEN Failed(d, r.ret)
         ELSE [d EXCEPT !.c = [c EXCEPT !.index = r.index, !.count = @ - 1,
                                        !.seq = IF c.count = 1 THEN "PADDING_INIT" ELSE "UNPADDED"]])

DecodeByte(d, byte) ==
  LET c == d.c
      t == Took(d, byte)
  IN CASE c.seq = "INDICATOR" -> IF byte = 0 THEN [t EXCEPT !.c.seq = "COUNT"]
                                 ELSE Failed(t, "DATA_ERROR")
       [] c.seq = "COUNT"        -> TakeCount(t, VliDecode(c.count, c.pos, byte))
       [] c.seq = "UNPADDED"     -> TakeUnpadded(t, VliDecode(c.unpadded, c.pos, byte))
       [] c.seq = "UNCOMPRESSED" -> TakeUncompressed(t, VliDecode(c.uncompressed, c.pos, byte))
       [] c.seq = "PADDING" -> IF byte = 0 THEN [t EXCEPT !.c.pos = @ - 1]
                               ELSE Failed(t, "DATA_ERROR")
       [] c.seq = "CRC32"   -> IF byte # CrcByte(c.crc, c.pos) THEN Failed(t, "DATA_ERROR")
                               ELSE [t EXCEPT !.c.pos = @ + 1,
                                              !.ret = IF c.pos = 3 THEN "STREAM_END" ELSE "OK"]

(* The way out of a call: what it read enters the CRC32.                   *)
LeaveOnlyWhenFine(d) ==
  IF d.c.seq = "CRC32" \/ d.ret = "MEMLIMIT_ERROR" THEN d ELSE [d EXCEPT !.c.crc = d.c.seen]
Leave(d) == IF d.c.seq = "CRC32" THEN d ELSE [d EXCEPT !.c.crc = d.c.seen]

Going(d) == d.ret = "OK"
IndexDecode(c, bytes) ==
  Leave(Fold(LAMBDA d, byte : IF ~Going(d) THEN d
                              ELSE With(Settled(d), LAMBDA s : IF Going(s) THEN DecodeByte(s, byte) ELSE s),
             [c |-> [c EXCEPT !.seen = c.crc], used |-> 0, ret |-> "OK"], bytes))

IndexMemconfig(c, limit) ==
  IF limit < MemUsage(1, c.count) THEN [c |-> c, ret |-> "MEMLIMIT_ERROR"]
  ELSE [c |-> [c EXCEPT !.memlimit = limit], ret |-> "OK"]

-----------------------------------------------------------------------------
(* The hash keeps sums of the Blocks decoded and of the Records read, and  *)
(* a digest of each list.                                                  *)
NoSums == [blocks_size |-> 0, uncompressed |-> 0, count |-> 0, list_size |-> 0, digest |-> 0]
HashInit == [seq |-> "BLOCK", blocks |-> NoSums, records |-> NoSums, remaining |-> 0,
             unpadded |-> 0, uncompressed |-> 0, pos |-> 0, crc |-> 0, seen |-> 0]

HashSize(h) == IndexSize(h.blocks.count, h.blocks.list_size)

Summed(info, unpadded, uncompressed) ==
  [blocks_size |-> info.blocks_size + Ceil4(unpadded), count |-> info.count + 1,
   uncompressed |-> info.uncompressed + uncompressed,
   list_size |-> info.list_size + VliSize(unpadded) + VliSize(uncompressed),
   digest |-> CrcOver(info.digest, <<unpadded, uncompressed>>)]

HashAppend(h, unpadded, uncompressed) ==
  LET sums == Summed(h.blocks, unpadded, uncompressed)
      fits == /\ sums.blocks_size <= VliMax /\ sums.uncompressed <= VliMax
              /\ IndexSize(sums.count, sums.list_size) <= BackwardMax
              /\ StreamSize(sums.blocks_size, sums.count, sums.list_size) <= VliMax
  IN IF \/ h.seq # "BLOCK" \/ unpadded \notin UnpaddedMin .. UnpaddedMax \/ uncompressed > VliMax
     THEN [h |-> h, ret |-> "PROG_ERROR"]
     ELSE [h |-> [h EXCEPT !.blocks = sums], ret |-> IF fits THEN "OK" ELSE "DATA_ERROR"]

HashPadding(h) == (4 - IndexSizeUnpadded(h.records.count, h.records.list_size)) % 4
SumsMatch(h) == h.blocks = h.records
TooMuch(h) == \/ h.blocks.blocks_size < h.records.blocks_size
              \/ h.blocks.uncompressed < h.records.uncompressed
              \/ h.blocks.list_size < h.records.list_size

(* The comparison stands between the last padding byte and the CRC32.      *)
HashSettled(d) ==
  LET h == IF d.c.seq = "PADDING_INIT" THEN [d.c EXCEPT !.seq = "PADDING", !.pos = HashPadding(d.c)]
           ELSE d.c
  IN CASE h.seq # "PADDING" \/ h.pos > 0 -> [d EXCEPT !.c = h]
       [] h.seq = "PADDING" /\ h.pos = 0 /\ ~SumsMatch(h) -> Failed(d, "DATA_ERROR")
       [] OTHER -> [d EXCEPT !.c = [h EXCEPT !.seq = "CRC32", !.crc = h.seen]]

HashCount(d, v) ==
  LET h == [d.c EXCEPT !.remaining = v.value, !.pos = v.pos] IN
  CASE v.ret # "STREAM_END" -> [d EXCEPT !.c = h, !.ret = v.ret]
    [] v.ret = "STREAM_END" /\ v.value # h.blocks.count -> Failed(d, "DATA_ERROR")
    [] OTHER -> [d EXCEPT !.c = [h EXCEPT !.seq = IF v.value = 0 THEN "PADDING_INIT" ELSE "UNPADDED"]]

HashUncompressed(d, v) ==
  LET read == [d.c EXCEPT !.uncompressed = v.value, !.pos = v.pos]
      h == [read EXCEPT !.records = Summed(@, read.unpadded, v.value), !.remaining = @ - 1,
                        !.seq = IF read.remaining = 1 THEN "PADDING_INIT" ELSE "UNPADDED"]
  IN CASE v.ret # "STREAM_END" -> [d EXCEPT !.c = read, !.ret = v.ret]
       [] v.ret = "STREAM_END" /\ TooMuch(h) -> Failed(d, "DATA_ERROR")
       [] OTHER -> [d EXCEPT !.c = h]

HashByte(d, byte) ==
  LET h == d.c
      t == Took(d, byte)
  IN CASE h.seq = "BLOCK" -> IF byte = 0 THEN [t EXCEPT !.c.seq = "COUNT"] ELSE Failed(t, "DATA_ERROR")
       [] h.seq = "COUNT"        -> HashCount(t, VliDecode(h.remaining, h.pos, byte))
       [] h.seq = "UNPADDED"     -> TakeUnpadded(t, VliDecode(h.unpadded, h.pos, byte))
       [] h.seq = "UNCOMPRESSED" -> HashUncompressed(t, VliDecode(h.uncompressed, h.pos, byte))
       [] h.seq = "PADDING" -> IF byte = 0 THEN [t EXCEPT !.c.pos = @ - 1] ELSE Failed(t, "DATA_ERROR")
       [] h.seq = "CRC32"   -> IF byte # CrcByte(h.crc, h.pos) THEN Failed(t, "DATA_ERROR")
                               ELSE [t EXCEPT !.c.pos = @ + 1,
                                              !.ret = IF h.pos = 3 THEN "STREAM_END" ELSE "OK"]

HashDecode(h, bytes) ==
  IF bytes = <<>> THEN [c |-> h, used |-> 0, ret |-> "BUF_ERROR"]
  ELSE Leave(Fold(LAMBDA d, byte : IF ~Going(d) THEN d
                    ELSE With(HashSettled(d), LAMBDA s : IF Going(s) THEN HashByte(s, byte) ELSE s),
                  [c |-> [h EXCEPT !.seen = h.crc], used |-> 0, ret |-> "OK"], bytes))
=============================================================================
