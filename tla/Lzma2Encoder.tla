---------------------------- MODULE Lzma2Encoder ----------------------------
(***************************************************************************)
(* The LZ encoder around LZMA and LZMA2: the window that is filled and     *)
(* moved, LZMA that runs until a limit, and the chunks of LZMA2            *)
(* (src/original/src/liblzma/lz/lz_encoder.c, lzma/lzma_encoder.c,         *)
(* lzma/lzma2_encoder.c).                                                  *)
(***************************************************************************)
EXTENDS Filters

CONSTANTS DictSize,          \* options->dict_size
          Reserve,           \* what the window is larger than it must be
          Alignment,         \* to which the window is moved
          ChunkMax,          \* LZMA2_CHUNK_MAX
          UncompressedMax    \* LZMA2_UNCOMPRESSED_MAX

ASSUME WindowAssumption ==
  /\ {DictSize, Reserve, Alignment} \subseteq Nat \ {0}
  /\ ChunkMax > LOOP_INPUT_MAX + 1 /\ UncompressedMax >= MatchLenMax
  /\ MustNormalize > 2 * (DictSize + 1)

KeepBeforeLzma  == OPTS + DictSize
KeepBeforeLzma2 == IF KeepBeforeLzma < ChunkMax THEN ChunkMax ELSE KeepBeforeLzma
KeepAfter       == LOOP_INPUT_MAX + MatchLenMax
WindowSize(before) == before + Reserve + KeepAfter

(* --- the window ---                                                      *)
NeverSon(finder) == [k \in 0 .. 2 * DictSize + 1 |-> NeverRead]
Window(finder, before, son) ==
  [keep_before |-> before, size |-> WindowSize(before)]
    @@ MfInit(finder, DictSize, [k \in 1 .. WindowSize(before) |-> Garbage], son)

AlignDown(n) == n - (n % Alignment)
MoveOffset(mf) == AlignDown(mf.read_pos - mf.keep_before)
MoveWindow(mf) ==
  With(MoveOffset(mf), LAMBDA by :
    [mf EXCEPT !.buffer = [k \in DOMAIN @ |-> IF k + by <= mf.write_pos THEN @[k + by] ELSE @[k]],
               !.offset = @ + by, !.read_pos = @ - by, !.read_limit = @ - by, !.write_pos = @ - by])

Put(mf, bytes) ==
  [mf EXCEPT !.buffer = [k \in DOMAIN @ |-> IF k > mf.write_pos /\ k <= mf.write_pos + Len(bytes)
                                            THEN bytes[k - mf.write_pos] ELSE @[k]],
             !.write_pos = @ + Len(bytes)]

(* Bytes that could not be hashed are skipped again, now with all that     *)
(* follows them.                                                           *)
Pended(mf) == IF mf.pending > 0 /\ mf.read_pos < mf.read_limit
              THEN Skip([mf EXCEPT !.pending = 0, !.read_pos = @ - mf.pending], mf.pending) ELSE mf

LimitAfter(mf, ended) == CASE ended -> mf.write_pos
                           [] ~ended /\ mf.write_pos > KeepAfter -> mf.write_pos - KeepAfter
                           [] OTHER -> mf.read_limit

(* k is the coder: [mf, z, next, lzma2].                                   *)
FillWindow(k, in, action) ==
  With(IF k.mf.read_pos >= k.mf.size - KeepAfter THEN MoveWindow(k.mf) ELSE k.mf, LAMBDA moved :
    With(FilterEncode(k.next, in, moved.size - moved.write_pos, action), LAMBDA r :
      With(Put(moved, r.out), LAMBDA mf :
        LET ended == r.ret = "STREAM_END"
            limited == [mf EXCEPT !.action = IF ended THEN action ELSE @, !.read_limit = LimitAfter(mf, ended)]
        IN Coded([k EXCEPT !.mf = Pended(limited), !.next = r.c], r.used, <<>>,
                 IF ended THEN "OK" ELSE r.ret))))

-----------------------------------------------------------------------------
(* --- LZMA ---                                                            *)
(* x is [e, mf, out, ret, done]; out is what out[] holds up to out_pos.    *)
FlushedBy(symbols) == symbols # <<>> /\ Last(symbols) = FlushSymbol
RcEncode(x, size) ==
  LET n == Least(Len(x.e.rc), size - Len(x.out))
      left == SubSeq(x.e.rc, n + 1, Len(x.e.rc))
  IN [x EXCEPT !.out = @ \o SubSeq(x.e.rc, 1, n), !.e.rc = left,
               !.e.out_total = IF left = <<>> /\ FlushedBy(x.e.rc) THEN 0 ELSE @ + n]
RcFull(x) == x.e.rc # <<>>
RcPending == 1
RcEncodeDummy(e) == e.out_total + Len(e.rc) + 1 > e.out_limit
RcFlush(e) == [e EXCEPT !.rc = Append(@, FlushSymbol)]

Waits(mf) == mf.read_pos = mf.read_limit /\ mf.action = "RUN"
EncodeInit(e, mf) ==
  LET first == [e EXCEPT !.initialized = TRUE]
  IN IF mf.read_pos = mf.read_limit THEN [e |-> first, mf |-> mf]
     ELSE [e |-> [Push(first, LiteralSymbol(mf.buffer[1], 0)) EXCEPT !.uncomp = @ + 1],
           mf |-> [MfSkip(mf, 1) EXCEPT !.read_ahead = 0]]

AtLimit(x, limit) == limit # Unlimited /\ \/ x.mf.read_pos - x.mf.read_ahead >= limit
                                          \/ Len(x.out) + RcPending >= ChunkMax - LOOP_INPUT_MAX

Finished(x, size) ==
  LET e == IF x.e.eopm THEN CodeMatch(x.e, EndDist, MATCH_LEN_MIN) ELSE x.e
  IN With(RcEncode([x EXCEPT !.e = RcFlush(e)], size), LAMBDA y :
       IF RcFull(y) THEN [y EXCEPT !.e.flushed = TRUE, !.done = TRUE]
       ELSE [y EXCEPT !.ret = "STREAM_END", !.done = TRUE])

OneSymbol(x, size) ==
  With(IF x.e.fast THEN OptimumFast(x.e, x.mf) ELSE OptimumNormal(x.e, x.mf), LAMBDA c :
    LET e == EncodeSymbol(c.e, c.mf, c.back, c.len)
        y == [x EXCEPT !.e = [e EXCEPT !.uncomp = @ + c.len], !.mf = [c.mf EXCEPT !.read_ahead = @ - c.len]]
    IN IF RcEncodeDummy(e)
       THEN Finished([y EXCEPT !.e = [e EXCEPT !.rc = <<>>]], size)
       ELSE With(RcEncode(y, size), LAMBDA z : [z EXCEPT !.done = RcFull(z)]))

LzmaRound(x, size, limit) ==
  CASE AtLimit(x, limit) -> Finished(x, size)
    [] ~AtLimit(x, limit) /\ x.mf.read_pos >= x.mf.read_limit /\ x.mf.action = "RUN" -> [x EXCEPT !.done = TRUE]
    [] OTHER -> IF x.mf.read_pos >= x.mf.read_limit /\ x.mf.read_ahead = 0 THEN Finished(x, size)
                ELSE OneSymbol(x, size)

LzmaEncode(e0, mf0, out, size, limit) ==
  LET begun == IF e0.initialized \/ Waits(mf0) THEN [e |-> e0, mf |-> mf0] ELSE EncodeInit(e0, mf0)
  IN With(RcEncode([e |-> begun.e, mf |-> begun.mf, out |-> out, ret |-> "OK", done |-> FALSE], size), LAMBDA x :
       CASE ~x.e.initialized \/ RcFull(x) -> x
         [] x.e.initialized /\ ~RcFull(x) /\ x.e.flushed -> [x EXCEPT !.ret = "STREAM_END"]
         [] OTHER -> Loop(LAMBDA y : LzmaRound(y, size, limit), x))

-----------------------------------------------------------------------------
(* --- LZMA2 ---                                                           *)
(* A chunk begins with a byte that tells what it is, the sizes and perhaps *)
(* the properties; a size is a byte.                                       *)
Control(reset) == 128 + 32 * reset
Unencoded(mf) == mf.write_pos - mf.read_pos + mf.read_ahead

Lzma2Init(fast, props) ==
  [seq |-> "INIT", lzma |-> LzmaCreate(fast, FALSE, props), props |-> props, need_properties |-> TRUE,
   need_state |-> FALSE, need_dict |-> TRUE, uncompressed |-> 0, body |-> <<>>, buf |-> <<>>]

LzmaHeader(z) ==
  LET reset == CASE z.need_properties -> IF z.need_dict THEN 3 ELSE 2
                 [] ~z.need_properties -> IF z.need_state THEN 1 ELSE 0
  IN <<Control(reset), z.uncompressed - 1, Len(z.body) - 1>> \o (IF z.need_properties THEN <<z.props>> ELSE <<>>)

Lzma2Start(y) ==
  LET z == y.z
      fresh == [z EXCEPT !.lzma = IF z.need_state THEN LzmaReset(@, z.props) ELSE @, !.uncompressed = 0,
                         !.body = <<>>, !.seq = "LZMA_ENCODE"]
  IN CASE Unencoded(y.mf) = 0 -> [y EXCEPT !.out = IF y.mf.action = "FINISH" THEN Append(@, 0) ELSE @,
                                           !.ret = IF y.mf.action = "RUN" THEN "OK" ELSE "STREAM_END",
                                           !.done = TRUE]
       [] Unencoded(y.mf) # 0 -> [y EXCEPT !.z = fresh]

ChunkLimit(z, mf) ==
  IF UncompressedMax - z.uncompressed < MatchLenMax THEN 0
  ELSE mf.read_pos - mf.read_ahead + UncompressedMax - z.uncompressed - MatchLenMax

(* A chunk that is stored leaves the decoder's state behind the encoder's. *)
StateAsBefore(z) == z.need_state
StateIsOld(z) == TRUE

(* When LZMA does not make it smaller the chunk is stored, with what the   *)
(* encoder has looked at and not coded yet.                                *)
Lzma2Chunk(y) ==
  With(LzmaEncode(y.z.lzma, y.mf, y.z.body, ChunkMax, ChunkLimit(y.z, y.mf)), LAMBDA x :
    LET start == y.mf.read_pos - y.mf.read_ahead
        z == [y.z EXCEPT !.lzma = x.e, !.body = x.out,
                         !.uncompressed = @ + x.mf.read_pos - x.mf.read_ahead - start]
        stored == [z EXCEPT !.uncompressed = @ + x.mf.read_ahead, !.need_dict = FALSE,
                            !.need_state = StateIsOld(z), !.seq = "UNCOMPRESSED_HEADER",
                            !.buf = <<IF z.need_dict THEN 1 ELSE 2, z.uncompressed + x.mf.read_ahead - 1>>]
        coded == [z EXCEPT !.need_properties = FALSE, !.need_state = FALSE, !.need_dict = FALSE,
                           !.seq = "LZMA_COPY", !.buf = LzmaHeader(z) \o z.body]
    IN CASE x.ret # "STREAM_END" -> [y EXCEPT !.z = z, !.mf = x.mf, !.done = TRUE]
         [] x.ret = "STREAM_END" /\ Len(z.body) >= z.uncompressed ->
              [y EXCEPT !.z = stored, !.mf = [x.mf EXCEPT !.read_ahead = 0]]
         [] OTHER -> [y EXCEPT !.z = coded, !.mf = x.mf])

(* What of buf[] fits into out[].                                          *)
Lzma2Copy(y, room, next) ==
  LET n == Least(Len(y.z.buf), room - Len(y.out))
  IN [y EXCEPT !.out = @ \o SubSeq(y.z.buf, 1, n), !.z.buf = SubSeq(@, n + 1, Len(@)),
               !.z.seq = IF n = Len(y.z.buf) THEN next ELSE @, !.done = n < Len(y.z.buf)]

(* mf_read.                                                                *)
Lzma2Stored(y, room) ==
  LET left == y.z.uncompressed
      n == Least(left, room - Len(y.out))
      from == y.mf.read_pos - left
  IN [y EXCEPT !.out = @ \o SubSeq(y.mf.buffer, from + 1, from + n), !.z.uncompressed = left - n,
               !.z.seq = IF n = left THEN "INIT" ELSE @, !.done = n < left]

Lzma2Round(y, room) ==
  CASE Len(y.out) >= room -> [y EXCEPT !.done = TRUE]
    [] Len(y.out) < room /\ y.z.seq = "INIT" -> Lzma2Start(y)
    [] Len(y.out) < room /\ y.z.seq = "LZMA_ENCODE" -> Lzma2Chunk(y)
    [] Len(y.out) < room /\ y.z.seq = "LZMA_COPY" -> Lzma2Copy(y, room, "INIT")
    [] Len(y.out) < room /\ y.z.seq = "UNCOMPRESSED_HEADER" -> Lzma2Copy(y, room, "UNCOMPRESSED_COPY")
    [] Len(y.out) < room /\ y.z.seq = "UNCOMPRESSED_COPY" -> Lzma2Stored(y, room)

Lzma2Encode(z, mf, room) ==
  With(Loop(LAMBDA y : Lzma2Round(y, room), [z |-> z, mf |-> mf, out |-> <<>>, ret |-> "OK", done |-> FALSE]),
       LAMBDA y : [c |-> y.z, mf |-> y.mf, out |-> y.out, ret |-> y.ret])

(* LZMA alone cannot be flushed.                                           *)
Lzma1Encode(e, mf, room) ==
  IF mf.action = "SYNC_FLUSH" THEN [c |-> e, mf |-> mf, out |-> <<>>, ret |-> "OPTIONS_ERROR"]
  ELSE With(LzmaEncode(e, mf, <<>>, room, Unlimited), LAMBDA x :
         [c |-> x.e, mf |-> x.mf, out |-> x.out, ret |-> x.ret])

Lzma2Update(z, props) ==
  CASE z.seq # "INIT" -> [c |-> z, ret |-> "PROG_ERROR"]
    [] z.seq = "INIT" /\ props # z.props /\ props > PropsMax -> [c |-> z, ret |-> "OPTIONS_ERROR"]
    [] OTHER -> [c |-> IF props = z.props THEN z
                       ELSE [z EXCEPT !.props = props, !.need_properties = TRUE, !.need_state = TRUE],
                 ret |-> "OK"]

-----------------------------------------------------------------------------
(* --- the LZ coder ---                                                    *)
LzInit(finder, coder, lzma2, next, son) ==
  [mf |-> Window(finder, IF lzma2 THEN KeepBeforeLzma2 ELSE KeepBeforeLzma, son), z |-> coder,
   lzma2 |-> lzma2, next |-> next]

(* v is [k, used, out, ret, done].                                         *)
NeedsInput(mf) == mf.action = "RUN" /\ mf.read_pos >= mf.read_limit
LzFill(v, left, action) ==
  With(FillWindow(v.k, left, action), LAMBDA f :
    [v EXCEPT !.k = f.c, !.used = @ + f.used, !.ret = f.ret, !.done = f.ret # "OK"])
LzCode(v, room) ==
  With(IF v.k.lzma2 THEN Lzma2Encode(v.k.z, v.k.mf, room) ELSE Lzma1Encode(v.k.z, v.k.mf, room), LAMBDA r :
    [v EXCEPT !.k = [@ EXCEPT !.z = r.c, !.mf = IF r.ret = "OK" THEN r.mf ELSE [r.mf EXCEPT !.action = "RUN"]],
              !.out = @ \o r.out, !.ret = r.ret, !.done = r.ret # "OK"])

LzRound(v, in, room, action) ==
  LET left == SubSeq(in, v.used + 1, Len(in)) IN
  IF Len(v.out) >= room \/ (left = <<>> /\ action = "RUN") THEN [v EXCEPT !.done = TRUE]
  ELSE With(IF NeedsInput(v.k.mf) THEN LzFill(v, left, action) ELSE v, LAMBDA w :
         IF w.done THEN w ELSE LzCode(w, room - Len(w.out)))

LzEncode(k, in, room, action) ==
  With(Loop(LAMBDA v : LzRound(v, in, room, action),
            [k |-> k, used |-> 0, out |-> <<>>, ret |-> "OK", done |-> FALSE]), LAMBDA v :
    Coded(v.k, v.used, v.out, v.ret))

LzUpdate(k, props) ==
  IF ~k.lzma2 THEN Coded(k, 0, <<>>, "PROG_ERROR")
  ELSE With(Lzma2Update(k.z, props), LAMBDA u : Coded([k EXCEPT !.z = u.c], 0, <<>>, u.ret))

SetOutLimit(k, limit) ==
  CASE k.next # NoFilter \/ k.lzma2 -> Coded(k, 0, <<>>, "OPTIONS_ERROR")
    [] k.next = NoFilter /\ ~k.lzma2 /\ limit < 2 -> Coded(k, 0, <<>>, "BUF_ERROR")
    [] OTHER -> Coded([k EXCEPT !.z.out_limit = limit, !.z.eopm = FALSE], 0, <<>>, "OK")
=============================================================================
