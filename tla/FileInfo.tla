------------------------------ MODULE FileInfo ------------------------------
(***************************************************************************)
(* The decoder that reads the Indexes of all Streams of a file, from its   *)
(* end to its beginning (src/original/src/liblzma/common/file_info.c), and *)
(* the application that reads pieces of the file for it and seeks where it *)
(* is told to. Inside a call there is one action per state of the decoder. *)
(***************************************************************************)
EXTENDS IndexCoder

CONSTANTS Files,       \* [bytes, list]: list is <<>> when the file is damaged
          TempSizes,   \* sizeof(coder->temp)
          Pieces,      \* how much the application reads at a time
          Memlimits    \* limits it begins with
ASSUME TempAssumption == \A n \in TempSizes : n >= HeaderSize

VARIABLES file, c, io, answer

fileVars == <<file, c, io, answer>>

(* --- the parts of a file ---                                             *)
CheckNo == [crc32 |-> 1, crc64 |-> 4, sha256 |-> 10]
HeaderBytes(check) == [k \in 1 .. HeaderSize |-> 20000 + 100 * CheckNo[check] + k]
FooterBytes(check, backward) ==
  [k \in 1 .. HeaderSize |-> 30000 + 20 * (32 * backward + CheckNo[check]) + k]
BadFlags == "none"
HeaderDecode(bytes) ==
  IF \E check \in DOMAIN CheckNo : bytes = HeaderBytes(check)
  THEN CHOOSE check \in DOMAIN CheckNo : bytes = HeaderBytes(check) ELSE BadFlags
FooterDecode(bytes) ==
  LET code == (bytes[1] - 30001) \div 20
      flags == {check \in DOMAIN CheckNo : bytes = FooterBytes(check, code \div 32)}
  IN IF flags = {} THEN [check |-> BadFlags, backward |-> 0]
     ELSE [check |-> CHOOSE x \in flags : TRUE, backward |-> code \div 32]

(* --- the application ---                                                 *)
(* It holds bytes lo + 1 .. lo + len of the file, of which the decoder has *)
(* read pos, and knows where to read on.                                   *)
FileSizeNow == Len(file.bytes)
Avail == io.len - io.pos
Run(seq) == io.phase = "code" /\ c.seq = seq
Return(r) == answer' = r /\ io' = [io EXCEPT !.phase = "answered"]

NoIndex == <<>>
CoderInit(size, memlimit, room) ==
  [room |-> room, seq |-> "MAGIC_BYTES", cur |-> 0, target |-> 0, size |-> size, idec |-> DecoderReset(1),
   remaining |-> 0, this |-> NoIndex, padding |-> 0, combined |-> NoIndex,
   memlimit |-> IF memlimit = 0 THEN 1 ELSE memlimit, first |-> BadFlags, header |-> BadFlags,
   footer |-> [check |-> BadFlags, backward |-> 0], temp_pos |-> 0, temp_size |-> HeaderSize,
   temp |-> <<>>, seek |-> 0, dest |-> NoIndex]

FileInit == \E f \in Files, m \in Memlimits, n \in TempSizes :
  /\ file = f /\ c = CoderInit(Len(f.bytes), m, n) /\ answer = "none"
  /\ io = [lo |-> 0, len |-> 0, pos |-> 0, next |-> 0, phase |-> "read", idle |-> 0]

(* Read a piece when the last is used up, and call the decoder.            *)
Read == /\ io.phase = "read"
        /\ \E n \in Pieces :
             LET got == IF FileSizeNow - io.next < n THEN FileSizeNow - io.next ELSE n
             IN io' = [io EXCEPT !.lo = io.next, !.len = got, !.pos = 0, !.next = @ + got,
                                 !.phase = "code", !.idle = IF got = 0 THEN @ + 1 ELSE 0]
        /\ UNCHANGED <<file, c, answer>>

(* The application reads on, where it is told to after SEEK_NEEDED.        *)
Proceed ==
  /\ io.phase = "answered" /\ answer \in {"OK", "SEEK_NEEDED"}
  /\ io' = [io EXCEPT !.next = IF answer = "SEEK_NEEDED" THEN c.seek ELSE @, !.phase = "read"]
  /\ UNCHANGED <<file, c, answer>>

Used(i) == IF i = NoIndex THEN 0 ELSE MemUsed(i)
Decoding == c.this = NoIndex /\ c.seq = "INDEX_DECODE"
MemoryNow == LET sum == Used(c.combined) + (IF Decoding THEN MemUsage(1, c.idec.count) ELSE Used(c.this))
             IN IF sum = 0 THEN MemUsage(1, 0) ELSE sum

(* lzma_memlimit_set with the memory the decoder asked for, and the call   *)
(* again with the input that is left.                                      *)
Memconfig(limit) ==
  [c EXCEPT !.memlimit = limit,
            !.idec = IF Decoding THEN IndexMemconfig(@, limit - Used(c.combined)).c ELSE @]
RaiseMemlimit ==
  /\ io.phase = "answered" /\ answer = "MEMLIMIT_ERROR"
  /\ c' = Memconfig(MemoryNow)
  /\ io' = [io EXCEPT !.lo = @ + io.pos, !.len = Avail, !.pos = 0, !.idle = 0,
                      !.phase = IF Avail = 0 THEN "read" ELSE "code"]
  /\ UNCHANGED <<file, answer>>

(* --- the decoder ---                                                     *)
(* It is given less than the application has when the file is longer than  *)
(* it was told.                                                            *)
Available == IF c.size - c.cur < Avail THEN c.size - c.cur ELSE Avail
InputEnd == io.pos + Available

Filled(d) == d.temp_pos = d.temp_size
FillCount == IF c.temp_size - c.temp_pos < Available THEN c.temp_size - c.temp_pos ELSE Available
Fill == LET n == FillCount
        IN [c EXCEPT !.cur = @ + n, !.temp_pos = @ + n,
                     !.temp = SubSeq(@, 1, c.temp_pos) \o SubSeq(file.bytes, io.lo + io.pos + 1,
                                                                 io.lo + io.pos + n)]
Consumed(d) == io.pos + (d.cur - c.cur)
(* fill_temp is not done: LZMA_OK, and it wants more.                      *)
WantMore(d) == c' = d /\ answer' = "OK" /\ io' = [io EXCEPT !.pos = Consumed(d), !.phase = "answered"]

(* seek_to_pos: within the input of this call, or by the application.      *)
CanStay(d, pos, target) == /\ d.cur - pos <= target
                           /\ target <= d.cur + (InputEnd - pos)
InputAfterSeek(pos, target, cur) == pos + target - cur
SeekTo(d, pos, target) ==
  IF CanStay(d, pos, target)
  THEN /\ c' = [d EXCEPT !.cur = target] /\ UNCHANGED answer
       /\ io' = [io EXCEPT !.pos = InputAfterSeek(pos, target, d.cur)]
  ELSE /\ c' = [d EXCEPT !.cur = target, !.seek = target] /\ answer' = "SEEK_NEEDED"
       /\ io' = [io EXCEPT !.pos = io.len, !.phase = "answered"]

Fail(d, r) == c' = d /\ Return(r)
Stay(d) == c' = d /\ io' = [io EXCEPT !.pos = Consumed(d)] /\ UNCHANGED answer

ReverseSize(d) == IF d.target - HeaderSize < d.room THEN d.target - HeaderSize ELSE d.room
ReverseSeek(d, pos) ==
  IF d.target < 2 * HeaderSize THEN Fail(d, "DATA_ERROR")
  ELSE SeekTo([d EXCEPT !.temp_pos = 0, !.temp_size = ReverseSize(d), !.temp = <<>>],
              pos, d.target - ReverseSize(d))

MagicBytes ==
  /\ Run("MAGIC_BYTES") /\ UNCHANGED file
  /\ IF c.size < HeaderSize THEN Fail(c, "FORMAT_ERROR")
     ELSE \E d \in {Fill} :
            IF ~Filled(d) THEN WantMore(d)
            ELSE \E flags \in {HeaderDecode(d.temp)} :
                   CASE flags = BadFlags -> Fail(d, "FORMAT_ERROR")
                     [] flags # BadFlags /\ c.size % 4 # 0 -> Fail(d, "DATA_ERROR")
                     [] OTHER -> Stay([d EXCEPT !.first = flags, !.target = c.size,
                                                !.seq = "PADDING_SEEK"])

PaddingSeek == /\ Run("PADDING_SEEK") /\ UNCHANGED file
               /\ ReverseSeek([c EXCEPT !.seq = "PADDING_DECODE"], io.pos)

TrailingZeros(bytes) ==
  LET run[n \in 0 .. Len(bytes)] == IF n = 0 \/ bytes[n] # 0 THEN 0 ELSE run[n - 1] + 1
  IN run[Len(bytes)]

PaddingNotSubtracted(d, zeros) == [d EXCEPT !.padding = zeros]
PaddingSkipped(d, zeros) == [d EXCEPT !.padding = @ + zeros, !.target = @ - zeros]

(* All that is in temp may be padding; else it ends where the Footer does. *)
PaddingDecode ==
  /\ Run("PADDING_DECODE") /\ UNCHANGED file
  /\ \E d \in {Fill} : IF ~Filled(d) THEN WantMore(d) ELSE \E zeros \in {TrailingZeros(d.temp)} :
       LET e == PaddingSkipped(d, zeros)
           f == [e EXCEPT !.seq = "FOOTER", !.temp_size = @ - zeros, !.temp_pos = d.temp_size - zeros,
                          !.temp = SubSeq(@, 1, d.temp_size - zeros)]
       IN CASE zeros = d.temp_size -> Stay([e EXCEPT !.seq = "PADDING_SEEK"])
            [] zeros # d.temp_size /\ e.padding % 4 # 0 -> Fail(e, "DATA_ERROR")
            [] OTHER -> IF f.temp_size < HeaderSize THEN ReverseSeek(f, Consumed(d)) ELSE Stay(f)

TailOf(d) == SubSeq(d.temp, d.temp_size - HeaderSize + 1, d.temp_size)

Footer ==
  /\ Run("FOOTER") /\ UNCHANGED file
  /\ \E d \in {Fill} : IF ~Filled(d) THEN WantMore(d) ELSE \E footer \in {FooterDecode(TailOf(d))} :
       LET e == [d EXCEPT !.target = @ - HeaderSize, !.temp_size = @ - HeaderSize, !.footer = footer]
           f == [e EXCEPT !.target = @ - footer.backward, !.seq = "INDEX_INIT"]
       IN CASE footer.check = BadFlags -> Fail(e, "DATA_ERROR")
            [] footer.check # BadFlags /\ e.target < footer.backward + HeaderSize -> Fail(e, "DATA_ERROR")
            [] OTHER -> IF e.temp_size >= footer.backward
                        THEN Stay([f EXCEPT !.temp_pos = e.temp_size - footer.backward])
                        ELSE SeekTo([f EXCEPT !.temp_pos = 0, !.temp_size = 0, !.temp = <<>>],
                                    Consumed(d), f.target)

IndexLimit == c.memlimit - Used(c.combined)
IndexInitState ==
  /\ Run("INDEX_INIT") /\ UNCHANGED file
  /\ IF Used(c.combined) > c.memlimit THEN Fail(c, "PROG_ERROR")
     ELSE /\ c' = [c EXCEPT !.idec = DecoderReset(IndexLimit),
                            !.remaining = c.footer.backward, !.seq = "INDEX_DECODE"]
          /\ UNCHANGED <<io, answer>>

(* Where the Stream Header must be, and whether temp already holds it.     *)
IndexDone(d, pos) ==
  LET seek == d.this.total_size + HeaderSize
      e == [d EXCEPT !.target = @ - seek]
      h == [e EXCEPT !.seq = "HEADER_DECODE", !.target = @ + HeaderSize]
      before == d.temp_size - d.footer.backward - seek + HeaderSize
  IN CASE d.target < seek -> Fail(d, "DATA_ERROR")
       [] d.target >= seek /\ e.target = 0 ->
            /\ c' = [e EXCEPT !.header = d.first, !.seq = "HEADER_COMPARE"]
            /\ io' = [io EXCEPT !.pos = pos] /\ UNCHANGED answer
       [] OTHER -> IF d.temp_size # 0 /\ d.temp_size - d.footer.backward >= seek
                   THEN /\ c' = [h EXCEPT !.temp_pos = before, !.temp_size = before,
                                          !.temp = SubSeq(@, 1, before)]
                        /\ io' = [io EXCEPT !.pos = pos] /\ UNCHANGED answer
                   ELSE ReverseSeek(h, pos)

Decoded(r) == IF r.ret = "STREAM_END" THEN [r.c EXCEPT !.index = IndexInit] ELSE r.c

IndexDecodeState ==
  /\ Run("INDEX_DECODE") /\ UNCHANGED file
  /\ \E inTemp \in {c.temp_size # 0} :
     \E bytes \in {IF inTemp THEN SubSeq(c.temp, c.temp_pos + 1, c.temp_size)
                   ELSE SubSeq(file.bytes, io.lo + io.pos + 1,
                               io.lo + io.pos + (IF Available > c.remaining THEN c.remaining
                                                 ELSE Available))} :
     \E r \in {IndexDecode(c.idec, bytes)} :
       LET pos == IF inTemp THEN io.pos ELSE io.pos + r.used
           d == [c EXCEPT !.remaining = @ - r.used, !.idec = Decoded(r),
                          !.this = IF r.ret = "STREAM_END" THEN r.c.index ELSE @,
                          !.temp_pos = IF inTemp THEN @ + r.used ELSE @,
                          !.cur = IF inTemp THEN @ ELSE @ + r.used]
           Leaves(ret) == c' = d /\ answer' = ret /\ io' = [io EXCEPT !.pos = pos, !.phase = "answered"]
       IN CASE r.ret = "OK" -> Leaves(IF d.remaining = 0 THEN "DATA_ERROR" ELSE "OK")
            [] r.ret = "STREAM_END" -> IF d.remaining # 0 THEN Leaves("DATA_ERROR")
                                       ELSE IndexDone(d, pos)
            [] OTHER -> Leaves(r.ret)

HeaderDecodeState ==
  /\ Run("HEADER_DECODE") /\ UNCHANGED file
  /\ \E d \in {Fill} : IF ~Filled(d) THEN WantMore(d) ELSE \E flags \in {HeaderDecode(TailOf(d))} :
       LET e == [d EXCEPT !.target = @ - HeaderSize, !.temp_size = @ - HeaderSize,
                          !.temp_pos = d.temp_size - HeaderSize,
                          !.temp = SubSeq(@, 1, d.temp_size - HeaderSize)]
       IN IF flags = BadFlags THEN Fail(e, "DATA_ERROR")
          ELSE Stay([e EXCEPT !.header = flags, !.seq = "HEADER_COMPARE"])

(* The Index read last belongs in front of those read before.              *)
HeaderCompare ==
  /\ Run("HEADER_COMPARE") /\ UNCHANGED file
  /\ \E padded \in {StreamPadding(StreamFlags(c.this, c.footer.check).index, c.padding)} :
     \E r \in {IF c.combined = NoIndex \/ padded.ret # "OK" THEN padded
               ELSE Cat(padded.index, c.combined)} :
       CASE c.header # c.footer.check -> Fail(c, "DATA_ERROR")
         [] c.header = c.footer.check /\ padded.ret # "OK" -> Fail(c, "PROG_ERROR")
         [] c.header = c.footer.check /\ padded.ret = "OK" /\ r.ret # "OK" -> Fail(c, r.ret)
         [] OTHER ->
              IF c.target = 0
              THEN /\ c' = [c EXCEPT !.dest = r.index, !.combined = NoIndex, !.this = NoIndex]
                   /\ answer' = "STREAM_END"
                   /\ io' = [io EXCEPT !.pos = io.len, !.phase = "answered"]
              ELSE /\ c' = [c EXCEPT !.combined = r.index, !.this = NoIndex, !.padding = 0,
                                     !.seq = IF c.temp_size > 0 THEN "PADDING_DECODE"
                                             ELSE "PADDING_SEEK"]
                   /\ UNCHANGED <<io, answer>>

FileNext == \/ Read \/ Proceed \/ RaiseMemlimit
            \/ MagicBytes \/ PaddingSeek \/ PaddingDecode \/ Footer \/ IndexInitState
            \/ IndexDecodeState \/ HeaderDecodeState \/ HeaderCompare
=============================================================================
