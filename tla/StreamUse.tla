------------------------------ MODULE StreamUse ------------------------------
(***************************************************************************)
(* An application that compresses and at once decompresses what comes out: *)
(* it hands its data over in pieces, flushes and finishes, changes the     *)
(* filters in between, begins another Stream, and on the other side gives  *)
(* the decoder whatever has arrived. On the way one byte may be damaged.   *)
(***************************************************************************)
EXTENDS Containers

CONSTANTS Setups     \* what stays the same throughout a behaviour
\* [format, auto, filters, others, check, data, piece, room, actions, arrive,
\*  space, rooms, memlimit, flags, paddings, damage, short, version, file, faulty]

VARIABLES setup, e, wire, d

vars == <<setup, e, wire, d>>

(* A file that another program has written is there from the beginning.    *)
Foreign == setup.format = "file"
Length == Len(setup.data)

(* Everything in one call, of the encoder and of the decoder.              *)
AtOnce == setup.format \in {"stream_once", "block_once", "uncompressed_once", "raw_once"}

(* The coders of a format. A .lzma file of another program may tell its    *)
(* size, and have an end marker or none.                                   *)
Filter == setup.filters[1]
EncoderFor(old) ==
  CASE setup.format = "xz"    -> With(StreamEncoderInit(setup.filters, setup.check, old), LAMBDA r : [ret |-> r.ret, c |-> r.c])
    [] setup.format = "raw"   -> RawInit(setup.filters)
    [] setup.format = "alone" -> AloneEncoderInit(Filter)
    [] setup.format = "sized" -> LzmaAloneInit(Filter, Len(setup.data), FALSE)
    [] setup.format = "sized_marked" -> LzmaAloneInit(Filter, Len(setup.data), TRUE)
    [] setup.format = "lzip"  -> LzipInit(Filter, setup.version)
    [] setup.format = "micro" -> MicroEncoderInit(Filter)
    [] setup.format = "file"  -> [ret |-> "STREAM_END", c |-> NoFilter]
    [] AtOnce -> [ret |-> "OK", c |-> NoFilter]
DecoderFor ==
  CASE AtOnce -> [memlimit |-> setup.memlimit]
    [] setup.auto -> AutoInit(setup.memlimit, setup.flags)
    [] ~setup.auto /\ setup.format = "xz"   -> StreamDecoderInit(setup.memlimit, setup.flags)
    [] ~setup.auto /\ setup.format = "lzip" -> LzipDecoderInit(setup.memlimit, setup.flags)
    [] ~setup.auto /\ setup.format \in {"raw", "micro"} -> RawDecoder(setup.filters)
    [] OTHER -> AloneDecoderInit(setup.memlimit, FALSE)
(* What is known when a call of the encoder is over.                       *)
Informed(c, size, fed) ==
  IF setup.format = "micro" THEN MicroDecoderInit(size, fed - setup.short, setup.short = 0 /\ setup.flags = {}, Filter.opt)
  ELSE c

(* e: the encoder c, the bytes of the data it has consumed and those of    *)
(* the request under way, what it last answered, and for how many calls    *)
(* nothing has happened; tight: an encoder that does everything at once has *)
(* had less room than is always enough; overrun: it has used more than it  *)
(* had.                                                                    *)
(* d: likewise; read bytes have arrived at the decoder, plain has come out; *)
(* missing: what a decoder that does everything at once has had too little *)
(* of.                                                                     *)
Init ==
  /\ setup \in Setups
  /\ \E r \in {EncoderFor(NoFilter)} :
       e = [c |-> r.c, fed |-> IF Foreign THEN Length ELSE 0, upto |-> 0, ret |-> r.ret,
            action |-> IF Foreign THEN "FINISH" ELSE "RUN", idle |-> 0, updates |-> 0, tight |-> FALSE, overrun |-> FALSE]
  /\ wire = setup.file
  /\ d = [c |-> DecoderFor, read |-> 0, plain |-> <<>>, ret |-> "OK", idle |-> 0, streams |-> 1, missing |-> {}]

GoesOn(ret) == ret \in {"OK", "NO_CHECK", "UNSUPPORTED_CHECK", "GET_CHECK"}
AllWritten == e.action = "FINISH" /\ e.ret = "STREAM_END"
Between == e.fed = e.upto /\ (e.action = "RUN" \/ e.ret = "STREAM_END") /\ ~AllWritten
Fine == GoesOn(e.ret) \/ e.ret = "STREAM_END"

(* Nothing is on the way, and the decoder has nothing more to say.         *)
Delivered == wire = <<>> /\ d.idle > 0

Ahead(n) == IF n < Length - e.fed THEN e.fed + n ELSE Length

(* What the application may ask for next: the action, and up to where it   *)
(* gives its data. A request that is not fulfilled goes on.                *)
Requests ==
  IF ~Between THEN {<<e.action, e.upto>>}
  ELSE {<<"FINISH", Length>>} \cup (setup.actions \X {e.fed, Ahead(setup.piece)})
         \cup (IF e.fed < Length THEN {<<"RUN", Ahead(setup.piece)>>} ELSE {})

Encode ==
  /\ ~AtOnce /\ Fine /\ ~AllWritten /\ Delivered
  /\ \E q \in Requests :
       \E r \in {Encoding(e.c, SubSeq(setup.data, e.fed + 1, q[2]), setup.room, q[1])} :
         /\ e' = [e EXCEPT !.c = r.c, !.fed = @ + r.used, !.upto = q[2], !.action = q[1], !.ret = r.ret,
                           !.idle = IF r.used = 0 /\ r.out = <<>> /\ r.ret = "OK" THEN @ + 1 ELSE 0]
         /\ wire' = wire \o r.out
         /\ d' = [d EXCEPT !.idle = 0, !.c = Informed(@, Len(r.out), r.used)]
  /\ UNCHANGED setup

(* lzma_filters_update, at any time but within a call.                     *)
Update ==
  /\ ~AtOnce /\ Fine /\ Delivered /\ ~AllWritten /\ e.updates < 1
  /\ \E filters \in setup.others : \E r \in {FiltersUpdate(e.c, filters)} :
       e' = [e EXCEPT !.c = r.c, !.updates = @ + 1]
  /\ UNCHANGED <<setup, wire, d>>

(* Another Stream behind this one, from the same lzma_stream.              *)
NextStream ==
  /\ AllWritten /\ Delivered /\ d.streams = 1
  /\ \E n \in setup.paddings :
       /\ wire' = Zeroes(n)
       /\ \E r \in {EncoderFor(IF setup.format = "xz" THEN e.c.block ELSE NoFilter)} :
            e' = [e EXCEPT !.c = r.c, !.fed = 0, !.upto = 0, !.action = "RUN", !.ret = r.ret]
       /\ d' = [d EXCEPT !.streams = 2, !.idle = 0]
  /\ UNCHANGED setup

(* One call of the decoder with what has arrived; when nothing more will   *)
(* come it is told so.                                                     *)
Arrived == LET n == IF setup.arrive < Len(wire) THEN setup.arrive ELSE Len(wire)
           IN [k \in 1 .. n |-> IF d.read + k = setup.damage THEN wire[k] + 1 ELSE wire[k]]
Over == AllWritten /\ (d.streams = 2 \/ setup.paddings = {})

Decode ==
  /\ ~AtOnce /\ GoesOn(d.ret) /\ d.idle < 2 /\ (~Delivered \/ Over)
  /\ \E r \in {Decode1(d.c, Arrived, setup.space, IF Over /\ Len(Arrived) = Len(wire) THEN "FINISH" ELSE "RUN")} :
       /\ d' = [d EXCEPT !.c = r.c, !.read = @ + r.used, !.plain = @ \o r.out, !.ret = r.ret,
                         !.idle = IF r.used = 0 /\ r.out = <<>> /\ r.ret = "OK" THEN @ + 1 ELSE 0]
       /\ wire' = SubSeq(wire, r.used + 1, Len(wire))
  /\ UNCHANGED <<setup, e>>

(* The memory it asks for, and the call again.                             *)
RaiseMemlimit ==
  /\ ~AtOnce /\ d.ret = "MEMLIMIT_ERROR"
  /\ \E limit \in {d.c.memusage, d.c.memlimit} : \E r \in {Memconfig(d.c, limit)} : d' = [d EXCEPT !.c = r.c, !.ret = r.ret]
  /\ UNCHANGED <<setup, e, wire>>

(* One call with all of the data and some room.                            *)
OnceBound == CASE setup.format = "stream_once" -> StreamBufferBound(Length)
               [] setup.format = "raw_once" -> setup.room
               [] OTHER -> BlockBufferBound(Length)
EncodedOnce(room) ==
  CASE setup.format = "stream_once" -> StreamBufferEncode(setup.filters, setup.check, setup.data, room)
    [] setup.format = "raw_once" -> RawBufferEncode(setup.filters, setup.data, room)
    [] OTHER -> BlockBufferEncode(setup.filters, setup.check, setup.data, room, setup.format = "block_once")
EncodeAtOnce ==
  /\ AtOnce /\ e.action = "RUN"
  /\ \E room \in 0 .. setup.room : \E r \in {EncodedOnce(room)} :
       /\ e' = [e EXCEPT !.action = "FINISH", !.fed = Length, !.tight = room < OnceBound, !.overrun = Len(r.out) > room,
                         !.ret = IF r.ret = "OK" THEN "STREAM_END" ELSE r.ret]
       /\ wire' = r.out
  /\ UNCHANGED <<setup, d>>

(* One call with a part of what has been written, or all, and some room;   *)
(* the header of a Block is always there. With too low a limit of memory   *)
(* it is told how much to ask for.                                         *)
HeaderOfWire == IF setup.format \in {"stream_once", "raw_once"} THEN 0 ELSE HeaderSizeDecode(wire[1])
DecodedOnce(n, room) ==
  CASE setup.format = "stream_once" -> StreamBufferDecode(d.c.memlimit, setup.flags, SubSeq(wire, 1, n), room)
    [] setup.format = "raw_once" -> RawBufferDecode(setup.filters, SubSeq(wire, 1, n), room) @@ d.c
    [] OTHER -> BlockBufferDecode(BlockHeaderDecode(wire, HeaderOfWire, setup.check).b, SubSeq(wire, HeaderOfWire + 1, n), room) @@ d.c
DecodeAtOnce ==
  /\ AtOnce /\ AllWritten /\ d.ret \in {"OK", "MEMLIMIT_ERROR"}
  /\ \E n \in HeaderOfWire .. Len(wire), room \in setup.rooms :
       \E r \in {DecodedOnce(n, room)} :
         d' = [d EXCEPT !.ret = IF r.ret = "OK" THEN "STREAM_END" ELSE r.ret, !.read = r.used, !.plain = r.out,
                        !.c = [memlimit |-> r.memlimit],
                        !.missing = (IF n < Len(wire) THEN {"input"} ELSE {}) \cup (IF room < Length THEN {"room"} ELSE {})]
  /\ UNCHANGED <<setup, e, wire>>

Next == \/ Encode \/ Update \/ NextStream
        \/ Decode \/ RaiseMemlimit
        \/ EncodeAtOnce \/ DecodeAtOnce

Spec == Init /\ [][Next]_vars

-----------------------------------------------------------------------------
Undamaged == setup.damage = 0 /\ ~setup.faulty
Given == LET now == SubSeq(setup.data, 1, e.fed - setup.short)
         IN IF d.streams = 1 THEN now ELSE setup.data \o now
Prefix(s, t) == Len(s) <= Len(t) /\ s = SubSeq(t, 1, Len(s))

(* What is decoded is what was encoded, and when a flush is over all of it *)
(* can be decoded from what has come out: whatever the pieces, the match   *)
(* finder, the filters and the moment they are changed (stream_encode,     *)
(* lz_encode, mf_find, lzma2_encode and their counterparts).               *)
FlushedIsReadable ==
  Undamaged => /\ Prefix(d.plain, Given)
               /\ e.ret = "STREAM_END" /\ Delivered => d.plain = Given

(* A file that the decoder accepts is the whole file: a byte changed       *)
(* anywhere is found by one of the fields that check each other            *)
(* (stream_decode, block_decode, lzma_index_hash_decode, lzip_decode; in   *)
(* .lz nothing protects the size of the dictionary).                       *)
Checked == setup.format \in {"lzip", "file"} \/ (setup.format = "xz" /\ setup.check # "none")
AcceptedIsWhole ==
  d.ret = "STREAM_END" /\ (Undamaged \/ (Checked /\ "IGNORE_CHECK" \notin setup.flags)) =>
    ~setup.faulty /\ d.plain = Given /\ (Undamaged \/ setup.format = "lzip" \/ d.read < setup.damage)

(* No call with something to do leaves everything as it is, twice, on      *)
(* either side: what lzma_code would report as LZMA_BUF_ERROR to an        *)
(* application that gives input and room. And what is sound is decoded to  *)
(* its end: it is not refused, and once all of it has been taken there is  *)
(* no call that answers OK and has nothing more to give (lzma_code, and    *)
(* the loops of stream_decode, block_decode, decode_buffer, simple_code).  *)
(* One kind of sound file is refused: a .lzma with its size and an end     *)
(* marker that comes in pieces, because eopm_is_valid is a local variable  *)
(* of lzma_decode; all of its data has been given out by then.             *)
Sound == Undamaged /\ \A n \in setup.paddings : n % 4 = 0
MarkerForgotten == setup.format = "sized_marked" /\ d.ret = "DATA_ERROR" /\ d.plain = Given /\ wire # <<>>
NeverStuck ==
  /\ e.idle <= 1
  /\ Sound /\ ~AtOnce => /\ d.idle <= 1
                         /\ GoesOn(d.ret) \/ d.ret \in {"STREAM_END", "MEMLIMIT_ERROR"} \/ MarkerForgotten
                         /\ ~(Over /\ Delivered)

(* A single call that cannot do all of it tells the truth about why: the   *)
(* room that the bounds promise is enough for every encoder, whether or    *)
(* not the data can be compressed, and an application that gives a decoder *)
(* more of what it says is missing gets there (lzma_stream_buffer_bound,   *)
(* lzma_block_buffer_bound, block_buffer_encode, lzma_block_buffer_decode, *)
(* lzma_raw_buffer_decode, lzma_stream_buffer_decode). That the last byte  *)
(* of a Block "never produces output" is not so without a check and with a *)
(* branch filter, which holds decoded bytes back: there the error may be   *)
(* the wrong one.                                                          *)
LastByteMayGiveOutput == setup.format = "block_once" /\ setup.check = "none" /\ setup.filters[1].id \in Branches
TellsWhatIsMissing ==
  AtOnce => /\ ~e.overrun
            /\ e.ret = "BUF_ERROR" => e.tight
            /\ d.ret = "STREAM_END" => d.missing = {}
            /\ d.ret = "BUF_ERROR" => "room" \in d.missing
            /\ d.ret = "DATA_ERROR" => "input" \in d.missing \/ (LastByteMayGiveOutput /\ "room" \in d.missing)

===============================================================================
