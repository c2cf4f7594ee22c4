------------------------------- MODULE MCStream -------------------------------
EXTENDS StreamUse

SymbolPrices == [lit |-> 9, miss |-> 8, rep |-> 3, len |-> 1, dist |-> 6]

(* Data with long and short repeats at many distances; each makes another  *)
(* match finder or another way of choosing show what it can do.            *)
Runs    == <<0,0,3,3,0,2,2,2,2,2,2,2,2,2,2,2,1,2,2,2,2,1,0,0,2,2,2,2,2,1,2,2,2,2,2,2,3,0,2,2,3,2>>
Broken  == <<2,2,2,2,2,2,2,2,3,1,2,3,2,2,1,2,2,2,0,2,2,2,2,0,0,0,0,0,1,1,1,1,3,3,1,2,0,0,0,3,0,1>>
Nested  == <<1,1,1,1,2,2,0,0,0,0,1,2,2,0,0,2,0,1,2,2,0,0,2,2,0,0,2,0,0,0,1,0,0,0,1,1,0,0,1,1,1,0>>
Shifted == <<0,1,0,0,1,1,0,1,1,0,0,1,0,3,1,0,1,0,0,1,0,3,1,0,1,0,1,0,1,0,1,1,1,0,1,1,1,1,1,0,1,1>>
Paired  == <<2,1,2,1,2,1,3,1,3,0,1,2,1,3,1,3,0,3,3,0,1,0,1,3,1,3,1,3,0,3,3,0,1,0,0,0,1,0,0,0,1,1>>
Mixed   == <<0,1,0,1,0,1,1,1,1,1,0,0,2,3,2,3,2,3,3,3,1,2,0,1,2,0,1,2,0,3,1,0,2,3,1,3,0,2,1,1,2,0>>
Noise   == [k \in 1 .. 42 |-> ((k * k * 7) \div 3 + (k * 5) \div 4) % 4]

Lzma2(finder, fast, props, dict) == [id |-> "lzma2", opt |-> dict, props |-> props, fast |-> fast, finder |-> finder]
Lzma1(finder, fast, props, dict) == [id |-> "lzma1", opt |-> dict, props |-> props, fast |-> fast, finder |-> finder]
InFront(id, opt) == [id |-> id, opt |-> opt]
Best == Lzma2("bt4", FALSE, 1, DictSize)

Setup(filters) ==
  [format |-> "xz", auto |-> FALSE, filters |-> filters, others |-> {}, check |-> "crc32", data |-> Mixed, piece |-> 20,
   room |-> 9, actions |-> {}, arrive |-> 8, space |-> 6, memlimit |-> 0, flags |-> {},
   paddings |-> {}, rooms |-> {}, damage |-> 0, short |-> 0, version |-> 1, file |-> <<>>, faulty |-> FALSE]
Other(format, filter) == [Setup(<<filter>>) EXCEPT !.format = format]

(* Every match finder and every way of choosing, in small pieces.          *)
Searches == {[Setup(<<Lzma2(x[1], x[2], 1, 14)>>) EXCEPT !.data = x[3], !.room = x[4], !.piece = x[5]] :
              x \in {<<"bt4", FALSE, Runs, 9, 42>>, <<"hc3", TRUE, Broken, 5, 42>>, <<"bt2", FALSE, Nested, 7, 13>>,
                     <<"hc3", FALSE, Shifted, 20, 21>>, <<"bt3", TRUE, Paired, 3, 42>>, <<"hc4", TRUE, Noise, 11, 14>>}}

(* Flushes of both kinds, and other filters in between.                    *)
Flushed == {[Setup(<<Lzma2("bt3", TRUE, 1, DictSize)>>) EXCEPT !.actions = {"SYNC_FLUSH", "FULL_FLUSH"}],
            [Setup(<<Lzma2("bt4", FALSE, 1, DictSize)>>) EXCEPT !.actions = {"SYNC_FLUSH"}, !.data = Noise, !.piece = 15],
            [Setup(<<InFront("delta", 2), Best>>) EXCEPT !.actions = {"SYNC_FLUSH", "FULL_BARRIER"}],
            [Setup(<<InFront("arm", 0), Best>>) EXCEPT !.actions = {"FULL_FLUSH"}, !.data = Noise],
            [Setup(<<InFront("arm", 4), Best>>) EXCEPT !.actions = {"SYNC_FLUSH"}, !.data = Nested, !.space = 1, !.room = 4]}

(* Every branch filter, with room for less than an instruction, or for     *)
(* parts of several.                                                       *)
Bundles == [k \in 1 .. 42 |-> CASE k % 16 = 1 -> 3 [] k % 5 = 1 -> 1 [] k % 5 = 2 -> 0 [] OTHER -> Noise[k]]
Calls   == [k \in 1 .. 42 |-> CASE k % 6 = 1 -> 2 [] k % 6 = 4 -> 1 [] k % 6 \in {0, 5} -> 3 * (k % 2) [] OTHER -> Mixed[k]]
Branching == {[Setup(<<InFront(x[1], x[2]), Best>>) EXCEPT !.data = x[3], !.piece = x[4], !.arrive = x[5], !.space = x[6]] :
               x \in {<<"x86", 0, Noise, 20, 8, 6>>, <<"x86", 11, Calls, 7, 5, 3>>, <<"arm", 8, Shifted, 9, 9, 4>>,
                      <<"armthumb", 2, Noise, 11, 4, 5>>, <<"arm64", 16, Noise, 42, 30, 7>>, <<"powerpc", 4, Broken, 17, 6, 2>>,
                      <<"sparc", 0, Broken, 42, 8, 9>>, <<"ia64", 16, Bundles, 19, 9, 11>>}}
Changed == {[Setup(<<Best>>) EXCEPT !.actions = {"SYNC_FLUSH", "FULL_FLUSH"}, !.piece = 21,
                                    !.others = {<<[Best EXCEPT !.props = 2]>>, <<[Best EXCEPT !.props = 4]>>, <<Best>>,
                                                <<InFront("delta", 1), Best>>, <<Best, Best>>, <<>>,
                                                <<Lzma1("bt4", FALSE, 1, DictSize)>>}],
            [Setup(<<InFront("delta", 3), Best>>) EXCEPT !.actions = {"SYNC_FLUSH"}, !.others =
               {<<InFront("delta", 1), [Best EXCEPT !.props = 2]>>, <<[Best EXCEPT !.props = 2]>>}]}

(* What the decoder is told and tells.                                     *)
Decoded == {[Setup(<<Best>>) EXCEPT !.check = x[1], !.flags = x[2], !.auto = x[3], !.space = 100, !.arrive = x[4]] :
              x \in {<<"none", {"TELL_NO_CHECK"}, TRUE, 3>>, <<"crc64", {"TELL_ANY_CHECK"}, FALSE, 1>>,
                     <<"sha256", {"IGNORE_CHECK"}, FALSE, 50>>, <<"unknown", {}, FALSE, 8>>}}
  \cup {[Setup(<<Best>>) EXCEPT !.flags = {"CONCATENATED"}, !.paddings = {0, 3, 4}, !.data = SubSeq(Mixed, 1, 7)],
        [Setup(<<Best>>) EXCEPT !.flags = {"CONCATENATED"}, !.auto = TRUE, !.memlimit = 100, !.paddings = {4},
                                !.data = <<>>]}
Damaged == {[Setup(<<InFront("delta", 1), Best>>) EXCEPT !.damage = k, !.data = SubSeq(Runs, 1, 7), !.arrive = 60, !.room = 60,
              !.space = 60] : k \in 1 .. 76}
  \cup {[Other("lzip", Lzma1("bt3", TRUE, 1, DictSize)) EXCEPT !.damage = k, !.data = SubSeq(Runs, 1, 9), !.arrive = 60, !.room = 60,
              !.space = 60] : k \in 1 .. 40}

Kinds == {[Other("alone", Lzma1("bt2", TRUE, 1, DictSize)) EXCEPT !.auto = TRUE, !.flags = {"CONCATENATED", "TELL_ANY_CHECK"},
            !.paddings = {0}, !.data = <<>>, !.faulty = TRUE],
         [Setup(<<Lzma2("hc4", TRUE, 1, DictSize)>>) EXCEPT !.data = [k \in 1 .. 60 |-> 1], !.piece = 60, !.room = 2],
         [Other("raw", Lzma1("bt3", TRUE, 1, DictSize)) EXCEPT !.actions = {"SYNC_FLUSH"},
            !.others = {<<Lzma1("bt3", FALSE, 2, DictSize)>>}, !.piece = 42],
         [Other("micro", Lzma1("bt2", FALSE, 1, DictSize)) EXCEPT !.room = 2],
         [Other("lzip", Lzma1("bt2", FALSE, 1, DictSize)) EXCEPT !.flags = {"IGNORE_CHECK"}, !.others = {<<Lzma1("bt3", FALSE, 2, DictSize)>>}],
         Setup(<<InFront("arm", 2), Best>>), Setup(<<InFront("ia64", 8), Best>>),
         Setup(<<InFront("delta", 1), InFront("delta", 1), InFront("delta", 1), InFront("delta", 1), Best>>),
         [Other("micro", Lzma1("bt2", FALSE, PropsMax + 1, DictSize)) EXCEPT !.room = 12],
         [Other("alone", Lzma1("bt2", FALSE, 1, DictMin - 1)) EXCEPT !.room = 12],
         Other("alone", Lzma1("hc3", TRUE, 1, DictSize)), [Other("alone", Lzma1("hc3", FALSE, 2, DictSize)) EXCEPT !.auto = TRUE],
         [Other("sized", Lzma1("hc4", TRUE, 1, DictSize)) EXCEPT !.auto = TRUE, !.flags = {"TELL_NO_CHECK", "CONCATENATED"}],
         [Other("sized_marked", Lzma1("bt4", FALSE, 1, DictSize)) EXCEPT !.arrive = 100],
         [Other("sized_marked", Lzma1("bt2", TRUE, 1, DictSize)) EXCEPT !.arrive = 1],
         Other("lzip", Lzma1("bt2", TRUE, 1, DictSize)),
         [Other("lzip", Lzma1("bt2", FALSE, 1, DictSize)) EXCEPT !.version = 0, !.auto = TRUE, !.flags = {"CONCATENATED", "TELL_ANY_CHECK"}, !.paddings = {0}],
         [Other("micro", Lzma1("bt2", FALSE, 1, DictSize)) EXCEPT !.room = 12],
         [Other("micro", Lzma1("bt2", FALSE, 1, DictSize)) EXCEPT !.room = 12, !.short = 2],
         [Other("raw", Lzma2("bt3", FALSE, 1, DictSize)) EXCEPT !.actions = {"SYNC_FLUSH"}, !.others = {<<Lzma2("bt3", FALSE, 2, DictSize)>>, <<Lzma1("bt3", FALSE, 3, DictSize)>>}]}
(* Files of other programs: a Block Header with the sizes, as the threaded *)
(* encoder writes it, and what is not as it should be although the CRC32   *)
(* of the field is right.                                                  *)
Text == <<2, 0, 3, 1, 1>>
Stored == <<1, Len(Text) - 1>> \o Text \o <<0>>
Here == Len(Stored)
Symbol(symbol, state, adapted) == symbol + 1000 * state + 12000 * adapted
Lzma2Of(control, size, compressed, symbols) == <<control, size - 1, compressed - 1, 1>> \o symbols \o <<FlushSymbol, 0>>
OneLiteral == <<Symbol(LiteralSymbol(2, 0), 0, 7)>>
(* fields: the Block Header, if it is not the one of b.                    *)
Dressed(x) ==
  With(BlockHeaderSize([NewBlock(x.filters, x.check) EXCEPT !.compressed = x.compressed, !.uncompressed = x.uncompressed]).b,
    LAMBDA b :
    With(<<2>> \o x.fields \o Zeroes(7 - Len(x.fields)), LAMBDA body :
    With(IF x.fields = <<>> THEN BlockHeaderBytes(b) ELSE body \o CrcBytes(body), LAMBDA header :
    With(AppendBlock(IndexInit, Len(header) + Len(x.payload) + CheckSize[x.check], Len(x.text)).index, LAMBDA index :
      HeaderBytes(x.check) \o header \o x.payload \o Zeroes(PaddingOf(Len(x.payload)))
        \o CheckBytes(x.check, CrcOver(0, x.text)) \o IndexBytes(index)
        \o FooterBytes(x.foot, IndexSize(index.record_count, index.list_size) + x.more)))))
Sample == [filters |-> <<Best>>, check |-> "crc32", compressed |-> VliUnknown, uncompressed |-> VliUnknown, fields |-> <<>>,
           payload |-> Stored, text |-> Text, foot |-> "crc32", more |-> 0]

GoodFiles ==
  {[Sample EXCEPT !.compressed = x[1], !.uncompressed = x[2]] : x \in {Here, VliUnknown} \X {Len(Text), VliUnknown}}
  \cup {[Sample EXCEPT !.check = "unknown", !.foot = "unknown"],
        [Sample EXCEPT !.check = "none", !.foot = "none", !.compressed = 7, !.payload = Lzma2Of(224, 1, 2, OneLiteral),
                       !.text = <<2>>]}
BadSizes == {<<Here - 1, Len(Text)>>, <<Here + 1, Len(Text)>>, <<Here, Len(Text) - 1>>, <<Here, Len(Text) + 1>>,
             <<Here - 1, Len(Text) - 1>>, <<VliMax, Len(Text)>>}
BadPayloads ==
  {<<3>> \o Stored, <<2>> \o Stored, <<224, 0, 1, 4>> \o Stored, <<1, 2>> \o SubSeq(Stored, 3, 5) \o <<3>>}
  \cup {Lzma2Of(x[1], x[2], x[3], x[4]) : x \in
          {<<160, 5, 2, OneLiteral>>, <<192, 5, 2, OneLiteral>>, <<224, 1, 1, OneLiteral>>, <<224, 1, 3, OneLiteral>>,
           <<224, 5, 2, OneLiteral>>, <<224, 1, 3, OneLiteral \o OneLiteral>>, <<224, 5, 2, <<Symbol(410, 0, 7)>> >>,
           <<224, 5, 3, <<Symbol(203, 0, 7), Symbol(301, 0, 8)>> >>, <<224, 1, 3, <<Symbol(203, 0, 7), Symbol(300, 0, 8)>> >>,
           <<224, 2, 4, OneLiteral \o <<Symbol(203, 0, 8), Symbol(300, 0, 9)>> >>,
           <<224, 5, 3, <<Symbol(203, 0, 7), Symbol(300 + EndDist, 0, 8)>> >>}}
BadHeaders == {<<4>>, <<0, 17, 2, 1, 12, 0, 1>>, <<0, 17, 2, 2, 1, 1>>, <<0, 3, 0>>, <<0, 5, 0>>, <<0, 17, 2, 1, 77>>,
               <<64, 0, 17, 2, 1, 12>>, <<0, 17, 2, 9>>, <<0, 17, 0>>, <<0, 17, 2, 17, 0>>, <<0, 16, 16, 16, 15>>}
BadFiles ==
  {[Sample EXCEPT !.compressed = x[1], !.uncompressed = x[2]] : x \in BadSizes}
  \cup {[Sample EXCEPT !.payload = x[1], !.filters = x[2]] : x \in BadPayloads \X {<<Best>>, <<InFront("arm", 0), Best>>}}
  \cup {[Sample EXCEPT !.fields = x] : x \in BadHeaders}
  \cup {[Sample EXCEPT !.foot = "none"], [Sample EXCEPT !.more = 4],
        [Sample EXCEPT !.filters = <<InFront("sparc", 2), Best>>],
        [Sample EXCEPT !.filters = <<InFront("delta", 1), InFront("delta", 1)>>]}
LzmaFile(dict, size) == <<1>> \o LeBytes(4, dict) \o LeBytes(8, size)
Others == {LzmaFile(x[1], x[2]) \o x[3] : x \in {<<DictSize - 1, 0, OneLiteral>>, <<8, PickySizeMax, <<>> >>,
                                                <<8, 0, <<FlushSymbol, 0>> >>}}
  \cup {<<PropsMax + 1>>, LzipMagic \o <<2>>, LzipMagic \o <<1, 2>>, LzipMagic \o <<1, LzipLogMin + 32>>, <<LzipMagic[1], 0>>,
        HeaderMagic \o <<1, 1>> \o CrcBytes(<<1, 1>>)}
AllFiles == {[bytes |-> Dressed(x), text |-> x.text, faulty |-> x \notin GoodFiles] : x \in GoodFiles \cup BadFiles}
              \cup {[bytes |-> x, text |-> Text, faulty |-> TRUE] : x \in Others}
Files == {[Setup(<<Best>>) EXCEPT !.format = "file", !.auto = TRUE, !.file = f.bytes, !.data = f.text, !.faulty = f.faulty,
             !.arrive = n, !.space = 9, !.flags = IF f.faulty THEN {"CONCATENATED"} ELSE {"TELL_UNSUPPORTED_CHECK"}] :
           f \in AllFiles, n \in {1, 99}}

(* In a single call.                                                       *)
Once(format, filters, check, data) ==
  [Setup(filters) EXCEPT !.format = format, !.check = check, !.data = data, !.room = 130,
                            !.rooms = {0, Len(data) - 1, Len(data), Len(data) + 1} \cap Nat]
Jumps == <<1, 2, 1, 3, 0, 1, 2>>
Singles ==
  {Once("stream_once", <<Best>>, x[1], x[2]) : x \in {<<"crc32", SubSeq(Noise, 1, 30)>>, <<"none", <<>> >>, <<"unknown", Jumps>>}}
  \cup {[Once("stream_once", <<InFront("arm", 0), Best>>, "sha256", SubSeq(Runs, 1, 8)) EXCEPT !.memlimit = 1, !.flags = {"CONCATENATED"}],
        [Once("stream_once", <<Best>>, "none", Jumps) EXCEPT !.flags = {"TELL_ANY_CHECK"}],
        [Once("block_once", <<InFront("arm", 0), Best>>, "none", SubSeq(Jumps, 1, 5)) EXCEPT !.rooms = 0 .. 6], Once("block_once", <<InFront("delta", 1), Best>>, "none", Jumps),
        [Once("block_once", <<InFront("x86", 0), Best>>, "none", Calls) EXCEPT !.rooms = {36, 41, 42}],
        Once("uncompressed_once", <<Best>>, "crc32", SubSeq(Mixed, 1, 29)),
        Once("raw_once", <<Lzma1("bt3", FALSE, 1, DictSize)>>, "none", Jumps),
        Once("raw_once", <<InFront("arm", 4), Best>>, "none", Jumps)}
AllSetups == Singles \cup Branching \cup Files \cup Searches \cup Flushed \cup Changed \cup Decoded \cup Damaged \cup Kinds
=============================================================================
