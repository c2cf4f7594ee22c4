------------------------------- MODULE XzArgs -------------------------------
(***************************************************************************)
(* The command line of the xz program, src/xz/args.c, and the settings     *)
(* that follow from it: threads and memory limits (hardware.c), the filter *)
(* chain and what is given up to stay within a limit (coder.c).            *)
(*                                                                         *)
(* Filter chains come as text. src/liblzma/common/string_conversion.c      *)
(* reads and writes whole chains, src/xz/options.c reads the options of    *)
(* one filter, and both know the presets of lzma_encoder_presets.c. A text *)
(* is a sequence of tokens: a word or a punctuation mark, or a number of   *)
(* digits. A reader returns the set of what it understood: one value, or   *)
(* none when the text is refused (or memory is short); which message it    *)
(* gives and at which place is left out.                                   *)
(*                                                                         *)
(* An option of the command line is a record [o, n, s, l]: its name, and a *)
(* number, a string or a list as its argument. Options are applied one     *)
(* after another to the record that holds every opt_ variable; a fatal     *)
(* message ends the program.                                               *)
(***************************************************************************)
EXTENDS Stepwise, SequencesExt

CONSTANT Shift      \* 10: a KiB is 2^Shift, and a uint32_t goes up to 4 GiB

ASSUME ShiftAssumption == Shift \in 4 .. 10

KiB == 2 ^ Shift
MiB == KiB * KiB
GiB == MiB * KiB
U32Max == 4 * GiB - 1

Mark(s)     == [s |-> s, n |-> 0]
Digits(n)   == [s |-> "", n |-> n]
IsDigits(t) == t.s = ""

(* --- presets ---                                                         *)
DictOf == <<MiB \div 4, MiB, 2 * MiB, 4 * MiB, 4 * MiB, 8 * MiB, 8 * MiB, 16 * MiB, 32 * MiB, 64 * MiB>>
FastPreset(level) ==
  [mode |-> "fast", mf |-> IF level = 0 THEN "hc3" ELSE "hc4", nice |-> IF level <= 1 THEN 128 ELSE 273,
   depth |-> <<4, 8, 24, 48>>[level + 1]]
NormalPreset(level) ==
  [mode |-> "normal", mf |-> "bt4", nice |-> CASE level = 4 -> 16 [] level = 5 -> 32 [] OTHER -> 64, depth |-> 0]
ExtremePreset(level) ==
  IF level \in {3, 5} THEN [mode |-> "normal", mf |-> "bt4", nice |-> 192, depth |-> 0]
  ELSE [mode |-> "normal", mf |-> "bt4", nice |-> 273, depth |-> 512]
LzmaPreset(level, extreme) ==
  LET search == CASE extreme -> ExtremePreset(level) [] ~extreme /\ level <= 3 -> FastPreset(level)
                  [] OTHER -> NormalPreset(level)
  IN [dict |-> DictOf[level + 1], lc |-> 3, lp |-> 0, pb |-> 2] @@ search

(* --- the options of the filters ---                                      *)
DefaultPreset == 6
Lzmas    == {"lzma1", "lzma2"}
Branches == {"x86", "arm", "armthumb", "arm64", "powerpc", "ia64", "sparc"}
Filters  == Lzmas \cup Branches \cup {"delta"}
LzmaOptions == <<"preset", "dict", "lc", "lp", "pb", "mode", "nice", "mf", "depth">>
OptionsOf(id) == CASE id \in Lzmas -> LzmaOptions [] id = "delta" -> <<"dist">> [] OTHER -> <<"start">>
ChoiceOf == [mode |-> {"fast", "normal"}, mf |-> {"hc3", "hc4", "bt2", "bt3", "bt4"}]
Limits == [dict |-> <<4 * KiB, GiB + GiB \div 2>>, lc |-> <<0, 4>>, lp |-> <<0, 4>>, pb |-> <<0, 4>>,
           nice |-> <<2, 273>>, depth |-> <<0, U32Max>>, start |-> <<0, U32Max>>, dist |-> <<1, 256>>]
ByteSuffix == {"dict", "start"}
Fresh(id) == CASE id \in Lzmas -> LzmaPreset(DefaultPreset, FALSE)
               [] id = "delta" -> [dist |-> 1]
               [] OTHER -> [start |-> 0]
SumFits(id, o) == id \in Lzmas => o.lc + o.lp <= 4

(* Pairs of a name and a value between commas; an empty pair is skipped.   *)
Before(text, marks) ==
  LET at == {k \in DOMAIN text : text[k].s \in marks}
  IN IF at = {} THEN Len(text) ELSE (CHOOSE k \in at : \A j \in at : k <= j) - 1
PairOf(item) ==
  LET k == Before(item, {"="})
  IN [name |-> IF k = 1 THEN item[1].s ELSE "", value |-> SubSeq(item, k + 2, Len(item))]
Pairs(text) ==
  LET items == Fold(LAMBDA list, t : IF t.s = "," THEN Append(list, <<>>) ELSE [list EXCEPT ![Len(list)] = Append(@, t)],
                    << <<>> >>, text)
      full == SelectSeq(items, LAMBDA item : item # <<>>)
  IN [k \in DOMAIN full |-> PairOf(full[k])]

(* A number, with a suffix of bytes or without.                            *)
Multiplier == [Ki |-> KiB, KiB |-> KiB, KB |-> KiB, k |-> KiB, K |-> KiB, m |-> MiB, M |-> MiB, MiB |-> MiB, GiB |-> GiB, g |-> GiB]
Number(value, limits) ==
  LET unit == IF Len(value) = 1 THEN 1 ELSE Multiplier[value[2].s]
      fits == value[1].n <= limits[2] \div unit
  IN IF fits /\ value[1].n * unit >= limits[1] THEN {value[1].n * unit} ELSE {}
IsNumber(value, suffixes) ==
  /\ IsDigits(value[1]) /\ value[1].n <= U32Max
  /\ Len(value) = 1 \/ (Len(value) = 2 /\ value[2].s \in suffixes)
Chosen(name, value) == IF Len(value) = 1 /\ value[1].s \in ChoiceOf[name] THEN {value[1].s} ELSE {}
PresetOf(value, most) ==
  IF IsDigits(value[1]) /\ value[1].n <= 9 /\ Len(value) <= most /\ \A k \in 2 .. Len(value) : value[k].s = "e"
  THEN {LzmaPreset(value[1].n, Len(value) > 1)} ELSE {}

(* --- lzma_str_to_filters ---                                             *)
ValueOf(name, value) ==
  CASE name \in DOMAIN ChoiceOf -> Chosen(name, value)
    [] name \notin DOMAIN ChoiceOf /\ ~IsNumber(value, IF name \in ByteSuffix THEN DOMAIN Multiplier ELSE {}) -> {}
    [] OTHER -> Number(value, Limits[name])
Assigned(id, o, pair) ==
  CASE ~Contains(OptionsOf(id), pair.name) \/ pair.value = <<>> -> {}
    [] Contains(OptionsOf(id), pair.name) /\ pair.value # <<>> /\ pair.name = "preset" -> PresetOf(pair.value, Len(pair.value))
    [] OTHER -> {[o EXCEPT ![pair.name] = v] : v \in ValueOf(pair.name, pair.value)}
ParseOptions(id, text) ==
  {o \in Fold(LAMBDA known, pair : UNION {Assigned(id, o, pair) : o \in known}, {Fresh(id)}, Pairs(text)) : SumFits(id, o)}

ParseFilter(text, only_xz) ==
  LET k == Before(text, {":", "="})
      name == IF k = 1 THEN text[1].s ELSE ""
  IN IF name \notin Filters \/ (only_xz /\ name = "lzma1") THEN {}
     ELSE {[id |-> name, options |-> o] : o \in ParseOptions(name, SubSeq(text, k + 2, Len(text)))}

SkipBlanks(text) ==
  LET k == CHOOSE j \in 0 .. Len(text) : (j = Len(text) \/ text[j + 1].s # " ") /\ \A i \in 1 .. j : text[i].s = " "
  IN SubSeq(text, k + 1, Len(text))

(* Filters are separated by spaces, or begin with two dashes; one that is  *)
(* empty is refused.                                                       *)
SplitAt(s, t) ==
  CASE t.s = " " -> [s EXCEPT !.open = FALSE]
    [] t.s = "--" -> [parts |-> Append(s.parts, <<>>), open |-> TRUE]
    [] OTHER -> IF s.open THEN [s EXCEPT !.parts[Len(s.parts)] = Append(@, t)]
                ELSE [parts |-> Append(s.parts, <<t>>), open |-> TRUE]
PartsOf(text) == Fold(SplitAt, [parts |-> <<>>, open |-> FALSE], text).parts

ValidChain(ids) == /\ ids # <<>> /\ Last(ids) \in Lzmas
                   /\ \A k \in 1 .. Len(ids) - 1 : ids[k] \notin Lzmas
IdsOf(filters) == [k \in DOMAIN filters |-> filters[k].id]

AsPreset(text) == {<< [id |-> "lzma2", options |-> o] >> : o \in PresetOf(text, Len(text))}
FiltersOf(text, flags) ==
  LET parts == PartsOf(text)
      Joined(known, part) == {c \o <<f>> : c \in known, f \in ParseFilter(part, "ALL_FILTERS" \notin flags)}
  IN IF Contains(parts, <<>>) \/ Len(parts) > 4 THEN {}
     ELSE {c \in Fold(Joined, {<<>>}, parts) : "NO_VALIDATION" \in flags \/ ValidChain(IdsOf(c))}
PresetText(text) == IF text[1].s = "-" THEN Tail(text) ELSE text
IsPreset(text) == text # <<>> /\ PresetText(text) # <<>> /\ IsDigits(PresetText(text)[1])
StrToFilters(text, flags) ==
  LET rest == SkipBlanks(text)
      parts == PartsOf(rest)
  IN CASE rest = <<>> -> {}
       [] rest # <<>> /\ IsPreset(rest) -> IF Len(parts) = 1 THEN AsPreset(PresetText(parts[1])) ELSE {}
       [] OTHER -> FiltersOf(rest, flags)

(* --- lzma_str_from_filters ---                                           *)
U32Text(v, bytes) ==
  CASE ~bytes \/ v = 0 \/ v % KiB # 0 -> <<Digits(v)>>
    [] v % GiB = 0 /\ v # 0 /\ bytes  -> <<Digits(v \div GiB), Mark("GiB")>>
    [] v % GiB # 0 /\ v % MiB = 0 /\ bytes -> <<Digits(v \div MiB), Mark("MiB")>>
    [] OTHER -> <<Digits(v \div KiB), Mark("KiB")>>
ValueText(name, v) == IF name \in DOMAIN ChoiceOf THEN <<Mark(v)>> ELSE U32Text(v, name \in ByteSuffix)
StrfyFilterWithoutZeros(delimiter, names, o) ==
  LET shown == SelectSeq(names, LAMBDA name : name # "preset" /\ ~(name \notin DOMAIN ChoiceOf /\ o[name] = 0))
  IN FlattenSeq([k \in DOMAIN shown |->
       <<Mark(IF k = 1 THEN delimiter ELSE ","), Mark(shown[k]), Mark("=")>> \o ValueText(shown[k], o[shown[k]])])
StrfyFilter(delimiter, names, o) ==
  LET shown == SelectSeq(names, LAMBDA name : name # "preset" /\ ~(name = "start" /\ o.start = 0))
  IN FlattenSeq([k \in DOMAIN shown |->
       <<Mark(IF k = 1 THEN delimiter ELSE ","), Mark(shown[k]), Mark("=")>> \o ValueText(shown[k], o[shown[k]])])
ShownOf(id, flags) ==
  LET count == CASE "ENCODER" \in flags -> Len(OptionsOf(id))
                 [] "ENCODER" \notin flags /\ "DECODER" \notin flags -> 0
                 [] OTHER -> CASE id = "lzma1" -> 5 [] id = "lzma2" -> 2 [] OTHER -> 1
  IN SubSeq(OptionsOf(id), 1, count)
FilterText(f, k, flags) ==
  (IF k > 1 /\ "NO_SPACES" \notin flags THEN <<Mark(" ")>> ELSE <<>>)
  \o (IF "GETOPT_LONG" \in flags \/ (k > 1 /\ "NO_SPACES" \in flags) THEN <<Mark("--")>> ELSE <<>>)
  \o <<Mark(f.id)>> \o StrfyFilter(IF "GETOPT_LONG" \in flags THEN "=" ELSE ":", ShownOf(f.id, flags), f.options)
StrFromFilters(filters, flags) ==
  IF filters = <<>> \/ Len(filters) > 4 THEN {}
  ELSE {FlattenSeq([k \in DOMAIN filters |-> FilterText(filters[k], k, flags)])}

(* --- options_lzma, options_delta, options_bcj of xz ---                  *)
(* Blanks before a number are skipped, max is the largest one, and every   *)
(* number may have a suffix.                                               *)
StrToUint64(value, limits) ==
  LET rest == SkipBlanks(value)
  IN CASE rest = <<Mark("max")>> -> {limits[2]}
       [] rest # <<Mark("max")>> /\ (rest = <<>> \/ ~IsNumber(rest, DOMAIN Multiplier)) -> {}
       [] OTHER -> Number(rest, limits)
SetLzmaPreset(value) == PresetOf(value, 2)
SetOption(id, o, pair) ==
  CASE ~Contains(OptionsOf(id), pair.name) \/ pair.value = <<>> -> {}
    [] Contains(OptionsOf(id), pair.name) /\ pair.value # <<>> /\ pair.name = "preset" -> SetLzmaPreset(pair.value)
    [] Contains(OptionsOf(id), pair.name) /\ pair.value # <<>> /\ pair.name \in DOMAIN ChoiceOf ->
         {[o EXCEPT ![pair.name] = v] : v \in Chosen(pair.name, pair.value)}
    [] OTHER -> {[o EXCEPT ![pair.name] = v] : v \in StrToUint64(pair.value, Limits[pair.name])}
AllSet(id, pairs) ==
  Fold(LAMBDA known, pair : UNION {SetOption(id, o, pair) : o \in known}, {Fresh(id)}, pairs)
OptionsFrom(id, text) == {o \in AllSet(id, Pairs(text)) : SumFits(id, o)}

-----------------------------------------------------------------------------
(* --- the command line ---                                               *)
CONSTANTS MaxThreads,     \* 16384
          Unlimited       \* UINT64_MAX

ASSUME ArgsAssumption == MaxThreads \in Nat /\ Unlimited \in Nat \ 0 .. MaxThreads

Fatal(p) == [p EXCEPT !.fatal = TRUE]
Smaller(x, y) == IF x < y THEN x ELSE y
InRange(p, n, lo, hi, q) == IF n \in lo .. hi THEN q ELSE Fatal(p)

(* --- hardware.c ---                                                       *)
ForcedMt == MaxThreads + 1      \* --threads=+1
ThreadsSet(p, n) ==
  LET q == [p EXCEPT !.automatic = n = 0, !.mt_one = n \in {0, ForcedMt}]
  IN CASE n = 0 -> [q EXCEPT !.threads = IF q.cpus = 0 THEN 1 ELSE q.cpus]
       [] n = ForcedMt -> [q EXCEPT !.threads = 1]
       [] OTHER -> [q EXCEPT !.threads = n]
IsMt(p) == p.threads > 1 \/ p.mt_one

TotalRam(p) == IF p.ram = 0 THEN 128 ELSE p.ram
MtDefault(p) == TotalRam(p) \div 4
MemlimitSet(p, value, compress, decompress, mtdec) ==
  [p EXCEPT !.limit_compress = IF compress THEN value ELSE @,
            !.limit_decompress = IF decompress THEN value ELSE @,
            !.limit_mtdec = IF mtdec THEN value ELSE @]
MemlimitGet(p, mode) ==
  LET limit == IF mode = "compress" THEN p.limit_compress ELSE p.limit_decompress
  IN IF limit # 0 THEN limit ELSE Unlimited
MtEncIsDefault(p) == p.limit_compress = 0 /\ p.automatic
MtEncGet(p) == IF MtEncIsDefault(p) THEN MtDefault(p) ELSE MemlimitGet(p, "compress")
MtDecGet(p) ==
  LET m == IF p.limit_mtdec # 0 THEN p.limit_mtdec ELSE MtDefault(p)
  IN IF p.limit_decompress # 0 /\ m > p.limit_decompress THEN p.limit_decompress ELSE m

(* --- the filter chain, coder.c ---                                        *)
ForgetFilterChain(p) == [p EXCEPT !.filters = <<>>]
SetPreset(p, n) == ForgetFilterChain([p EXCEPT !.preset = n])
SetExtreme(p) == ForgetFilterChain([p EXCEPT !.extreme = TRUE])
Filter(id, o) == [id |-> id, options |-> o]
CoderAddFilter(p, id, o) ==
  IF Len(p.filters) = 4 THEN Fatal(p)
  ELSE [p EXCEPT !.filters = Append(@, Filter(id, o)), !.preset = DefaultPreset, !.extreme = FALSE]
AddFilter(p, id, text) ==
  LET known == OptionsFrom(id, text)
  IN IF known = {} THEN Fatal(p) ELSE CoderAddFilter(p, id, CHOOSE o \in known : TRUE)

(* --- parse_real, one option at a time ---                                 *)
Memlimits == {"memlimit-compress", "memlimit-decompress", "memlimit-mt-decompress", "memlimit"}
ParseMemlimit(p, t) ==
  LET percent == t.s = "%"
      value == IF percent THEN (t.n * TotalRam(p)) \div 100 ELSE t.n
  IN InRange(p, t.n, IF percent THEN 1 ELSE 0, IF percent THEN 100 ELSE Unlimited,
             MemlimitSet(p, value, t.o \in {"memlimit-compress", "memlimit"},
                         t.o \in {"memlimit-decompress", "memlimit"},
                         t.o \in {"memlimit-mt-decompress", "memlimit"}))

Coding(p, t) ==
  CASE t.o = "preset" -> SetPreset(p, t.n)
    [] t.o = "extreme" -> SetExtreme(p)
    [] t.o = "threads" -> InRange(p, t.n, 0, MaxThreads, ThreadsSet(p, IF t.n = 1 /\ t.s = "+" THEN ForcedMt ELSE t.n))
    [] t.o = "no-adjust" -> [p EXCEPT !.adjust = FALSE]
    [] OTHER -> AddFilter(p, t.o, t.l)

Modes == {"compress", "decompress", "test", "list"}
Formats == {"auto", "xz", "lzma", "lzip", "raw"}
Checks == {"none", "crc32", "crc64", "sha256"}
Choice(p, t) ==
  CASE t.o \in Modes -> [p EXCEPT !.mode = t.o]
    [] t.o = "format" -> IF t.s = "alone" THEN [p EXCEPT !.format = "lzma"]
                         ELSE IF t.s \in Formats THEN [p EXCEPT !.format = t.s] ELSE Fatal(p)
    [] OTHER -> IF t.s \in Checks THEN [p EXCEPT !.check = t.s] ELSE Fatal(p)

Switch(p, t) ==
  CASE t.o = "stdout" -> [p EXCEPT !.stdout = TRUE]
    [] t.o = "force" -> [p EXCEPT !.force = TRUE]
    [] t.o = "keep" -> [p EXCEPT !.keep = TRUE]
    [] t.o = "no-sparse" -> [p EXCEPT !.sparse = FALSE]
    [] t.o = "single-stream" -> [p EXCEPT !.single = TRUE]
    [] t.o = "ignore-check" -> [p EXCEPT !.ignore_check = TRUE]
    [] t.o = "no-warn" -> [p EXCEPT !.no_warn = TRUE]
    [] t.o = "robot" -> [p EXCEPT !.robot = TRUE]
    [] t.o = "quiet" -> [p EXCEPT !.verbosity = IF @ > 0 THEN @ - 1 ELSE @]
    [] OTHER -> [p EXCEPT !.verbosity = IF @ < 4 THEN @ + 1 ELSE @]
Switches == {"stdout", "force", "keep", "no-sparse", "single-stream", "ignore-check", "no-warn", "robot",
             "quiet", "verbose"}

(* parse_block_list: an empty item repeats the one before it; zero, the     *)
(* last one only, stands for all that is left. The items are numbers, -1    *)
(* where one is empty.                                                      *)
ParseBlockList(p, items) ==
  LET B[i \in 0 .. Len(items)] ==
        IF i = 0 THEN <<>>
        ELSE Append(B[i-1], CASE items[i] = 0 -> Unlimited
                              [] items[i] > 0 -> items[i]
                              [] OTHER -> IF i > 1 THEN B[i-1][i-1] ELSE 0)
  IN IF items = <<>> \/ items[1] < 0 \/ \E i \in 1 .. Len(items) - 1 : items[i] = 0 THEN Fatal(p)
     ELSE [p EXCEPT !.block_list = B[Len(items)]]

(* --files and --files0: names come from a file, or from standard input.    *)
FilesFrom(p, t) ==
  IF p.files_name # "" \/ t.s = "missing" THEN Fatal(p)
  ELSE [p EXCEPT !.files_name = t.s, !.files = t.l]

Plain(p, t) ==
  CASE t.o = "suffix" -> IF t.s = "" THEN Fatal(p) ELSE [p EXCEPT !.suffix = t.s]
    [] t.o = "block-size" -> InRange(p, t.n, 0, Unlimited - 1, [p EXCEPT !.block_size = t.n])
    [] t.o = "flush-timeout" -> InRange(p, t.n, 0, Unlimited, [p EXCEPT !.flush_timeout = t.n # 0])
    [] t.o = "block-list" -> ParseBlockList(p, t.l)
    [] t.o = "files" -> FilesFrom(p, t)
    [] OTHER -> Fatal(p)

Option(p, t) ==
  CASE t.o \in Memlimits -> ParseMemlimit(p, t)
    [] t.o \in Filters \cup {"preset", "extreme", "threads", "no-adjust"} -> Coding(p, t)
    [] t.o \in Modes \cup {"format", "check"} -> Choice(p, t)
    [] t.o \in Switches -> Switch(p, t)
    [] OTHER -> Plain(p, t)
ParseReal(start, options) == Fold(LAMBDA p, t : IF p.fatal THEN p ELSE Option(p, t), start, options)

(* --- coder_set_compression_settings ---                                   *)
(* lzma_raw_encoder_memusage and lzma_stream_encoder_mt_memusage: an LZMA   *)
(* filter ends a chain, needs twice its dictionary, and a thread needs room *)
(* for a Block besides.                                                     *)
Dict(p)   == Last(p.filters).options.dict
InMiB(n)  == (n + MiB - 1) \div MiB
RawMem(p) == 2 * InMiB(Dict(p))
MtMem(p, threads) == threads * (RawMem(p) + 3)

DefaultFilter(p) == Filter(IF p.format = "lzma" THEN "lzma1" ELSE "lzma2", LzmaPreset(p.preset, p.extreme))
WithDefaults(p) ==
  [p EXCEPT !.check = IF @ = "" THEN "crc64" ELSE @,
            !.filters = IF @ = <<>> THEN <<DefaultFilter(p)>> ELSE @]

(* message_filters_show: with -vv the chain is shown, as options that give *)
(* it again.                                                               *)
Debugs == 4
NotShown == [of |-> <<>>, text |-> <<>>]
FiltersShown(p) ==
  IF p.verbosity < Debugs THEN p
  ELSE [p EXCEPT !.shown = [of |-> p.filters,
                            text |-> CHOOSE t \in StrFromFilters(p.filters, {"ENCODER", "GETOPT_LONG"}) : TRUE]]
BadChain(p) ==
  \/ p.format = "lzma" /\ IdsOf(p.filters) # <<"lzma1">>
  \/ p.format = "xz" /\ \E k \in DOMAIN p.filters : p.filters[k].id = "lzma1"
  \/ p.mode = "compress" /\ p.flush_timeout /\ \E k \in DOMAIN p.filters : p.filters[k].id \notin {"lzma2", "delta"}
  \/ ~ValidChain(IdsOf(p.filters))

MtEncodes(p) == p.mode = "compress" /\ p.format = "xz" /\ IsMt(p)
MemLimit(p) == IF MtEncodes(p) THEN MtEncGet(p) ELSE MemlimitGet(p, IF p.mode = "compress" THEN p.mode ELSE "decompress")
Fits(p) == (IF MtEncodes(p) THEN MtMem(p, p.mt_threads) ELSE RawMem(p)) <= MemLimit(p)

(* Fewer threads first; then one thread without its Block, unless the limit *)
(* is nobody's wish; then a smaller dictionary.                             *)
FewerThreads(p) ==
  LET fit == {t \in 1 .. p.mt_threads - 1 : MtMem(p, t) <= MemLimit(p)}
  IN IF fit = {} THEN [p EXCEPT !.mt_threads = 1]
     ELSE [p EXCEPT !.mt_threads = CHOOSE t \in fit : \A u \in fit : u <= t]
SmallerDict(p) ==
  LET fit == {d \in 1 .. Dict(p) \div MiB : 2 * d <= MemLimit(p)}
  IN IF ~p.adjust \/ fit = {} THEN Fatal(p)
     ELSE [p EXCEPT !.filters[Len(p.filters)].options.dict = MiB * (CHOOSE d \in fit : \A e \in fit : e <= d)]
OneThreadAnyway(p) == IF MtEncIsDefault(p) THEN p ELSE ThreadsSet(p, 1)
OneThread(p) ==
  LET q == ThreadsSet(p, 1)
  IN CASE MtEncIsDefault(p) -> p
       [] ~MtEncIsDefault(p) /\ ~p.adjust -> Fatal(p)
       [] OTHER -> IF Fits(q) THEN q ELSE SmallerDict(q)
Fitted(p) ==
  CASE Fits(p) -> p
    [] ~Fits(p) /\ p.format = "raw" -> Fatal(p)
    [] ~Fits(p) /\ p.format # "raw" /\ MtEncodes(p) ->
         With(FewerThreads(p), LAMBDA q : IF Fits(q) THEN q ELSE OneThread(q))
    [] OTHER -> SmallerDict(p)

SetCompressionSettings(p) ==
  LET OneIfFlushed(q) == IF q.mode = "compress" /\ q.flush_timeout /\ IsMt(q) THEN ThreadsSet(q, 1) ELSE q
      Sized(q) == With([q EXCEPT !.mt_threads = q.threads], Fitted)
  IN With(FiltersShown(WithDefaults(p)), LAMBDA q : IF BadChain(q) THEN Fatal(q) ELSE With(OneIfFlushed(q), Sized))

(* --- args_parse ---                                                       *)
ByName(p) ==
  CASE p.progname \in {"xzcat", "unxz", "lzcat", "unlzma"} ->
         [p EXCEPT !.mode = "decompress", !.stdout = p.progname \in {"xzcat", "lzcat"},
                   !.format = IF p.progname \in {"lzcat", "unlzma"} THEN "lzma" ELSE @]
    [] p.progname = "lzma" -> [p EXCEPT !.format = "lzma"]
    [] OTHER -> p

(* A test, and whatever goes to standard output, leaves its source alone.   *)
Implied(p) ==
  LET kept == IF p.stdout \/ p.mode = "test" THEN [p EXCEPT !.keep = TRUE, !.stdout = TRUE] ELSE p
  IN IF kept.mode = "compress" /\ kept.format = "auto" THEN [kept EXCEPT !.format = "xz"] ELSE kept
Settled(p) == IF p.mode = "compress" \/ (p.format = "raw" /\ p.mode # "list")
              THEN SetCompressionSettings(p) ELSE p
NeedsSuffix(p) == p.format = "raw" /\ p.suffix = "" /\ ~p.stdout /\ p.mode \in {"compress", "decompress"}

AskedFor(p) == IF p.fatal \/ (p.mode = "compress" /\ p.format = "lzip") THEN Fatal(p) ELSE With(Implied(p), Settled)
ArgsParse(start) ==
  With(With(ParseReal(ByName(start), start.env \o start.argv), AskedFor),
       LAMBDA q : IF q.fatal \/ NeedsSuffix(q) THEN Fatal(q) ELSE [q EXCEPT !.mt = IsMt(q)])
=============================================================================
