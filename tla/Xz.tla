--------------------------------- MODULE Xz ---------------------------------
(* The xz program, src/xz/main.c: it applies its options, goes through the *)
(* files it is given, by name or in a list of names, and ends with an exit *)
(* status, or by the signal that it got on the way.                        *)
EXTENDS XzCoder, XzArgs

VARIABLES args      \* the names still to come

CONSTANTS Setups    \* what the program is started with, and where

vars == <<opt, files, proc, pair, io, at, coderVars, listVars, args>>

(* --- Init: see MCXz for the setups ---                                   *)
Dash == [stem |-> "-", suf |-> <<>>]
Init ==
  /\ \E k \in DOMAIN Setups :
       /\ opt = Setups[k].opt /\ names = Setups[k].names /\ inodes = Setups[k].inodes
       /\ std = [in_pos |-> 0, in_nonblock |-> FALSE, restore_in |-> FALSE,
                 out_pos |-> 0, out_append |-> Setups[k].opt.appends, out_nonblock |-> FALSE, restore_out |-> FALSE,
                 saved_append |-> FALSE, saved_nonblock |-> FALSE]
       /\ args = [argv |-> Setups[k].argv, files |-> <<>>]
  /\ proc = [abort |-> FALSE, signal |-> FALSE, byte |-> FALSE, eintr |-> FALSE, status |-> "success"]
  /\ pair = FreshPair(NoPath) /\ io = NoIo /\ at = "args"
  /\ strm = [in |-> <<>>, out |-> <<>>, lz |-> Lz("head", "auto")]
  /\ loc = Local("RUN", 0, 0, 1)
  /\ info = NoInfo /\ totals = NoTotals

(* --- before the first file ---                                           *)
Main(place) == at = place /\ UNCHANGED <<names, inodes, std, pair, io, coderVars, info>>
OnlyDash == args.argv = <<Dash>> \/ args.argv = <<>>
ParseArgs ==
  /\ Main("args") /\ UNCHANGED totals
  /\ \E p \in {ArgsParse(opt)} :
       /\ opt' = p
       /\ args' = [argv |-> IF args.argv = <<>> /\ p.files_name = "" THEN <<Dash>> ELSE args.argv,
                   files |-> p.files]
       /\ IF \/ p.fatal
             \/ p.mode # "list" /\ p.robot
             \/ p.mode = "compress" /\ (p.stdout \/ OnlyDash) /\ p.tty_out
          THEN Die ELSE Goto("next") /\ UNCHANGED proc

(* --- one file after another ---                                          *)
Run(path) == IF opt.mode = "list" THEN ListFile(path)
             ELSE /\ OpenSrc(path, IF opt.mode = "compress" THEN "init" ELSE "read")
                  /\ UNCHANGED <<coderVars, listVars>>
Skip(p) == proc' = p /\ UNCHANGED <<opt, files, pair, io, at, coderVars, listVars>>

(* A dash is standard input, unless that is a terminal, or has the names.  *)
TtyInTheWay == IF opt.mode = "compress" THEN opt.tty_out ELSE opt.tty_in
NextArg ==
  /\ at = "next" /\ args.argv # <<>> /\ ~proc.abort
  /\ args' = [args EXCEPT !.argv = Tail(@)]
  /\ LET name == Head(args.argv)
     IN CASE name # Dash -> Run(name)
          [] name = Dash /\ TtyInTheWay -> Skip(Erred(proc))
          [] name = Dash /\ ~TtyInTheWay /\ opt.files_name = "stdin" -> Skip(Erred(proc))
          [] OTHER -> Run(Stdin)

(* read_name: empty names are skipped; a null character where it does not  *)
(* belong, or an end in the middle of a name, ends the list with an error. *)
MoreNames == (args.argv = <<>> \/ proc.abort) /\ args.files # <<>> /\ ~proc.abort
Bad(entry) == entry.nul \/ ~entry.ended
NextName ==
  /\ at = "next" /\ MoreNames
  /\ LET entry == Head(args.files)
     IN /\ args' = [args EXCEPT !.files = IF Bad(entry) THEN <<>> ELSE Tail(@)]
        /\ CASE Bad(entry) -> Skip(Erred(proc))
             [] ~Bad(entry) /\ entry.path = EmptyName -> Skip(proc)
             [] OTHER -> Run(entry.path)

(* --- the end ---                                                         *)
Finish ==
  /\ Main("next") /\ (args.argv = <<>> \/ proc.abort) /\ ~MoreNames /\ Goto("exit") /\ UNCHANGED <<opt, proc, args>>
  /\ IF opt.mode = "list" THEN ListTotals ELSE UNCHANGED totals
(* signals_exit raises the signal again, with its default action.          *)
Exit ==
  /\ Main("exit") /\ UNCHANGED <<opt, args, totals>>
  /\ IF proc.signal THEN Goto("killed") /\ UNCHANGED proc
     ELSE /\ Goto("ended")
          /\ proc' = [proc EXCEPT !.status = IF @ = "warning" /\ opt.no_warn THEN "success" ELSE @]

(* Only a pipe that nobody fills or empties any more keeps it waiting.     *)
Ended == at \in {"ended", "killed"} /\ UNCHANGED vars
Waits == at = "poll" /\ (opt.stays_open \/ opt.stalls) /\ UNCHANGED vars

(* --- all of it ---                                                       *)
Rest == UNCHANGED <<coderVars, listVars, args>>
AwaitIt == AwaitSrc(IF opt.mode = "compress" THEN "init" ELSE "read") /\ Rest
Wait == IoWait /\ Rest
Read == IoRead /\ Rest
Open == OpenDest /\ Rest
Write == (IoWrite \/ WriteBroken) /\ Rest
Close == IoClose /\ Rest
Signal == SignalArrives /\ Rest
World == (Supply \/ WriterCloses \/ Drain \/ ReaderLeaves \/ Move) /\ Rest
Coding_ == CoderRun /\ UNCHANGED <<listVars, args>>
List == ListRun /\ UNCHANGED args

Program == ParseArgs \/ NextArg \/ NextName \/ Finish \/ Exit \/ AwaitIt \/ Wait \/ Read \/ Open
           \/ Write \/ Close \/ Coding_ \/ List
Next == Program \/ Signal \/ World \/ Ended \/ Waits

(* The program goes on, and so do the others when they do anything at all. *)
Spec == Init /\ [][Next]_vars /\ WF_vars(Program) /\ WF_vars(World)

(* --- what must hold ---                                                  *)
Given == {opt.given[k] : k \in DOMAIN opt.given}
Start0(path) == opt.names0[path]
File0(path) == LET i == Start0(path)
               IN IF inodes[i].kind = "link" THEN Start0(inodes[i].to) ELSE i
Named == {path \in Given \ {Stdin} : path \in DOMAIN names /\ Start0(path) # None}
Result(path) == DestName(path)

(* What coded data means, and when it is all there. With --single-stream,  *)
(* and behind a .lz file, what follows the first Stream does not count.    *)
Meaning(units) == LET codes == SelectSeq(units, LAMBDA u : u >= Code)
                  IN [k \in DOMAIN codes |-> codes[k] - Code]
Feet == {XzFoot, LzmaFoot}
FirstOf(units) == LET ends == {k \in DOMAIN units : units[k] \in Feet}
                  IN IF ends = {} THEN units
                     ELSE SubSeq(units, 1, CHOOSE k \in ends : \A j \in ends : k <= j)
Counts(units) == IF opt.single \/ (units # <<>> /\ units[1] = LzipHead) THEN FirstOf(units) ELSE units
Whole(units) == /\ units # <<>> /\ units[Len(units)] \in Feet \cup {0}
                /\ \A k \in DOMAIN units : units[k] \notin {BadHeader, TooBig}
Passes(units) == opt.mode = "decompress" /\ opt.stdout /\ opt.force /\ opt.format # "raw"
                 /\ (units = <<>> \/ units[1] \notin {XzHead, LzipHead, LzmaHead})
Output(units) == IF Passes(units) THEN units ELSE Meaning(Counts(units))
Matches(source, target) == IF opt.mode = "compress" THEN Whole(target) /\ Meaning(target) = source
                           ELSE Whole(Counts(source)) /\ target = Output(source)

(* A source is removed only when its target is there, under its name,      *)
(* complete and with the attributes of the source: whatever fails, and     *)
(* whenever a signal comes.                                                *)
Replaced(path) == path \in opt.moved /\ inodes[opt.other].taken = 1
Stands(path, i) ==
  LET d == Result(path)
  IN \/ d \in opt.moved
     \/ /\ d # NoPath /\ names[d] # None
        /\ inodes[names[d]].attrs \in {"source", "restricted"}
        /\ Matches(inodes[i].data, inodes[names[d]].data)
TargetStands(path) == Stands(path, File0(path)) \/ (Replaced(path) /\ Stands(path, opt.other))
SourceKept ==
  \A path \in Named : names[path] = None =>
    ~opt.keep /\ Stands(path, IF Replaced(path) THEN opt.other ELSE File0(path))

(* Between two files, and at the end, no name stands for a target that is  *)
(* not whole, and no file that was there has been replaced, unless --force *)
(* said so. A target of which nothing is known, because fstat failed, and  *)
(* one that cannot be removed, stay.                                       *)
Own(d) == names[d] # None /\ names[d] # opt.other /\ names[d] # Start0(d)
TargetsWhole ==
  /\ \A d \in DOMAIN names \ (opt.moved \cup Given) :
       Start0(d) # None /\ ~opt.force => names[d] = Start0(d)
  /\ at \in {"next", "exit", "ended", "killed"} /\ opt.faults \cap {"unlink", "fstat"} = {} =>
       \A d \in DOMAIN names \ opt.moved :
         Own(d) => \E path \in Named : Result(path) = d /\ TargetStands(path)

(* Standard input and output are left as they were found: the flags that   *)
(* were changed are set back whatever happens, if that can be done.        *)
FlagsRestored ==
  at \in {"next", "exit", "ended", "killed"} /\ "fcntl" \notin opt.faults =>
    ~std.in_nonblock /\ ~std.out_nonblock /\ std.out_append = opt.appends

(* Status 0 says that everything went well: each name that was given was   *)
(* a file's, which has its target, or standard output has them all, one    *)
(* after the other; and what was tested or listed is valid. The totals     *)
(* count every Stream, Block and unit of every file that was listed, and,  *)
(* when the headers of the Blocks were read, what the most demanding asks. *)
(* One exception: when the reader of a pipe leaves while SIGPIPE is        *)
(* ignored, EPIPE ends the file, and nothing is said (io_write_buf).       *)
Found(path) == path \in DOMAIN opt.names0 /\ Start0(path) # None /\ File0(path) # None
Input(path) == opt.whole[IF path = Stdin THEN opt.stdin ELSE File0(path)]
AllOutput ==
  LET O[k \in 0 .. Len(opt.given)] ==
        IF k = 0 THEN <<>>
        ELSE O[k-1] \o (IF opt.mode = "compress" THEN Input(opt.given[k]) ELSE Output(Input(opt.given[k])))
  IN O[Len(opt.given)]

(* What the listed files hold, unit by unit; a header follows a head or    *)
(* the end of a Block.                                                     *)
Places(units) == UNION {{<<k, j>> : j \in {n \in DOMAIN Input(opt.given[k]) : Input(opt.given[k])[n] \in units}}
                        : k \in DOMAIN opt.given}
HowMany(units) == Cardinality(Places(units))
Headers == {h \in UNION {{Input(opt.given[p[1]])[p[2] + 1]} : p \in Places({XzHead, BlockEnd})} : h # XzFoot}
TotalsTellAll ==
  /\ totals.files = Len(opt.given)
  /\ totals.streams = HowMany({XzFoot}) /\ totals.blocks = HowMany({BlockEnd})
  /\ totals.unc = HowMany((Code .. Code + 9) \cup {BadHeader}) /\ totals.padding = HowMany({0})
  /\ totals.size = totals.unc + totals.padding + totals.blocks + 2 * totals.streams
  /\ Detailed => /\ totals.memusage_max \in Headers \cup {0} /\ \A h \in Headers : h <= totals.memusage_max
                 /\ totals.sizes <=> \A h \in Headers : h % 2 = 0
                 /\ totals.min_version = CASE Code + 3 \in Headers -> 4
                                            [] Code + 3 \notin Headers /\ BlockEnd \in Headers -> 3
                                            [] OTHER -> 2
Delivered == LET out == SubSeq(inodes[opt.stdout_ino].data, opt.out0 + 1, Len(inodes[opt.stdout_ino].data))
        IN IF opt.mode = "compress" THEN Meaning(out) = AllOutput ELSE out = AllOutput
EndsWell == at = "ended" /\ proc.status = "success" /\ ~opt.no_warn /\ ~(opt.pipe_ignored /\ opt.hangs_up)
ExitTellsTruth ==
  EndsWell =>
    /\ \A path \in Given \ {Stdin} : Found(path)
    /\ CASE opt.mode = "list" -> TotalsTellAll /\ \A path \in Given : IndexOf(Input(path)).ok
         [] opt.mode = "test" -> \A path \in Given : Whole(Counts(Input(path)))
         [] opt.mode \in {"compress", "decompress"} /\ (opt.stdout \/ Stdin \in Given) -> Delivered
         [] OTHER -> \A path \in Given : TargetStands(path)

(* The encoder that is made needs no more memory than the user allowed:    *)
(* when threads and the dictionary have been cut down to that, what was    *)
(* cut down is what coder_init uses. Without a limit of the user's own the *)
(* automatic one may be exceeded.                                          *)
EncoderMem == IF opt.mt /\ opt.format = "xz" THEN MtMem(opt, opt.mt_threads) ELSE RawMem(opt)
StaysWithinLimit ==
  at = "init" /\ opt.mode = "compress" /\ opt.limit_compress # 0 => EncoderMem <= opt.limit_compress

(* What xz -vv shows, given again as options or to lzma_str_to_filters,    *)
(* makes the chain xz had then, and that is the chain it uses, but for the *)
(* dictionary: it may be cut down afterwards, by no more than the user's   *)
(* limit asks for (coder_set_compression_settings). What                   *)
(* lzma_str_to_filters reads, lzma_str_from_filters writes in any of its   *)
(* forms such that it is read again. And options of a filter that liblzma  *)
(* takes mean the same to xz, but for an "e" that is repeated in a preset, *)
(* which liblzma alone takes.                                              *)
ShownDict == Last(opt.shown.of).options.dict
UsedAsShown ==
  /\ opt.filters = [opt.shown.of EXCEPT ![Len(opt.shown.of)].options.dict = Dict(opt)]
  /\ Dict(opt) # ShownDict =>
       /\ Dict(opt) < ShownDict /\ opt.adjust /\ opt.limit_compress # 0
       /\ 2 * InMiB(ShownDict) > opt.limit_compress /\ 2 * InMiB(Dict(opt) + MiB) > opt.limit_compress
GivenAgain(part) == LET k == Before(part, {"="})
                    IN {Filter(part[1].s, o) : o \in OptionsFrom(part[1].s, SubSeq(part, k + 2, Len(part)))}
Forms == {{"ENCODER"} \cup f : f \in SUBSET {"GETOPT_LONG", "NO_SPACES"}}
SurvivesAnyForm(chain) == \A form \in Forms : \A t \in StrFromFilters(chain, form) : StrToFilters(t, {"ALL_FILTERS"}) = {chain}
Repeats(text) == \E k \in 2 .. Len(text) : text[k - 1].s = "e" /\ text[k].s = "e"
FiltersAsShown ==
  /\ opt.shown # NotShown /\ at = "next" =>
       /\ StrToFilters(opt.shown.text, {"ALL_FILTERS"}) = {opt.shown.of}
       /\ UsedAsShown
       /\ \A k \in DOMAIN opt.shown.of : GivenAgain(PartsOf(opt.shown.text)[k]) = {opt.shown.of[k]}
  /\ at = "args" =>
       /\ \A chain \in StrToFilters(opt.text, {}) : SurvivesAnyForm(chain)
       /\ \A k \in DOMAIN opt.argv : opt.argv[k].o \in Filters /\ ~Repeats(opt.argv[k].l) =>
            ParseOptions(opt.argv[k].o, opt.argv[k].l) \subseteq OptionsFrom(opt.argv[k].o, opt.argv[k].l)

(* A signal ends the program, though the other side of a pipe neither      *)
(* reads nor writes any more.                                              *)
AbortEnds == proc.signal ~> at \in {"ended", "killed"}

(* With --flush-timeout what was read comes out in the end, also when the  *)
(* writer stays silent without closing the pipe.                           *)
Taken == Len(opt.whole[opt.stdin]) - Len(inodes[opt.stdin].data) - Len(inodes[opt.stdin].more)
FlushedInTime == \A n \in 1 .. 3 :
  opt.flush_timeout /\ opt.stays_open /\ ~opt.stalls /\ Taken >= n
    ~> Len(Meaning(inodes[opt.stdout_ino].data)) >= n

=============================================================================
