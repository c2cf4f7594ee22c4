------------------------------- MODULE FileIO -------------------------------
(* Files as the xz program opens, reads, writes and closes them,           *)
(* src/xz/file_io.c: a source, a target, and what is left of both when     *)
(* something fails or a signal arrives in between.                         *)
(*                                                                         *)
(* The file system is a directory (names to inode numbers, 0 for none) and *)
(* inodes; standard input and output are inodes of their own. A file is a  *)
(* sequence of units, 0 being a unit of zero bytes, and io_buf holds       *)
(* BufSize of them. A system call fails when the setting says that this    *)
(* kind of call may. Signals are blocked where the code blocks them: what  *)
(* is done there is one step, or a few steps at which none is delivered.   *)
EXTENDS Integers, Sequences, FiniteSets

CONSTANTS BufSize,    \* units in io_buf
          PipeSize    \* units a pipe holds

ASSUME SizesAssumption == {BufSize, PipeSize} \subseteq Nat \ {0}

VARIABLES opt,      \* the options, and the setting the program runs in
          names,    \* the directory
          inodes,   \* contents and attributes
          std,      \* flags and positions of standard input and output
          proc,     \* user_abort, exit_signal, the self-pipe, exit_status
          pair,     \* file_pair
          io,       \* the io_read, io_write or io_wait going on
          at        \* where the program is

files == <<names, inodes, std>>

(* A file name is a stem and the suffixes that follow it.                  *)
NoPath == [stem |-> "(none)", suf |-> <<>>]
Stdin == [stem |-> "(stdin)", suf |-> <<>>]
Stdout == [stem |-> "(stdout)", suf |-> <<>>]
EmptyName == [stem |-> "", suf |-> <<>>]
None == 0
MayFail(call) == call \in opt.faults

Later(x, y) == IF x > y THEN x ELSE y
Lesser(x, y) == IF x < y THEN x ELSE y
Zeros(n) == [k \in 1 .. n |-> 0]

(* --- messages count for the exit status: an error is never taken back -- *)
Raised(p, status) == IF p.status = "error" THEN p ELSE [p EXCEPT !.status = status]
Warned(p) == Raised(p, "warning")
Erred(p) == Raised(p, "error")

(* --- the kernel ---                                                      *)
Resolved(path) == LET i == names[path]
                  IN IF i # None /\ inodes[i].kind = "link" THEN names[inodes[i].to] ELSE i
IsRegular(i) == inodes[i].kind = "reg"
(* What a write leaves of a file: a gap it skipped reads as zeros.         *)
Written(data, pos, units) ==
  SubSeq(data, 1, Lesser(pos, Len(data))) \o Zeros(Later(0, pos - Len(data))) \o units
    \o SubSeq(data, pos + Len(units) + 1, Len(data))
Readable(i, pos) == IF IsRegular(i) THEN TRUE ELSE inodes[i].data # <<>> \/ ~inodes[i].open
Writable(i) == IF IsRegular(i) THEN TRUE
               ELSE Len(inodes[i].data) - inodes[i].taken < PipeSize \/ ~inodes[i].open

(* --- io_open_src ---                                                     *)
FollowSymlinks == opt.stdout \/ opt.force \/ opt.keep
RegFilesOnly == ~opt.stdout

OpenVerdict(path) ==
  LET i == Resolved(path)
      link == names[path] # None /\ inodes[names[path]].kind = "link"
  IN CASE link /\ ~FollowSymlinks -> "warning"
       [] ~(link /\ ~FollowSymlinks) /\ i = None -> "error"
       [] OTHER ->
            CASE inodes[i].kind = "dir" -> "warning"
              [] inodes[i].kind # "dir" /\ RegFilesOnly /\ ~IsRegular(i) -> "warning"
              [] OTHER -> IF /\ RegFilesOnly /\ ~opt.force /\ ~opt.keep
                             /\ (inodes[i].setid \/ inodes[i].sticky \/ inodes[i].links)
                          THEN "warning" ELSE "ok"

FreshPair(path) ==
  [src |-> path, dest |-> NoPath, src_fd |-> None, dest_fd |-> None, src_pos |-> 0, dest_pos |-> 0,
   src_eof |-> FALSE, seen |-> FALSE, flush_needed |-> FALSE, try_sparse |-> FALSE, pending |-> 0,
   src_st |-> None, dest_st |-> None]
NoIo == [then |-> "", got |-> <<>>, size |-> 0, ret |-> "ok", reading |-> TRUE,
         success |-> FALSE]
StartRead(size, then) == [NoIo EXCEPT !.then = then, !.size = size]
Goto(place) == at' = place

OpenSrcNamed(path, then) ==
  /\ path # Stdin /\ UNCHANGED files
  /\ pair' = [FreshPair(path) EXCEPT !.src_fd = Resolved(path), !.src_st = Resolved(path)]
  /\ IF OpenVerdict(path) = "ok"
     THEN /\ UNCHANGED proc
          /\ Goto(IF IsRegular(Resolved(path)) THEN then ELSE "await_src")
     ELSE /\ proc' = Raised(proc, OpenVerdict(path)) /\ Goto("next")

(* Standard input is made non-blocking, or used as it is if that fails.    *)
OpenSrcStdin(path, then) ==
  /\ path = Stdin /\ Goto(then) /\ UNCHANGED <<names, inodes, proc>>
  /\ pair' = [FreshPair(path) EXCEPT !.src_fd = opt.stdin, !.src_pos = std.in_pos]
  /\ \/ std' = [std EXCEPT !.restore_in = ~std.in_nonblock, !.in_nonblock = TRUE]
     \/ MayFail("fcntl") /\ std' = [std EXCEPT !.restore_in = FALSE]

OpenSrcFails(path) ==
  /\ IF path = Stdin THEN MayFail("fcntl") ELSE MayFail("open") \/ path = EmptyName
  /\ proc' = Erred(proc) /\ Goto("next") /\ UNCHANGED <<files, pair>>

OpenSrc(path, then) ==
  /\ io' = StartRead(BufSize, "init") /\ UNCHANGED opt
  /\ \/ path # EmptyName /\ (OpenSrcNamed(path, then) \/ OpenSrcStdin(path, then))
     \/ OpenSrcFails(path)

(* --- io_wait: for a descriptor, a time-out, or a byte in the self-pipe - *)
Waiting(place) == at = place /\ UNCHANGED <<opt, files>>
FdReady == IF io.reading THEN Readable(pair.src_fd, pair.src_pos) ELSE Writable(pair.dest_fd)
PollReturns == FdReady \/ proc.byte \/ proc.eintr
Awake == [proc EXCEPT !.eintr = FALSE]

(* A special file is waited for before anything else is done with it.      *)
AwaitSrc(then) ==
  /\ Waiting("await_src") /\ UNCHANGED <<pair, io>>
  /\ \/ /\ Readable(pair.src_fd, 0) \/ proc.byte \/ proc.eintr
        /\ proc' = Awake
        /\ IF proc.abort THEN Goto("next")
           ELSE Readable(pair.src_fd, 0) /\ Goto(then)
     \/ ~proc.abort /\ MayFail("poll") /\ proc' = Erred(proc) /\ Goto("next")

(* Time-outs exist while compressing with --flush-timeout, from the first  *)
(* input after the last flush on.                                          *)
FlushTimeoutOfEmptyBuffer == pair.seen /\ io.got = <<>> /\ opt.flush_timeout /\ opt.mode = "compress"
FlushTimeout == pair.seen /\ opt.flush_timeout /\ opt.mode = "compress"

Answer(ret) == io' = [io EXCEPT !.ret = ret] /\ Goto(io.then)

PollAborted == /\ Waiting("poll") /\ PollReturns /\ proc.abort
               /\ proc' = Awake /\ Answer("failed") /\ UNCHANGED pair
PollReady == /\ Waiting("poll") /\ FdReady /\ ~proc.abort
             /\ proc' = Awake /\ Goto(IF io.reading THEN "read" ELSE "write") /\ UNCHANGED <<pair, io>>
PollTimesOut == /\ Waiting("poll") /\ io.reading /\ ~FdReady /\ ~proc.abort /\ FlushTimeout
                /\ pair' = [pair EXCEPT !.flush_needed = TRUE]
                /\ Answer("ok") /\ UNCHANGED proc
PollFails == /\ Waiting("poll") /\ ~proc.abort /\ MayFail("poll")
             /\ proc' = Erred(proc) /\ Answer("failed") /\ UNCHANGED pair
IoWait == PollAborted \/ PollReady \/ PollTimesOut \/ PollFails

(* --- io_read ---                                                         *)
Wanted == io.size - Len(io.got)
Source == inodes[pair.src_fd]
Unread == IF IsRegular(pair.src_fd) THEN SubSeq(Source.data, pair.src_pos + 1, Len(Source.data))
          ELSE Source.data

ReadFull == /\ Waiting("read") /\ Wanted = 0 /\ Answer("ok") /\ UNCHANGED <<pair, proc>>
ReadSome ==
  /\ at = "read" /\ UNCHANGED <<opt, names, std, proc, at>>
  /\ Wanted > 0 /\ Unread # <<>>
  /\ LET n == Lesser(Wanted, Len(Unread)) IN
       /\ io' = [io EXCEPT !.got = @ \o SubSeq(Unread, 1, n)]
       /\ pair' = [pair EXCEPT !.seen = TRUE, !.src_pos = @ + n]
       /\ inodes' = IF IsRegular(pair.src_fd) THEN inodes
                    ELSE [inodes EXCEPT ![pair.src_fd].data = SubSeq(@, n + 1, Len(@))]
ReadEnd == /\ Waiting("read") /\ Wanted > 0 /\ Unread = <<>>
           /\ IsRegular(pair.src_fd) \/ ~Source.open
           /\ pair' = [pair EXCEPT !.src_eof = TRUE] /\ Answer("ok") /\ UNCHANGED proc
ReadAgain == /\ Waiting("read") /\ Wanted > 0 /\ Unread = <<>> /\ ~IsRegular(pair.src_fd) /\ Source.open
             /\ Goto("poll") /\ UNCHANGED <<pair, io, proc>>
ReadFails == /\ Waiting("read") /\ Wanted > 0 /\ MayFail("read")
             /\ proc' = Erred(proc) /\ Answer("failed") /\ UNCHANGED pair
IoRead == ReadFull \/ ReadSome \/ ReadEnd \/ ReadAgain \/ ReadFails

(* io_fix_src_pos: input that was not used is given back, if it can be.    *)
FixSrcPos(p, n) == IF IsRegular(p.src_fd) THEN [p EXCEPT !.src_pos = @ - n] ELSE p

(* --- names of targets, src/xz/suffix.c ---                               *)
KnownSuffixes == <<[compressed |-> ".xz", uncompressed |-> <<>>], [compressed |-> ".txz", uncompressed |-> <<".tar">>],
              [compressed |-> ".lzma", uncompressed |-> <<>>], [compressed |-> ".tlz", uncompressed |-> <<".tar">>],
              [compressed |-> ".lz", uncompressed |-> <<>>]>>
AllSuffixes == [xz |-> <<".xz", ".txz">>, lzma |-> <<".lzma", ".tlz">>, raw |-> <<>>]
TestSuffix(suffix, path) == /\ path.suf # <<>> /\ path.suf[Len(path.suf)] = suffix
                            /\ path.stem # "" \/ Len(path.suf) > 1
Without(path) == [path EXCEPT !.suf = SubSeq(@, 1, Len(@) - 1)]

UncompressedName(path) ==
  LET known == {k \in DOMAIN KnownSuffixes : TestSuffix(KnownSuffixes[k].compressed, path)}
  IN CASE opt.format # "raw" /\ known # {} ->
            LET k == CHOOSE j \in known : TRUE
            IN [Without(path) EXCEPT !.suf = @ \o KnownSuffixes[k].uncompressed]
       [] OTHER -> IF opt.suffix # "" /\ TestSuffix(opt.suffix, path) THEN Without(path) ELSE NoPath
CompressedName(path) ==
  LET own == AllSuffixes[opt.format]
  IN IF \/ \E k \in DOMAIN own : TestSuffix(own[k], path)
        \/ opt.suffix # "" /\ TestSuffix(opt.suffix, path)
     THEN NoPath
     ELSE [path EXCEPT !.suf = Append(@, IF opt.suffix # "" THEN opt.suffix ELSE own[1])]
DestName(path) == IF opt.mode = "compress" THEN CompressedName(path) ELSE UncompressedName(path)

(* --- io_open_dest ---                                                    *)
ToStdout == opt.stdout \/ pair.src = Stdin
TrySparse == opt.sparse /\ opt.mode = "decompress"

(* Holes need a regular file, written from its end on. Appending writes    *)
(* always go there: the flag is taken off until the file is closed.        *)
StdoutPair == [pair EXCEPT !.dest = Stdout, !.dest_fd = opt.stdout_ino, !.dest_pos = std.out_pos,
                           !.dest_st = opt.stdout_ino]
StdoutFlags ==
  LET saved == [std EXCEPT !.saved_append = std.out_append, !.saved_nonblock = std.out_nonblock]
  IN {[saved EXCEPT !.out_nonblock = TRUE, !.restore_out = ~std.out_nonblock]}
     \cup IF MayFail("fcntl") THEN {[saved EXCEPT !.restore_out = FALSE]} ELSE {}
StdoutEnd == Len(inodes[opt.stdout_ino].data)

OpenStdout ==
  /\ ToStdout /\ UNCHANGED <<names, inodes>>
  /\ \/ /\ Goto("start") /\ UNCHANGED proc
        /\ \E flags \in StdoutFlags :
             CASE ~TrySparse \/ ~IsRegular(opt.stdout_ino) -> pair' = StdoutPair /\ std' = flags
               [] TrySparse /\ IsRegular(opt.stdout_ino) /\ std.out_append ->
                    \/ /\ pair' = [StdoutPair EXCEPT !.dest_pos = StdoutEnd, !.try_sparse = TRUE]
                       /\ std' = [flags EXCEPT !.out_append = FALSE, !.restore_out = TRUE]
                    \/ /\ MayFail("fcntl") /\ std' = flags
                       /\ pair' = [StdoutPair EXCEPT !.dest_pos = StdoutEnd]
               [] OTHER -> /\ std' = flags
                           /\ pair' = [StdoutPair EXCEPT !.try_sparse = std.out_pos = StdoutEnd]
     \/ /\ MayFail("fcntl") /\ proc' = Erred(proc) /\ Goto("close")
        /\ pair' = StdoutPair /\ UNCHANGED std

NewInode == [kind |-> "reg", data |-> <<>>, more |-> <<>>, open |-> FALSE, taken |-> 0, setid |-> FALSE,
             sticky |-> FALSE, links |-> FALSE, attrs |-> "new", to |-> NoPath]
FreeIno == CHOOSE i \in DOMAIN inodes : inodes[i].kind = "free"
OccupiedByDirectory(path) == names[path] # None /\ inodes[names[path]].kind = "dir"
Occupied(path) == /\ names[path] # None
                  /\ ~opt.force \/ inodes[names[path]].kind = "dir"

OpenNamed(dest) ==
  /\ ~ToStdout /\ dest # NoPath /\ UNCHANGED std
  /\ \/ /\ ~Occupied(dest) /\ Goto("start") /\ UNCHANGED proc
        /\ inodes' = [inodes EXCEPT ![FreeIno] = NewInode]
        /\ names' = [names EXCEPT ![dest] = FreeIno]
        /\ pair' \in {[pair EXCEPT !.dest = dest, !.dest_fd = FreeIno, !.dest_st = FreeIno,
                                   !.try_sparse = TrySparse]}
                     \cup IF MayFail("fstat") THEN {[pair EXCEPT !.dest = dest, !.dest_fd = FreeIno]} ELSE {}
     \/ /\ proc' = Erred(proc) /\ Goto("close") /\ UNCHANGED <<inodes, pair>>
        /\ \/ Occupied(dest) /\ UNCHANGED names
           \/ names[dest] # None /\ opt.force /\ MayFail("unlink") /\ UNCHANGED names
           \/ ~Occupied(dest) /\ MayFail("create") /\ names' = [names EXCEPT ![dest] = None]

NoDestName == /\ ~ToStdout /\ DestName(pair.src) = NoPath
              /\ proc' = Warned(proc) /\ Goto("close") /\ UNCHANGED <<files, pair>>
OpenDest == /\ at = "open_dest" /\ UNCHANGED opt /\ io' = NoIo
            /\ OpenStdout \/ NoDestName \/ OpenNamed(DestName(pair.src))

(* --- io_write ---                                                        *)
StartWrite(buf, then) == [NoIo EXCEPT !.got = buf, !.then = then, !.reading = FALSE]
IsSparseUpToItsEnd(buf) == \A k \in DOMAIN buf : buf[k] = 0
IsSparse(buf) == Len(buf) = BufSize /\ \A k \in DOMAIN buf : buf[k] = 0

(* Whole buffers of zeros are put off; the next other write skips them.    *)
WritePutOff == /\ Waiting("write_out")
               /\ (pair.try_sparse /\ IsSparse(io.got)) \/ io.got = <<>>
               /\ pair' = [pair EXCEPT !.pending = IF io.got = <<>> THEN @ ELSE @ + BufSize]
               /\ Answer("ok") /\ UNCHANGED proc
WriteSkips == /\ Waiting("write_out") /\ ~(pair.try_sparse /\ IsSparse(io.got)) /\ io.got # <<>>
              /\ pair' = [pair EXCEPT !.dest_pos = @ + pair.pending, !.pending = 0]
              /\ Goto("write") /\ UNCHANGED <<io, proc>>
SeekFails == /\ Waiting("write_out") /\ pair.pending > 0 /\ ~IsSparse(io.got) /\ MayFail("seek")
             /\ proc' = Erred(proc) /\ Answer("failed") /\ UNCHANGED pair

(* io_write_buf: what fits is written; a signal or a broken pipe ends it.  *)
Appends == pair.dest = Stdout /\ std.out_append
WritePos == IF Appends THEN Len(inodes[pair.dest_fd].data) ELSE pair.dest_pos
Room == IF IsRegular(pair.dest_fd) THEN Len(io.got)
        ELSE PipeSize - (Len(inodes[pair.dest_fd].data) - inodes[pair.dest_fd].taken)
Broken == ~IsRegular(pair.dest_fd) /\ ~inodes[pair.dest_fd].open

WriteDone == /\ Waiting("write") /\ io.got = <<>> /\ Answer("ok") /\ UNCHANGED <<pair, proc>>
WriteSome ==
  /\ at = "write" /\ io.got # <<>> /\ ~Broken /\ Room > 0 /\ UNCHANGED <<opt, names, std, proc, at>>
  /\ LET n == Lesser(Room, Len(io.got)) IN
       /\ inodes' = [inodes EXCEPT ![pair.dest_fd].data = Written(@, WritePos, SubSeq(io.got, 1, n))]
       /\ pair' = [pair EXCEPT !.dest_pos = WritePos + n]
       /\ io' = [io EXCEPT !.got = SubSeq(@, n + 1, Len(@))]
WriteAgain == /\ Waiting("write") /\ io.got # <<>> /\ ~Broken /\ Room = 0
              /\ Goto("poll") /\ UNCHANGED <<pair, io, proc>>
WriteFails == /\ Waiting("write") /\ io.got # <<>> /\ MayFail("write")
              /\ proc' = Erred(proc) /\ Answer("failed") /\ UNCHANGED pair
IoWrite == WritePutOff \/ WriteSkips \/ SeekFails \/ WriteDone \/ WriteSome \/ WriteAgain \/ WriteFails

(* --- io_close ---                                                        *)
(* A hole at the end needs one byte written; from there on signals are     *)
(* blocked until both files are closed.                                    *)
CloseSparse ==
  /\ Waiting("close")
  /\ \/ /\ ~(io.success /\ pair.pending > 0)
        /\ Goto("copy_attrs") /\ UNCHANGED <<pair, io, proc>>
     \/ /\ io.success /\ pair.pending > 0 /\ UNCHANGED proc
        /\ pair' = [pair EXCEPT !.dest_pos = @ + pair.pending - 1, !.pending = 0]
        /\ io' = StartWrite(<<0>>, "sparse_closed") /\ Goto("write")
     \/ /\ io.success /\ pair.pending > 0 /\ MayFail("seek")
        /\ proc' = Erred(proc) /\ io' = NoIo /\ Goto("copy_attrs") /\ UNCHANGED pair
SparseClosed == /\ Waiting("sparse_closed") /\ Goto("copy_attrs") /\ UNCHANGED <<pair, proc>>
                /\ io' = [NoIo EXCEPT !.success = io.ret = "ok"]

HasTarget == pair.dest_fd # None /\ pair.dest # Stdout
(* io_copy_attrs: owner, group, permissions, times, to what is complete.   *)
CopyAttrs ==
  /\ at = "copy_attrs" /\ Goto("close_dest") /\ UNCHANGED <<opt, names, std, pair, io>>
  /\ IF io.success /\ HasTarget
     THEN \/ /\ inodes' = [inodes EXCEPT ![pair.dest_fd].attrs = "source"] /\ UNCHANGED proc
          \/ /\ MayFail("chown") /\ proc' = Warned(proc)
             /\ inodes' = [inodes EXCEPT ![pair.dest_fd].attrs = "restricted"]
     ELSE UNCHANGED <<inodes, proc>>

(* io_unlink: the name goes only if it still is the file that was opened.  *)
StillThere(path, known) == (IF opt.force THEN Resolved(path) ELSE names[path]) = known /\ known # None
Unlink(path, known, p) ==
  \/ /\ StillThere(path, known) /\ names' = [names EXCEPT ![path] = None] /\ proc' = p
  \/ /\ ~StillThere(path, known) \/ MayFail("unlink")
     /\ UNCHANGED names /\ proc' = Warned(p)

RestoredOutButForAppend == IF std.restore_out THEN [std EXCEPT !.restore_out = FALSE, !.out_nonblock = std.saved_nonblock]
                           ELSE std
RestoredOut == IF std.restore_out
               THEN [std EXCEPT !.restore_out = FALSE, !.out_append = std.saved_append,
                                !.out_nonblock = std.saved_nonblock]
               ELSE std
(* A target that is not complete or not closed properly is removed.        *)
CloseDest ==
  /\ at = "close_dest" /\ Goto("close_src") /\ UNCHANGED <<opt, inodes, pair>>
  /\ \/ /\ std.restore_out /\ MayFail("fcntl")
        /\ std' = [std EXCEPT !.restore_out = FALSE, !.out_pos = pair.dest_pos]
        /\ proc' = Erred(proc) /\ io' = NoIo /\ UNCHANGED names
     \/ /\ ~HasTarget /\ UNCHANGED <<names, proc, io>>
        /\ std' = IF pair.dest = Stdout THEN [RestoredOut EXCEPT !.out_pos = pair.dest_pos] ELSE RestoredOut
     \/ /\ HasTarget /\ std' = RestoredOut
        /\ \/ io.success /\ UNCHANGED <<names, proc, io>>
           \/ ~io.success /\ Unlink(pair.dest, pair.dest_st, proc) /\ UNCHANGED io
           \/ MayFail("close") /\ Unlink(pair.dest, pair.dest_st, Erred(proc)) /\ io' = NoIo

(* The source goes last, and only for a target that is complete.           *)
SourceGoesAnyway == ~opt.keep
SourceGoes == io.success /\ ~opt.keep
CloseSrc ==
  /\ at = "close_src" /\ Goto("next") /\ UNCHANGED <<opt, inodes, io>> /\ pair' = FreshPair(NoPath)
  /\ IF pair.src = Stdin
     THEN /\ UNCHANGED names
          /\ \/ /\ UNCHANGED proc
                /\ std' = [std EXCEPT !.restore_in = FALSE, !.in_pos = pair.src_pos,
                                      !.in_nonblock = IF std.restore_in THEN FALSE ELSE @]
             \/ /\ std.restore_in /\ MayFail("fcntl") /\ proc' = Erred(proc)
                /\ std' = [std EXCEPT !.restore_in = FALSE, !.in_pos = pair.src_pos]
     ELSE /\ UNCHANGED std
          /\ IF SourceGoes THEN Unlink(pair.src, pair.src_st, proc) ELSE UNCHANGED <<names, proc>>
IoClose == CloseSparse \/ SparseClosed \/ CopyAttrs \/ CloseDest \/ CloseSrc

(* --- signals, src/xz/signals.c ---                                       *)
Blocked == at \in {"copy_attrs", "close_dest", "close_src", "ended", "killed"}
(* The handler also writes to the pipe that io_wait watches. It is there   *)
(* from signals_init on, and not at all while listing.                     *)
HandledWithoutByte(p) == [p EXCEPT !.abort = TRUE, !.signal = TRUE, !.eintr = at \in {"poll", "await_src"}]
Handled(p) == [p EXCEPT !.abort = TRUE, !.signal = TRUE, !.byte = TRUE,
                        !.eintr = at \in {"poll", "await_src"}]
SignalArrives == /\ opt.signals /\ ~proc.signal /\ ~Blocked
                 /\ UNCHANGED <<opt, files, pair, io>>
                 /\ IF opt.mode = "list" \/ at = "args" THEN Goto("killed") /\ UNCHANGED proc
                    ELSE proc' = Handled(proc) /\ UNCHANGED at
(* Nobody reads what is written: SIGPIPE, unless it is ignored, and EPIPE, *)
(* about which nothing is said.                                            *)
WriteBroken == /\ Waiting("write") /\ io.got # <<>> /\ Broken
               /\ proc' = IF opt.pipe_ignored THEN proc ELSE Handled(proc)
               /\ Answer("failed") /\ UNCHANGED pair

(* --- others: writers and readers of pipes, and who moves files ---       *)
Others == UNCHANGED <<opt, std, proc, pair, io, at>>
Supply == \E i \in DOMAIN inodes :
            /\ inodes[i].more # <<>> /\ Len(inodes[i].data) < PipeSize /\ Others /\ UNCHANGED names
            /\ inodes' = [inodes EXCEPT ![i].data = Append(@, Head(inodes[i].more)), ![i].more = Tail(@)]
WriterCloses == \E i \in DOMAIN inodes \ {opt.stdout_ino} :
                  /\ inodes[i].kind = "fifo" /\ inodes[i].open /\ inodes[i].more = <<>>
                  /\ ~opt.stays_open /\ Others /\ UNCHANGED names
                  /\ inodes' = [inodes EXCEPT ![i].open = FALSE]
Drain == LET out == inodes[opt.stdout_ino]
         IN /\ out.kind = "fifo" /\ out.open /\ out.taken < Len(out.data) /\ ~opt.stalls
            /\ Others /\ UNCHANGED names
            /\ inodes' = [inodes EXCEPT ![opt.stdout_ino].taken = @ + 1]
ReaderLeaves == /\ opt.hangs_up /\ inodes[opt.stdout_ino].open /\ Others /\ UNCHANGED names
                /\ inodes' = [inodes EXCEPT ![opt.stdout_ino].open = FALSE]
Move == \E path \in opt.moved :
          /\ names[path] # None /\ \A q \in DOMAIN names : names[q] # opt.other
          /\ Others /\ names' = [names EXCEPT ![path] = opt.other]
          /\ inodes' = [inodes EXCEPT ![opt.other].taken = 1]

=============================================================================
