----------------------------- MODULE IndexOfFile -----------------------------
(***************************************************************************)
(* The life of an lzma_index: built by the application or read from a file *)
(* by the file info decoder, then changed and walked over. The decoder     *)
(* leaves traces in what it builds (groups of the announced size, joined   *)
(* Streams), so both ways end in the same use.                             *)
(***************************************************************************)
EXTENDS FileInfo

CONSTANTS Blocks,      \* <<Unpadded Size, Uncompressed Size>> it may append
          Paddings, Targets,
          Starts,      \* the lzma_indexes it may begin with
          Second,      \* the lzma_indexes it may join
          MaxCalls     \* bound: calls that change an Index
CONSTANTS MaxLooks,    \* bound: calls of the iterator
          SkipsFirst   \* see IndexList

VARIABLES main,        \* the lzma_index in use
          second,      \* another one, or <<>>
          copied,      \* main was made by lzma_index_dup
          iter,        \* the iterator over main
          at,          \* <<Stream, group, Record>> it last answered for
          told,        \* what it then held
          call,        \* the last call: op, arg, ret
          spent        \* <<changes made, looks taken>>

useVars == <<main, second, copied, iter, at, told, call, spent>>

Modes == {"ANY", "STREAM", "BLOCK", "NONEMPTY_BLOCK"}
NotAt == <<0, 0, 0>>
NoInfo == [stream |-> <<>>, block |-> <<>>]

UseInit(starts) ==
        /\ main \in starts /\ second = <<>> /\ copied = FALSE
        /\ iter = RewoundIter /\ at = NotAt /\ told = NoInfo /\ spent = <<0, 0>>
        /\ call = [op |-> "init", arg |-> 0, ret |-> "OK"]

Called(op, arg, ret) == call' = [op |-> op, arg |-> arg, ret |-> ret]
Change == spent[1] < MaxCalls /\ spent' = <<spent[1] + 1, spent[2]>>
Look   == spent[2] < MaxLooks /\ spent' = <<spent[1], spent[2] + 1>>

Changes(op, arg, r) == /\ Change /\ Called(op, arg, r.ret) /\ main' = r.index
                       /\ UNCHANGED <<second, copied, iter, at, told>>

DoAppend == \E b \in Blocks :
  Changes("append", [unpadded |-> b[1], uncompressed |-> b[2]], AppendBlock(main, b[1], b[2]))
DoFlags   == \E kind \in {"crc32", "crc64"} : Changes("stream_flags", kind, StreamFlags(main, kind))
DoPadding == \E p \in Paddings : Changes("stream_padding", p, StreamPadding(main, p))

(* The Blocks of an Index, read from its Records.                          *)
BlocksOf(s) == With(RecordsOf(s), LAMBDA records :
  [k \in 1 .. Len(records) |->
     [unpadded     |-> records[k].usum - (IF k = 1 THEN 0 ELSE Ceil4(records[k - 1].usum)),
      uncompressed |-> records[k].csum - (IF k = 1 THEN 0 ELSE records[k - 1].csum)]])

StreamList(s) == [blocks |-> BlocksOf(s), padding |-> s.padding, flags |-> s.flags]
ListOf(i) == With(Traversal(i.tree), LAMBDA order :
  [n \in 1 .. Len(order) |-> StreamList(i.streams[order[n]])])

DoBring == /\ second = <<>> /\ Change
           /\ \E i \in Second : second' = i /\ Called("bring", ListOf(i), "OK")
           /\ UNCHANGED <<main, copied, iter, at, told>>

DoCat == /\ second # <<>> /\ Change
         /\ \E r \in {Cat(main, second)} :
              /\ Called("cat", 0, r.ret) /\ main' = r.index
              /\ second' = IF r.ret = "OK" THEN <<>> ELSE second
         /\ UNCHANGED <<copied, iter, at, told>>

DoDup == /\ Change /\ Called("dup", 0, "OK")
         /\ main' = Dup(main) /\ copied' = TRUE
         /\ iter' = RewoundIter /\ at' = NotAt /\ told' = NoInfo
         /\ UNCHANGED second

Answer(op, arg, pos) ==
  /\ Look /\ Called(op, arg, IF pos[1] = 0 THEN "END" ELSE "OK")
  /\ iter' = IF pos[1] = 0 THEN iter ELSE Keep(main, pos[1], pos[2], pos[3])
  /\ at' = IF pos[1] = 0 THEN at ELSE pos
  /\ told' = IF pos[1] = 0 THEN told
             ELSE [stream |-> StreamInfo(main, pos[1]),
                   block  |-> IF pos[2] = 0 THEN <<>> ELSE BlockInfo(main, pos)]
  /\ UNCHANGED <<main, second, copied>>

DoNext   == \E mode \in Modes : Answer("next", mode, NextPosition(main, iter, mode))
DoLocate == \E target \in Targets : Answer("locate", target, LocatePosition(main, target))

UseNext == \/ DoAppend \/ DoFlags \/ DoPadding \/ DoBring \/ DoCat \/ DoDup
           \/ DoNext \/ DoLocate

-----------------------------------------------------------------------------

(* What an iterator keeps is never memory that Cat has given back          *)
(* (iter_set_info).                                                        *)
IteratorLives ==
  iter.group # 0 => main.streams[iter.stream].groups[iter.group].gen = iter.gen

(* The iterator refers to the last Block it answered for, and every number *)
(* it gave is the sum over the list; the sizes of the whole are exact, and *)
(* a call is refused exactly when the sums would leave their range.        *)
Spot == IF at[2] = 0 THEN <<at[1], 0>>
        ELSE <<at[1], main.streams[at[1]].groups[at[2]].number_base + at[3]>>
Abstract == INSTANCE IndexList WITH list <- ListOf(main), place <- Spot,
              other <- IF second = <<>> THEN <<>> ELSE ListOf(second)
ImplementsIndexList == Abstract!ListInit /\ [][Abstract!ListNext]_Abstract!listVars

(* The totals an application reads are those of the list, and so is what   *)
(* it is told the Index takes as a field, in a file and in memory.         *)
SizesExact ==
  \E l \in {ListOf(main)} :
    /\ FileSize(main) = Abstract!FileSizeIs(l)
    /\ main.uncompressed_size = Abstract!PlainIs(l)
    /\ main.total_size = Abstract!Total(l, Abstract!BlocksSize)
    /\ IndexSize(main.record_count, main.list_size) = Abstract!FieldIs(l)
    /\ PaddingSize(main) = Abstract!FieldIs(l) - Abstract!Unpadded(l)
    /\ ~copied => Checks(main) = {l[n].flags : n \in 1 .. Len(l)} \ {NoFlags}

-----------------------------------------------------------------------------
(* The application may instead read a file and use what it finds.           *)
CONSTANT UsesAfterFile     \* bound: changes made to an lzma_index read from a file

vars == <<fileVars, useVars>>

NoFile == [bytes |-> <<>>, list |-> <<>>]

Init == \/ /\ FileInit /\ UseInit({IndexInit})
        \/ /\ UseInit(Starts) /\ file = NoFile /\ c = CoderInit(0, 1, HeaderSize) /\ answer = "none"
           /\ io = [lo |-> 0, len |-> 0, pos |-> 0, next |-> 0, phase |-> "use", idle |-> 0]

Adopt ==
  /\ io.phase = "answered" /\ answer = "STREAM_END"
  /\ main' = c.dest /\ call' = [op |-> "decode", arg |-> file.list, ret |-> "OK"]
  /\ spent' = <<MaxCalls - UsesAfterFile, 0>>
  /\ io' = [lo |-> 0, len |-> 0, pos |-> 0, next |-> 0, phase |-> "use", idle |-> 0]
  /\ c' = CoderInit(0, 1, HeaderSize) /\ answer' = "none"
  /\ UNCHANGED <<file, second, copied, iter, at, told>>

Use == io.phase = "use" /\ UseNext /\ UNCHANGED fileVars
Parse == FileNext /\ UNCHANGED useVars

Next == Parse \/ Adopt \/ Use
Spec == Init /\ [][Next]_vars
FairSpec == Spec /\ WF_vars(Parse)

-----------------------------------------------------------------------------
Ended == io.phase = "answered" /\ answer \notin {"OK", "SEEK_NEEDED", "MEMLIMIT_ERROR"}

(* An undamaged file is understood, whatever pieces it came in and however *)
(* often the memory limit had to be raised; a damaged one never is. The    *)
(* decoder never asks for more than the file has.                          *)
FileUnderstood ==
  /\ Ended => /\ answer = "STREAM_END" <=> file.list # <<>>
              /\ answer # "PROG_ERROR"
  /\ io.idle < 2

(* Seeking backwards comes to an end.                                      *)
FileEnds == (io.phase = "read") ~> (Ended \/ io.phase = "use")
=============================================================================
