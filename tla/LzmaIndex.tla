------------------------------ MODULE LzmaIndex ------------------------------
(***************************************************************************)
(* The lzma_index of src/original/src/liblzma/common/index.c: a tree of    *)
(* Streams, each with a tree of groups of Records. A Record holds running  *)
(* sums, a group and a Stream hold the sums in front of them, and the      *)
(* whole holds totals, so that every question is answered without          *)
(* scanning. Nodes are referred to by the order they were appended in.     *)
(***************************************************************************)
EXTENDS IndexTree, SequencesExt

-----------------------------------------------------------------------------
NewStream(cbase, ubase, number, block_base) ==
  [cbase |-> cbase, ubase |-> ubase, number |-> number, block_base |-> block_base,
   groups |-> <<>>, tree |-> EmptyTree, record_count |-> 0, list_size |-> 0,
   flags |-> NoFlags, padding |-> 0]

PlainIndex ==
  [streams |-> <<>>, tree |-> EmptyTree, uncompressed_size |-> 0, total_size |-> 0,
   record_count |-> 0, list_size |-> 0, prealloc |-> GroupSize, checks |-> {}]

AddStream(i, s) == [i EXCEPT !.streams = Append(@, s), !.tree = TreeAppend(@)]
IndexInit == AddStream(PlainIndex, NewStream(0, 0, 1, 0))
Prealloc(i, records) == [i EXCEPT !.prealloc = records]

LastStream(i) == i.streams[Rightmost(i.tree)]
LastGroup(s)  == s.groups[Rightmost(s.tree)]
NoGroups(s)   == s.groups = <<>>
UnpaddedSum(s)     == IF NoGroups(s) THEN 0 ELSE Last(LastGroup(s).records).usum
UncompressedSum(s) == IF NoGroups(s) THEN 0 ELSE Last(LastGroup(s).records).csum

FileSizeOf(cbase, unpadded_sum, count, list_size, padding) ==
  LET size == cbase + 2 * HeaderSize + padding + Ceil4(unpadded_sum)
      all  == size + IndexSize(count, list_size)
  IN IF size > VliMax \/ all > VliMax THEN VliUnknown ELSE all

FileSize(i) == LET s == LastStream(i) IN
  FileSizeOf(s.cbase, UnpaddedSum(s), s.record_count, s.list_size, s.padding)

Checks(i) == i.checks \cup (IF LastStream(i).flags = NoFlags THEN {} ELSE {LastStream(i).flags})
PaddingSize(i) == (4 - IndexSizeUnpadded(i.record_count, i.list_size)) % 4

(* The memory of one lzma_index and one Stream, and of a full group, in    *)
(* units of their own.                                                     *)
MemUsage(streams, blocks) == 1 + streams + 2 * ((blocks + GroupSize - 1) \div GroupSize)
MemUsed(i) == MemUsage(Count(i.tree), i.record_count)

-----------------------------------------------------------------------------
Answered(r, i) == [ret |-> r, index |-> i]

(* Every caller passes flags that a Stream Header or Footer decoder has     *)
(* accepted, so that lzma_stream_flags_compare(f, f) is always LZMA_OK.     *)
StreamFlags(i, check) == Answered("OK", [i EXCEPT !.streams[Rightmost(i.tree)].flags = check])

StreamPadding(i, padding) ==
  LET Pad(p) == [i EXCEPT !.streams[Rightmost(i.tree)].padding = p]
  IN CASE padding > VliMax \/ padding % 4 # 0     -> Answered("PROG_ERROR", i)
       [] FileSize(Pad(0)) + padding > VliMax     -> Answered("DATA_ERROR", i)
       [] OTHER                                   -> Answered("OK", Pad(padding))

(* Room left in the last group, or a new group of the announced size.      *)
HasRoom(s) == ~NoGroups(s) /\ Len(LastGroup(s).records) < LastGroup(s).allocated

NewGroup(s, cbase, ubase, allocated) ==
  [s EXCEPT !.tree = TreeAppend(@),
            !.groups = Append(@, [number_base |-> s.record_count + 1, cbase |-> cbase,
                                  ubase |-> ubase, allocated |-> allocated, gen |-> 0,
                                  records |-> <<>>])]

WithRecord(s, record, list_add) ==
  [s EXCEPT !.groups[Len(s.groups)].records = Append(@, record),
            !.record_count = @ + 1, !.list_size = @ + list_add]

AppendRefused(i, s, unpadded, uncompressed, cbase, ubase, list_add) ==
  \/ ubase + uncompressed > VliMax
  \/ cbase + unpadded > UnpaddedMax
  \/ FileSizeOf(s.cbase, cbase + unpadded, s.record_count + 1, s.list_size + list_add,
                s.padding) = VliUnknown
  \/ IndexSize(i.record_count + 1, i.list_size + list_add) > BackwardMax

Appended(i, s, unpadded, uncompressed, cbase, ubase, list_add) ==
  LET record == [csum |-> ubase + uncompressed, usum |-> cbase + unpadded]
      room   == IF HasRoom(s) THEN s ELSE NewGroup(s, cbase, ubase, i.prealloc)
  IN [i EXCEPT !.streams[Rightmost(i.tree)] = WithRecord(room, record, list_add),
               !.prealloc = IF HasRoom(s) THEN @ ELSE GroupSize,
               !.total_size = @ + Ceil4(unpadded),
               !.uncompressed_size = Wrap(@ + uncompressed),
               !.record_count = @ + 1, !.list_size = @ + list_add]

AppendBlock(i, unpadded, uncompressed) ==
  LET s     == LastStream(i)
      cbase == Ceil4(UnpaddedSum(s))
      ubase == UncompressedSum(s)
      add   == VliSize(unpadded) + VliSize(uncompressed)
  IN CASE unpadded < UnpaddedMin \/ unpadded > UnpaddedMax \/ uncompressed > VliMax
            -> Answered("PROG_ERROR", i)
       [] AppendRefused(i, s, unpadded, uncompressed, cbase, ubase, add)
            -> Answered("DATA_ERROR", i)
       [] OTHER
            -> Answered("OK", Appended(i, s, unpadded, uncompressed, cbase, ubase, add))

-----------------------------------------------------------------------------
(* The last group of dest is cut to what it holds: nothing is appended to  *)
(* it any more. It moves to new memory.                                    *)
Shrunk(s) == IF ~HasRoom(s) THEN s
             ELSE [s EXCEPT !.groups[Len(s.groups)].allocated = Len(LastGroup(s).records),
                            !.groups[Len(s.groups)].gen = @ + 1]

MovedBlocksKeepNumbers(i, file_size, s) ==
  [s EXCEPT !.ubase = @ + i.uncompressed_size, !.cbase = @ + file_size, !.number = @ + Count(i.tree)]
Moved(i, file_size, s) ==
  [s EXCEPT !.ubase = @ + i.uncompressed_size, !.cbase = @ + file_size,
            !.number = @ + Count(i.tree), !.block_base = @ + i.record_count]

CatRefused(dest, src) ==
  \/ Wrap(FileSize(dest) + FileSize(src)) > VliMax
  \/ Wrap(dest.uncompressed_size + src.uncompressed_size) > VliMax
  \/ Ceil4(IndexSizeUnpadded(dest.record_count, dest.list_size)
             + IndexSizeUnpadded(src.record_count, src.list_size)) > BackwardMax

JoinedWithoutListSize(dest, src) ==
  LET all == Fold(LAMBDA i, n : AddStream(i, Moved(dest, FileSize(dest), src.streams[n])),
                  dest, Traversal(src.tree))
  IN [all EXCEPT !.uncompressed_size = Wrap(@ + src.uncompressed_size),
                 !.total_size = @ + src.total_size, !.record_count = @ + src.record_count,
                 !.checks = Checks(dest) \cup src.checks]
Joined(dest, src) ==
  LET cut == [dest EXCEPT !.streams[Rightmost(dest.tree)] = Shrunk(@)]
      all == Fold(LAMBDA i, n : AddStream(i, Moved(dest, FileSize(dest), src.streams[n])),
                      cut, Traversal(src.tree))
  IN [all EXCEPT !.uncompressed_size = Wrap(@ + src.uncompressed_size),
                 !.total_size = @ + src.total_size, !.record_count = @ + src.record_count,
                 !.list_size = @ + src.list_size, !.checks = Checks(dest) \cup src.checks]

Cat(dest, src) == IF CatRefused(dest, src) THEN Answered("DATA_ERROR", dest)
                  ELSE Answered("OK", Joined(dest, src))

(* A copy keeps the Records of a Stream in one group, and takes the totals *)
(* over. It does not take the Checks of the earlier Streams over.          *)
RecordsOf(s) == With(Traversal(s.tree), LAMBDA order :
  FlattenSeq([k \in 1 .. Len(order) |-> s.groups[order[k]].records]))

DupStream(s) ==
  LET plain   == [s EXCEPT !.groups = <<>>, !.tree = EmptyTree, !.record_count = 0]
      one     == NewGroup(plain, 0, 0, s.record_count)
  IN IF NoGroups(s) THEN s
     ELSE [one EXCEPT !.groups[1].records = RecordsOf(s), !.record_count = s.record_count]

Dup(i) ==
  LET copy == Fold(LAMBDA d, n : AddStream(d, DupStream(i.streams[n])),
                       PlainIndex, Traversal(i.tree))
  IN [copy EXCEPT !.uncompressed_size = i.uncompressed_size, !.total_size = i.total_size,
                  !.record_count = i.record_count, !.list_size = i.list_size]

-----------------------------------------------------------------------------
(* An iterator remembers a Stream, a group (with the allocation it was     *)
(* in), a Record of it, and how to find the group again.                   *)
RewoundIter == [stream |-> 0, group |-> 0, gen |-> 0, record |-> 0, method |-> "NORMAL"]

(* What an iterator keeps. The last group of the last Stream may be moved  *)
(* by Cat and joined by others, so it is found through its parent or as    *)
(* the leftmost.                                                           *)
FindDirectly(i, sn, gn) == IF gn = 0 THEN <<0, "LEFTMOST">> ELSE <<gn, "NORMAL">>
HowToFind(i, sn, gn) ==
  LET s == i.streams[sn]
  IN CASE gn = 0                                            -> <<0, "LEFTMOST">>
       [] gn # 0 /\ (sn # Rightmost(i.tree) \/ gn # Rightmost(s.tree)) -> <<gn, "NORMAL">>
       [] gn # 0 /\ sn = Rightmost(i.tree) /\ gn = Rightmost(s.tree)
            /\ gn # Leftmost(s.tree)                        -> <<s.tree.parent[gn], "NEXT">>
       [] OTHER                                             -> <<0, "LEFTMOST">>

Keep(i, sn, gn, record) ==
  LET how == HowToFind(i, sn, gn)
  IN [stream |-> sn, group |-> how[1], record |-> record, method |-> how[2],
      gen |-> IF how[1] = 0 THEN 0 ELSE i.streams[sn].groups[how[1]].gen]

GroupAgain(i, iter) ==
  CASE iter.method = "NORMAL"   -> iter.group
    [] iter.method = "NEXT"     -> TreeNext(i.streams[iter.stream].tree, iter.group)
    [] iter.method = "LEFTMOST" -> Leftmost(i.streams[iter.stream].tree)

BlockModes == {"BLOCK", "NONEMPTY_BLOCK"}

(* The first Stream from sn on that the mode stops at; 0: none.            *)
StreamFrom(i, sn, mode) ==
  Times(Count(i.tree),
        LAMBDA n : IF n # 0 /\ mode \in BlockModes /\ NoGroups(i.streams[n])
                   THEN TreeNext(i.tree, n) ELSE n, sn)

(* One pass of iter_next: <<Stream, group, Record>>, Stream 0 at the end.  *)
StepOver(i, pos, mode) ==
  LET FirstOf(sn) == <<sn, IF sn = 0 THEN 0 ELSE Leftmost(i.streams[sn].tree), 0>>
      s == i.streams[pos[1]]
      g == IF pos[2] = 0 THEN 0 ELSE TreeNext(s.tree, pos[2])
  IN CASE pos[1] = 0 -> FirstOf(StreamFrom(i, Leftmost(i.tree), mode))
       [] pos[1] # 0 /\ pos[2] # 0 /\ pos[3] + 1 < Len(s.groups[pos[2]].records)
            -> <<pos[1], pos[2], pos[3] + 1>>
       [] OTHER -> IF g # 0 THEN <<pos[1], g, 0>>
                   ELSE FirstOf(StreamFrom(i, TreeNext(i.tree, pos[1]), mode))

UncompressedBefore(i, pos) ==
  LET g == i.streams[pos[1]].groups[pos[2]]
  IN IF pos[3] = 0 THEN g.ubase ELSE g.records[pos[3]].csum
UnpaddedBefore(i, pos) ==
  LET g == i.streams[pos[1]].groups[pos[2]]
  IN IF pos[3] = 0 THEN g.cbase ELSE Ceil4(g.records[pos[3]].usum)
RecordAt(i, pos) == i.streams[pos[1]].groups[pos[2]].records[pos[3] + 1]

NextPosition(i, iter, mode) ==
  LET start == <<iter.stream,
                 IF mode = "STREAM" \/ iter.stream = 0 THEN 0 ELSE GroupAgain(i, iter),
                 iter.record>>
      Empty(p) == /\ mode = "NONEMPTY_BLOCK" /\ p[1] # 0
                  /\ UncompressedBefore(i, p) = RecordAt(i, p).csum
  IN Times(i.record_count, LAMBDA p : IF Empty(p) THEN StepOver(i, p, mode) ELSE p,
           StepOver(i, start, mode))

LocatePosition(i, target) ==
  LET sn  == TreeLocate(i.tree, [n \in DOMAIN i.streams |-> i.streams[n].ubase], target)
      s   == i.streams[sn]
      off == target - s.ubase
      gn  == TreeLocate(s.tree, [n \in DOMAIN s.groups |-> s.groups[n].ubase], off)
      rs  == s.groups[gn].records
      found == Times(Len(rs),
                     LAMBDA lr : IF lr[1] >= lr[2] THEN lr
                                 ELSE LET pos == lr[1] + (lr[2] - lr[1]) \div 2
                                      IN IF rs[pos + 1].csum <= off THEN <<pos + 1, lr[2]>>
                                         ELSE <<lr[1], pos>>,
                     <<0, Len(rs) - 1>>)
  IN IF i.uncompressed_size <= target THEN <<0, 0, 0>> ELSE <<sn, gn, found[1]>>

(* What the application reads in the iterator.                             *)
StreamInfo(i, sn) ==
  LET s == i.streams[sn]
  IN [number |-> s.number, block_count |-> s.record_count, compressed_offset |-> s.cbase,
      uncompressed_offset |-> s.ubase, padding |-> s.padding, flags |-> s.flags,
      compressed_size |-> IndexSize(s.record_count, s.list_size) + 2 * HeaderSize
                            + Ceil4(UnpaddedSum(s)),
      uncompressed_size |-> UncompressedSum(s)]

BlockInfo(i, pos) ==
  LET s == i.streams[pos[1]]
      before == UnpaddedBefore(i, pos)
      unpadded == RecordAt(i, pos).usum - before
  IN [number_in_stream |-> s.groups[pos[2]].number_base + pos[3],
      number_in_file |-> s.groups[pos[2]].number_base + pos[3] + s.block_base,
      unpadded_size |-> unpadded, total_size |-> Ceil4(unpadded),
      uncompressed_size |-> RecordAt(i, pos).csum - UncompressedBefore(i, pos),
      compressed_file_offset |-> before + HeaderSize + s.cbase,
      uncompressed_file_offset |-> UncompressedBefore(i, pos) + s.ubase]
=============================================================================
