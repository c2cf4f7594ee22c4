------------------------------ MODULE IndexList ------------------------------
(***************************************************************************)
(* What lzma_index promises: a list of Streams, each a list of Blocks.     *)
(* Blocks are added at the end, lists are joined, and an iterator walks    *)
(* over the Blocks in order, also over the ones added behind it. Every     *)
(* number is a sum over the list. src/original/src/liblzma/api/lzma/       *)
(* index.h is the interface.                                               *)
(***************************************************************************)
EXTENDS IndexTree, SequencesExt

CONSTANT SkipsFirst   \* a Block added to an empty Stream the iterator stands at may be skipped

VARIABLES list,      \* the main Index
          other,     \* a second one, or None
          place,     \* <<Stream, Block>> the iterator is at; <<n, 0>>: an empty Stream
          told,      \* what the last iterator call filled in
          call       \* the last call and what it returned

listVars == <<list, other, place, told, call>>

None == <<>>
Block(unpadded, uncompressed) == [unpadded |-> unpadded, uncompressed |-> uncompressed]

Padded(b)     == Ceil4(b.unpadded)
Plain(b)      == b.uncompressed
ListSize(b)   == VliSize(b.unpadded) + VliSize(b.uncompressed)
BlocksSize(s) == Total(s.blocks, Padded)
PlainSize(s)  == Total(s.blocks, Plain)
SizeOf(s)     == StreamSize(BlocksSize(s), Len(s.blocks), Total(s.blocks, ListSize)) + s.padding
AllBlocks(l)  == FlattenSeq([n \in 1 .. Len(l) |-> l[n].blocks])
FileSizeIs(l) == Total(l, SizeOf)
PlainIs(l)    == Total(l, PlainSize)
FieldIs(l)    == IndexSize(Len(AllBlocks(l)), Total(AllBlocks(l), ListSize))
Unpadded(l)   == IndexSizeUnpadded(Len(AllBlocks(l)), Total(AllBlocks(l), ListSize))

WithBlock(l, b) == [l EXCEPT ![Len(l)].blocks = Append(@, b)]

Fits(l, b) ==
  LET new == WithBlock(l, b)
  IN /\ PlainSize(Last(new)) <= VliMax
     /\ BlocksSize(Last(l)) + b.unpadded <= UnpaddedMax
     /\ FileSizeIs(new) <= VliMax
     /\ FieldIs(new) <= BackwardMax

Joins(l, m) ==
  /\ FileSizeIs(l) + FileSizeIs(m) <= VliMax
  /\ PlainIs(l) + PlainIs(m) <= VliMax
  /\ Ceil4(Unpadded(l) + Unpadded(m)) <= BackwardMax

Before(p, q) == p[1] < q[1] \/ (p[1] = q[1] /\ p[2] < q[2])

Places(l) == UNION {IF l[n].blocks = <<>> THEN {<<n, 0>>}
                    ELSE {<<n, k>> : k \in 1 .. Len(l[n].blocks)} : n \in 1 .. Len(l)}

Wanted(l, mode) ==
  {p \in Places(l) :
     /\ mode \in {"BLOCK", "NONEMPTY_BLOCK"} => p[2] # 0
     /\ mode = "NONEMPTY_BLOCK" => l[p[1]].blocks[p[2]].uncompressed > 0}

(* The places that follow p; the first of them is the next.                *)
Following(l, p, mode) ==
  {q \in Wanted(l, mode) : IF mode = "STREAM" THEN q[1] > p[1] ELSE Before(p, q)}
First(set) == CHOOSE p \in set : \A q \in set : p = q \/ Before(p, q)

PlainBefore(l, p) == PlainIs(SubSeq(l, 1, p[1] - 1))
                       + Total(SubSeq(l[p[1]].blocks, 1, p[2] - 1), Plain)

StreamOf(l, n) ==
  [number |-> n, block_count |-> Len(l[n].blocks), padding |-> l[n].padding,
   flags |-> l[n].flags, compressed_offset |-> FileSizeIs(SubSeq(l, 1, n - 1)),
   uncompressed_offset |-> PlainIs(SubSeq(l, 1, n - 1)),
   compressed_size |-> SizeOf(l[n]) - l[n].padding, uncompressed_size |-> PlainSize(l[n])]

BlockOf(l, p) ==
  LET b == l[p[1]].blocks[p[2]]
  IN [number_in_stream |-> p[2],
      number_in_file |-> p[2] + Len(AllBlocks(SubSeq(l, 1, p[1] - 1))),
      unpadded_size |-> b.unpadded, total_size |-> Padded(b),
      uncompressed_size |-> b.uncompressed,
      compressed_file_offset |-> FileSizeIs(SubSeq(l, 1, p[1] - 1)) + HeaderSize
                                   + Total(SubSeq(l[p[1]].blocks, 1, p[2] - 1), Padded),
      uncompressed_file_offset |-> PlainBefore(l, p)]

Nothing == [stream |-> None, block |-> None]
InfoOf(l, p) == [stream |-> StreamOf(l, p[1]),
                 block  |-> IF p[2] = 0 THEN None ELSE BlockOf(l, p)]

-----------------------------------------------------------------------------
(* A call and its answer; told is what an iterator call filled in.         *)
Idle == [op |-> "init", arg |-> 0, ret |-> "OK"]
Said(op, ret) == call'.op = op /\ call'.ret = ret

ListInit == /\ list # None /\ other = None /\ call = Idle
            /\ place = <<0, 0>> /\ told = Nothing

AddBlock(l) == LET b == call'.arg IN
  /\ IF Fits(l, b) THEN Said("append", "OK") /\ list' = WithBlock(l, b)
     ELSE Said("append", "DATA_ERROR") /\ list' = l
  /\ UNCHANGED <<other, place, told>>

SetFlags(l) == /\ Said("stream_flags", "OK")
               /\ list' = [l EXCEPT ![Len(l)].flags = call'.arg]
               /\ UNCHANGED <<other, place, told>>

SetPadding(l) == LET new == [l EXCEPT ![Len(l)].padding = call'.arg] IN
  /\ IF FileSizeIs(new) <= VliMax THEN Said("stream_padding", "OK") /\ list' = new
     ELSE Said("stream_padding", "DATA_ERROR") /\ list' = l
  /\ UNCHANGED <<other, place, told>>

(* The Index of a file: call'.arg is what the file holds.                  *)
Adopt == /\ Said("decode", "OK") /\ list' = call'.arg
         /\ UNCHANGED <<other, place, told>>

Bring(l) == /\ other = None /\ Said("bring", "OK") /\ other' = call'.arg
            /\ list' = l /\ UNCHANGED <<place, told>>

Join(l) ==
  /\ other # None
  /\ IF Joins(l, other) THEN Said("cat", "OK") /\ list' = l \o other /\ other' = None
     ELSE Said("cat", "DATA_ERROR") /\ list' = l /\ UNCHANGED other
  /\ UNCHANGED <<place, told>>

(* A copy takes the place of the Index, and the iterator is set up for it. *)
Replace(l) == /\ Said("dup", "OK") /\ place' = <<0, 0>> /\ told' = Nothing
              /\ list' = l /\ UNCHANGED other

Reach(op, l, there) ==
  IF there = {} THEN Said(op, "END") /\ UNCHANGED <<place, told>>
  ELSE \E p \in {First(there)} : Said(op, "OK") /\ place' = p /\ told' = InfoOf(l, p)

Walk(l) == \E p \in {place} :
  /\ list' = l /\ UNCHANGED other
  /\ \/ Reach("next", l, Following(l, p, call'.arg))
     \/ /\ SkipsFirst /\ p[1] # 0 /\ p[2] = 0 /\ l[p[1]].blocks # <<>>
        /\ Reach("next", l, Following(l, <<p[1], 1>>, call'.arg))

Holding(l, target) ==
  {p \in Wanted(l, "BLOCK") :
     /\ PlainBefore(l, p) <= target
     /\ target < PlainBefore(l, p) + l[p[1]].blocks[p[2]].uncompressed}

Seek(l) == /\ list' = l /\ UNCHANGED other
           /\ Reach("locate", l, Holding(l, call'.arg))

ListNext == \E l \in {list} :
  CASE call'.op = "append"         -> AddBlock(l)
    [] call'.op = "stream_flags"   -> SetFlags(l)
    [] call'.op = "stream_padding" -> SetPadding(l)
    [] call'.op = "decode"         -> Adopt
    [] call'.op = "bring"          -> Bring(l)
    [] call'.op = "cat"            -> Join(l)
    [] call'.op = "dup"            -> Replace(l)
    [] call'.op = "next"           -> Walk(l)
    [] call'.op = "locate"         -> Seek(l)
    [] OTHER                       -> FALSE

=============================================================================
