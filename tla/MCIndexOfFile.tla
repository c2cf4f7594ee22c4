---------------------------- MODULE MCIndexOfFile ----------------------------
EXTENDS IndexOfFile

SmallBlocks == {<<5, 0>>, <<8, 3>>, <<84, 100>>}
Built(i, blocks) == Fold(LAMBDA x, b : AppendBlock(x, b[1], b[2]).index, i, blocks)
AsDecoded(blocks) == Built(Prealloc(IndexInit, Len(blocks)), blocks)
Marked(i) == StreamPadding(StreamFlags(i, "sha256").index, 4).index
FirstIndexes == {IndexInit, AsDecoded(<< <<5, 3>>, <<5, 0>>, <<8, 3>> >>),
                 Built(IndexInit, << <<5, 0>>, <<5, 3>>, <<8, 0>>, <<5, 3>> >>)}
OtherIndexes == {IndexInit, Marked(AsDecoded(<< <<5, 3>> >>))}

(* A Stream of a file, and the file with it.                               *)
Zeros(n) == [k \in 1 .. n |-> 0]
Field(blocks) == IndexBytes(Built(IndexInit, blocks))
StreamBytes(s) ==
  With(Field(s.blocks), LAMBDA field :
    HeaderBytes(s.flags) \o [k \in 1 .. Total(s.blocks, LAMBDA b : Ceil4(b[1])) |-> 9]
      \o field \o FooterBytes(s.flags, Len(field)) \o Zeros(s.padding))
BytesOf(l) == FlattenSeq([n \in 1 .. Len(l) |-> StreamBytes(l[n])])
Listed(l) == [n \in 1 .. Len(l) |->
  [l[n] EXCEPT !.blocks = [k \in 1 .. Len(l[n].blocks) |->
      [unpadded |-> l[n].blocks[k][1], uncompressed |-> l[n].blocks[k][2]]]]]
Sound(l) == [bytes |-> BytesOf(l), list |-> Listed(l)]
Damaged(bytes) == [bytes |-> bytes, list |-> <<>>]

S(blocks, flags, padding) == [blocks |-> blocks, flags |-> flags, padding |-> padding]
One   == <<S(<< <<5, 3>>, <<8, 0>> >>, "crc32", 0)>>
Two   == <<S(<< <<5, 3>> >>, "crc32", 4), S(<< <<7, 20>> >>, "crc64", 24)>>
Empty == <<S(<<>>, "sha256", 0), S(<< <<5, 3>> >>, "crc32", 0), S(<<>>, "crc32", 0)>>

(* The first byte of Two's second Header; the last of One's Index.         *)
OneBytes == BytesOf(One)
TwoBytes == BytesOf(Two)
AllFiles ==
  {Sound(One), Sound(Two), Sound(Empty),
   Damaged(OneBytes \o Zeros(2)), Damaged(SubSeq(OneBytes, 5, Len(OneBytes))),
   Damaged(SubSeq(OneBytes, 1, 8)), Damaged(OneBytes \o <<7, 7, 7, 7>>),
   Damaged(HeaderBytes("crc64") \o SubSeq(OneBytes, 13, Len(OneBytes))),
   Damaged([OneBytes EXCEPT ![Len(OneBytes) - 12] = 5]),
   Damaged([OneBytes EXCEPT ![Len(OneBytes) - 18] = 8]),
   Damaged(SubSeq(OneBytes, 1, Len(OneBytes) - 12) \o FooterBytes("crc32", 8)),
   Damaged(SubSeq(OneBytes, 1, Len(OneBytes) - 12) \o FooterBytes("crc32", 16)),
   Damaged(SubSeq(TwoBytes, 13, Len(TwoBytes))),
   Damaged(HeaderBytes("crc32") \o OneBytes), Damaged(HeaderBytes("crc32") \o Zeros(12))}
=============================================================================
