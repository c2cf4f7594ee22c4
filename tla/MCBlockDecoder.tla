--------------------------- MODULE MCBlockDecoder ---------------------------
(* Model of BlockDecoderUse for TLC: Blocks of one or two chunks.          *)
EXTENDS BlockDecoderUse

Block(chunks, comp, out, tail, flaw) ==
  [chunks |-> chunks, comp |-> comp, out |-> out, tail |-> tail, flaw |-> flaw]

SomeBlocks ==
  {Block(1, 3, 2, 1, "none"), Block(2, 5, 4, 1, "none"), Block(2, 5, 4, 2, "data"),
   Block(1, 2, 3, 0, "none"), Block(2, 3, 2, 1, "data"), Block(3, 4, 6, 2, "none")}
=============================================================================
