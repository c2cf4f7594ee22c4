-------------------------- MODULE BlockDecoderUse --------------------------
(***************************************************************************)
(* lzma_block_decoder in use: an application feeds one Block, followed by  *)
(* other data, in pieces, and offers output space as it likes.             *)
(***************************************************************************)
EXTENDS BlockDecoder

CONSTANTS
  Blocks,    (* the Blocks it may be given                                 *)
  Spaces,    (* output space in a call                                     *)
  Pieces,    (* input added for a call with RUN                            *)
  Finishes,  (* when FINISH comes: "whole" (all the input), "truncated"    *)
  Follow     (* bound: units that follow the Block                         *)

ASSUME UseAssumption ==
  /\ \A b \in Blocks : /\ b.chunks \in Nat \ {0} /\ b.comp \in Nat /\ b.out \in Nat /\ b.tail \in Nat
                       /\ b.chunks < b.comp /\ b.chunks <= b.out /\ b.flaw \in {"none", "data"}
  /\ Spaces \subseteq Nat /\ Pieces \subseteq Nat /\ Follow \in Nat
  /\ Finishes \subseteq {"whole", "truncated"}

VARIABLES
  b,         (* the Block                                                  *)
  d,         (* the decoder                                                *)
  avail,     (* input units offered and not consumed                       *)
  finish,    (* FINISH has been used                                       *)
  ret,       (* what the last call returned                                *)
  output,    (* history: the data units given out                          *)
  cut        (* history: a RUN call's input ended within the Block's data  *)

vars == <<b, d, avail, finish, ret, output, cut>>

Init ==
  /\ b \in Blocks
  /\ d = FreshDecoder /\ avail = 0 /\ finish = FALSE /\ ret = "OK" /\ output = <<>>
  /\ cut = FALSE

(* Input units the application has not offered yet.                        *)
Rest == b.comp + b.tail + Follow - (d.in + avail)

(* One lzma_code with a units of input in all.                             *)
Call(a, s, fin) ==
  \E r \in {Code(b, d, a, s, fin)} :
     /\ ret = "OK"
     /\ d' = r.d /\ ret' = r.ret /\ output' = output \o r.units
     /\ avail' = a - r.in /\ finish' = fin
     /\ cut' = (cut \/ (~fin /\ 0 < d.in + a /\ d.in + a < b.comp))
     /\ UNCHANGED b

Run == ~finish /\ \E s \in Spaces, n \in Pieces : n <= Rest /\ Call(avail + n, s, FALSE)

Finish ==
  \E s \in Spaces :
    \/ finish /\ Call(avail, s, TRUE)
    \/ ~finish /\ "whole" \in Finishes /\ Call(avail + Rest, s, TRUE)
    \/ ~finish /\ "truncated" \in Finishes /\ Call(avail, s, TRUE)

(* A Block that is done, for better or worse, is followed by another.      *)
Again ==
  /\ ret # "OK"
  /\ b' \in Blocks
  /\ d' = FreshDecoder /\ avail' = 0 /\ finish' = FALSE /\ ret' = "OK" /\ output' = <<>>
  /\ cut' = FALSE

Next == Run \/ Finish \/ Again

Spec == Init /\ [][Next]_vars

-----------------------------------------------------------------------------

(* STREAM_END means that all the data has been given out, in order, and    *)
(* that the input stands right behind the Block; and the raw decoder, which *)
(* swallows all the input it is given, never gets what belongs to the      *)
(* check or to the next Block (the clipped buffers of block_decode, and    *)
(* the two sizes it compares when the raw decoder ends).                   *)
EndIsExact ==
  /\ d.opened * ChunkIn(b) + d.src <= b.comp
  /\ ret = "STREAM_END" => /\ output = Units(1, b.out) /\ d.in = b.comp + b.tail
                           /\ b.flaw = "none"

(* What is given out is the Block's data from its start, nothing skipped,  *)
(* however little space each call offers and whatever was read ahead, as   *)
(* long as no RUN call's input ends within the compressed data: the LZMA2  *)
(* reader cannot be resumed there (copy_output and refill of raw_code).    *)
PrefixUnlessCut == ~cut => output = Units(1, Len(output))
=============================================================================
