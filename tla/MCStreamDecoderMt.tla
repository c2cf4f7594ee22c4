-------------------------- MODULE MCStreamDecoderMt --------------------------
(* Model of StreamDecoderMt for TLC: files of one to three small Blocks. A *)
(* Block of two units of input and two of output takes, with its buffer,   *)
(* four units of memory and its filters.                                   *)
EXTENDS StreamDecoderMt

Block(known, filters, last, flaw) ==
  [in |-> 2, out |-> 2, filters |-> filters, known |-> known, last |-> last, flaw |-> flaw]

Mid  == Block(TRUE, 1, FALSE, "none")
End1 == Block(TRUE, 1, TRUE, "none")

(* No flags, and an application that adds one unit at a time.              *)
Plain ==
  [file |-> <<Mid, End1>>, fail_fast |-> FALSE, tell |-> FALSE, concatenated |-> FALSE,
   timeout |-> FALSE, alloc_fails |-> FALSE, offers |-> {1}, spaces |-> {3},
   truncates |-> FALSE, stop_limits |-> {}]

(* Time-outs; input and space may be missing altogether.                   *)
Waits == [Plain EXCEPT !.timeout = TRUE, !.offers = {0, 4}, !.spaces = {0, 1}]

(* The second Block is corrupt, the file may be cut off, memory may lack.  *)
Flawed ==
  [Plain EXCEPT !.file = <<Mid, Block(TRUE, 1, TRUE, "data")>>, !.tell = TRUE,
                !.alloc_fails = TRUE, !.truncates = TRUE]

(* With LZMA_FAIL_FAST, a corrupt header behind two Blocks.                *)
FailsFast ==
  [Plain EXCEPT !.file = <<Mid, Mid, Block(TRUE, 1, TRUE, "header")>>, !.fail_fast = TRUE,
                !.truncates = TRUE]

(* Filters and buffers of different sizes take turns in the same memory,   *)
(* which may lack.                                                         *)
Heavy == [in |-> 1, out |-> 1, filters |-> 4, known |-> TRUE, last |-> FALSE, flaw |-> "none"]
Light == [Heavy EXCEPT !.filters = 1]
Grows ==
  [Plain EXCEPT !.file = <<Heavy, Light, [Heavy EXCEPT !.last = TRUE, !.flaw = "index"]>>,
                !.offers = {3}, !.alloc_fails = TRUE]

(* Three Streams, the last footer flawed; a Block without sizes; one that  *)
(* is above both memory limits.                                            *)
Directly ==
  [Plain EXCEPT !.file = <<End1, Block(FALSE, 1, TRUE, "none"), Block(TRUE, 20, TRUE, "footer")>>,
                !.concatenated = TRUE, !.alloc_fails = TRUE, !.stop_limits = {20},
                !.offers = {3}, !.spaces = {0, 1, 3}]

(* Two zeros between two Streams.                                          *)
Padded ==
  [Plain EXCEPT !.file = <<Block(TRUE, 1, TRUE, "padding"), End1>>, !.concatenated = TRUE,
                !.truncates = TRUE]

(* A flawed Stream header between two Streams; sizes that no Index holds,  *)
(* of a Block for a thread and of one decoded directly.                    *)
NextStream == [Plain EXCEPT !.file = <<End1, Block(TRUE, 1, TRUE, "stream")>>, !.concatenated = TRUE]
Oversized(known) ==
  [Plain EXCEPT !.file = <<Mid, Block(known, 1, TRUE, "record")>>, !.offers = {2}]

AllSetups ==
  {Waits, Flawed, FailsFast, Grows, Directly, Padded, NextStream, Oversized(TRUE), Oversized(FALSE)}
=============================================================================
