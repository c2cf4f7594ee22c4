---------------------------- MODULE MCDecoderMt ----------------------------
(* Model of DecoderMt for TLC: files of one to three small Blocks. A Block *)
(* has two units of data, two compressed units and one of padding and      *)
(* check; with its buffer it takes five units of memory and its filters.   *)
EXTENDS DecoderMt

Block(known, filters, last, flaw) ==
  [chunks |-> 1, comp |-> 2, tail |-> 1, out |-> 2, filters |-> filters,
   known |-> known, last |-> last, flaw |-> flaw]

Mid  == Block(TRUE, 1, FALSE, "none")
End1 == Block(TRUE, 1, TRUE, "none")

(* No flags, and an application that adds one unit at a time.              *)
Plain ==
  [file |-> <<Mid, End1>>, fail_fast |-> FALSE, tell |-> FALSE, concatenated |-> FALSE,
   timeout |-> FALSE, alloc_fails |-> FALSE, offers |-> {1}, spaces |-> {3},
   truncates |-> FALSE, stop_limits |-> {}]

(* Time-outs; input and space may be missing altogether.                   *)
Waits == [Plain EXCEPT !.timeout = TRUE, !.offers = {0, 1}, !.spaces = {0, 1, 3}]

(* The second Block is corrupt, the file may be cut off, copies may fail.  *)
Flawed ==
  [Plain EXCEPT !.file = <<Mid, Block(TRUE, 1, TRUE, "data")>>, !.tell = TRUE,
                !.alloc_fails = TRUE, !.truncates = TRUE, !.offers = {1, 2}, !.spaces = {0, 3}]

(* With LZMA_FAIL_FAST, a corrupt header behind two Blocks.                *)
FailsFast ==
  [Plain EXCEPT !.file = <<Mid, Mid, Block(TRUE, 1, TRUE, "header")>>, !.fail_fast = TRUE,
                !.truncates = TRUE, !.offers = {1, 2}, !.spaces = {0, 3}]

(* The third Block takes all the memory memlimit_threading admits.         *)
Grows == [Plain EXCEPT !.file = <<Mid, Mid, Block(TRUE, 7, TRUE, "none")>>, !.offers = {1, 3}]

(* Two Streams; a Block without sizes; one above both memory limits.       *)
Directly ==
  [Plain EXCEPT !.file = <<End1, Block(FALSE, 1, FALSE, "none"), Block(TRUE, 20, TRUE, "data")>>,
                !.concatenated = TRUE, !.stop_limits = {20}, !.offers = {1, 3},
                !.spaces = {0, 1, 3}]

(* A Block that is decoded directly and may be cut within its data.        *)
Torn ==
  [Plain EXCEPT !.file = <<[Block(TRUE, 20, TRUE, "none") EXCEPT !.comp = 3]>>,
                !.stop_limits = {20}, !.offers = {1, 2}, !.spaces = {0, 1, 3}]

(* Everything else that may be wrong with a file, in its second Block or   *)
(* at the end of its first Stream; sizes no Index can hold also where the  *)
(* Block is decoded directly.                                              *)
Second(known, flaw) == [Plain EXCEPT !.file = <<Mid, Block(known, 1, TRUE, flaw)>>, !.offers = {2}]
Streams(one, two)   ==
  [Plain EXCEPT !.file = <<Block(TRUE, 1, TRUE, one), Block(TRUE, 1, TRUE, two)>>,
                !.concatenated = TRUE, !.truncates = TRUE, !.offers = {2}]

Ruined ==
  {Second(TRUE, "index"), Second(TRUE, "footer"), Second(TRUE, "record"), Second(FALSE, "record"),
   Streams("none", "stream"), Streams("padding", "none")}

AllSetups == {Waits, Flawed, FailsFast, Grows, Directly, Torn} \cup Ruined

CutOffSetups   == {[Plain EXCEPT !.truncates = TRUE, !.spaces = {0, 3}]}
=============================================================================
