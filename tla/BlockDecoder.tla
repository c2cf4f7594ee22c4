---------------------------- MODULE BlockDecoder ----------------------------
(***************************************************************************)
(* Decoding one Block in pieces: block_decode of                           *)
(* src/safe/src/internal/block/coder.rs over the raw decoder of            *)
(* src/safe/src/internal/upstream.rs over the LZMA2 reader it drives, as   *)
(* operators on the decoder's value. Each of the two coders sits behind    *)
(* an lzma_code of its own.                                                *)
(*                                                                         *)
(* A Block is [chunks, comp, out, tail]: comp units of compressed data,    *)
(* the last of them the end marker and the others LZMA2 chunks of equal    *)
(* length, hold out units of data; tail units of padding and check follow. *)
(***************************************************************************)
EXTENDS Integers, Sequences, SequencesExt

FreshDecoder ==
  [coding |-> TRUE,     (* BlockSequence::Code                             *)
   in |-> 0,            (* units of the Block consumed                     *)
   out |-> 0,           (* units of data given out                         *)
   stuck |-> FALSE,     (* allow_buf_error of the two lzma_code's          *)
   src |-> 0,           (* compressed units buffered for the reader        *)
   eof |-> FALSE,       (* no more will come                               *)
   opened |-> 0,        (* chunks the reader has begun                     *)
   next |-> 1,          (* the data unit it reads next                     *)
   torn |-> FALSE,      (* it threw half a chunk away                      *)
   end |-> FALSE,       (* it has seen the end marker                      *)
   pending |-> <<>>,    (* read, not given out                             *)
   finished |-> FALSE]  (* stream_finished                                 *)

Least(m, n)    == IF m < n THEN m ELSE n
Most(m, n)     == IF m > n THEN m ELSE n
Units(from, n) == [i \in 1 .. n |-> from + i - 1]
ChunkIn(b)     == (b.comp - 1) \div b.chunks
ChunkOut(b)    == b.out \div b.chunks

-----------------------------------------------------------------------------
(* Lzma2Reader::read for n units.                                          *)

(* The chunks complete in the source, and the data units that makes.       *)
Whole(b, d)    == Least(d.src \div ChunkIn(b), b.chunks - d.opened)
Readable(b, d) == (d.opened + Whole(b, d)) * ChunkOut(b) - (d.next - 1)

(* Read n of them, opening as many chunks as that takes.                   *)
Needed(b, n) == (n + ChunkOut(b) - 1) \div ChunkOut(b)

Open(b, d, more, upto) ==
  [d EXCEPT !.src = @ - more * ChunkIn(b), !.opened = @ + more, !.next = upto + 1]

Take(b, d, n) ==
  Open(b, d, Most(0, Needed(b, d.next - 1 + n) - d.opened), d.next - 1 + n)

Result(d, units, ret) == [d |-> d, units |-> units, ret |-> ret]
Dry(d)                == IF d.eof THEN "BUF_ERROR" ELSE "WouldBlock"

(* A source that runs dry loses what the read has decoded so far (e is the *)
(* decoder after that), and the part of a chunk it has taken.              *)
RunDry(e) == Result([e EXCEPT !.src = 0, !.torn = e.src > 0], <<>>, Dry(e))

(* The end marker comes after the last chunk.                              *)
AtMarker(b, e) == e.opened = b.chunks /\ e.src > 0

(* rest units are readable; e is the decoder after reading them.           *)
ReadOn(b, d, n, rest, e) ==
  IF n <= rest           THEN Result(Take(b, d, n), Units(d.next, n), "OK")
  ELSE IF AtMarker(b, e) THEN Result([e EXCEPT !.src = @ - 1, !.end = TRUE],
                                     Units(d.next, rest), "OK")
  ELSE RunDry(e)

ReadUnits(b, d, n) ==
  CASE d.end            -> Result(d, <<>>, "OK")
    [] ~d.end /\ d.torn -> Result(d, <<>>, IF d.src > 0 THEN "DATA_ERROR" ELSE Dry(d))
    [] OTHER            -> ReadOn(b, d, n, Readable(b, d), Take(b, d, Readable(b, d)))

-----------------------------------------------------------------------------
(* raw_code, the decoder's half, given a units of input and s of space.    *)

Answer(d, in, units, ret) == [d |-> d, in |-> in, units |-> units, ret |-> ret]
Fails(ret)                == ret \notin {"OK", "WouldBlock"}

(* Read until the target is met or the source is dry; once the input is    *)
(* complete, look one unit further (l) to notice the end.                  *)
LookForgotten(l) ==
  Result([l.d EXCEPT !.finished = l.ret = "OK" /\ l.units = <<>>], <<>>, l.ret)
Look(l) ==
  Result([l.d EXCEPT !.pending = @ \o l.units, !.finished = l.ret = "OK" /\ l.units = <<>>],
         <<>>, l.ret)

Filled(r, target) ==
  [r.d EXCEPT !.pending = r.units, !.finished = r.ret = "OK" /\ Len(r.units) < target]

LookAhead(b, d, ret, target) ==
  IF ~Fails(ret) /\ d.eof /\ ~d.finished /\ Len(d.pending) = target
  THEN Look(ReadUnits(b, d, 1))
  ELSE Result(d, <<>>, ret)

AfterRead(b, r, target)  == LookAhead(b, Filled(r, target), r.ret, target)
Refill(b, d, target)     == AfterRead(b, ReadUnits(b, d, target), target)

(* copy_output: after the units given before, k of those pending.          *)
Given(d, in, before, k) ==
  Answer([d EXCEPT !.pending = SubSeq(@, k + 1, Len(@))], in,
         before \o SubSeq(d.pending, 1, k),
         IF k = Len(d.pending) /\ d.finished THEN "STREAM_END" ELSE "OK")

GiveOut(d, in, before, s) == Given(d, in, before, Least(Len(d.pending), s))

(* What was pending goes out first (old); only if space is left, and that  *)
(* was not the end, the new input is taken and read.                       *)
Refilled(r, before, a, space) ==
  IF Fails(r.ret) THEN Answer(r.d, a, before, r.ret) ELSE GiveOut(r.d, a, before, space)

Feed(b, fed, before, a, space) ==
  IF fed.finished THEN Answer(fed, a, before, "STREAM_END")
  ELSE Refilled(Refill(b, fed, Most(1, space)), before, a, space)

AfterOld(b, d, old, a, space, fin) ==
  IF d.pending # <<>> /\ (old.d.pending # <<>> \/ old.ret = "STREAM_END" \/ space = 0)
  THEN old
  ELSE Feed(b, [old.d EXCEPT !.src = @ + a, !.eof = @ \/ fin], old.units, a, space)

RawDecode(b, d, a, s, fin) ==
  AfterOld(b, d, GiveOut(d, 0, <<>>, s), a, s - Least(Len(d.pending), s), fin)

-----------------------------------------------------------------------------
(* block_decode.                                                           *)

(* lzma_code around the raw decoder, with no more input and space than     *)
(* belong to the Block.                                                    *)
Counted(d, r) ==
  Answer([r.d EXCEPT !.in = @ + r.in, !.out = @ + Len(r.units)], r.in, r.units,
         IF r.ret = "OK" /\ r.in = 0 /\ r.units = <<>> /\ d.stuck THEN "BUF_ERROR" ELSE r.ret)

Inner(b, d, a, s, fin) ==
  Counted(d, RawDecode(b, d, Least(a, b.comp - d.in), Least(s, b.out - d.out), fin))

(* The raw decoder goes on although the Block's sizes are used up.         *)
Overlong(b, r, a, s) ==
  \/ r.d.in = b.comp /\ (r.d.out = b.out \/ Len(r.units) < s)
  \/ r.d.out = b.out /\ r.in < a

(* n units of padding and check after what r has done.                     *)
TailOf(b, r, n) ==
  Answer([r.d EXCEPT !.coding = FALSE, !.in = @ + n], r.in + n, r.units,
         IF r.d.in + n < b.comp + b.tail THEN "OK"
         ELSE IF b.flaw = "data" THEN "DATA_ERROR" ELSE "STREAM_END")

DecodeTail(b, r, a)       == TailOf(b, r, Least(a - r.in, b.comp + b.tail - r.d.in))

CodedAnySize(b, r, a, s) ==
  CASE r.ret = "OK" /\ Overlong(b, r, a, s) -> [r EXCEPT !.ret = "DATA_ERROR"]
    [] r.ret = "STREAM_END"                 -> DecodeTail(b, r, a)
    [] OTHER                                -> r
Coded(b, r, a, s) ==
  CASE r.ret = "OK" /\ Overlong(b, r, a, s) -> [r EXCEPT !.ret = "DATA_ERROR"]
    [] r.ret = "STREAM_END" ->
         IF r.d.in = b.comp /\ r.d.out = b.out THEN DecodeTail(b, r, a)
                                               ELSE [r EXCEPT !.ret = "DATA_ERROR"]
    [] OTHER -> r

BlockDecode(b, d, a, s, fin) ==
  IF d.coding THEN Coded(b, Inner(b, d, a, s, fin), a, s)
              ELSE DecodeTail(b, Answer(d, 0, <<>>, "OK"), a)

(* lzma_code around the Block decoder: two fruitless calls are BUF_ERROR.  *)
Idle(r) == r.ret = "OK" /\ r.in = 0 /\ r.units = <<>>

Watched(d, r) ==
  [r EXCEPT !.d.stuck = Idle(r), !.ret = IF Idle(r) /\ d.stuck THEN "BUF_ERROR" ELSE @]

Code(b, d, a, s, fin) == Watched(d, BlockDecode(b, d, a, s, fin))
=============================================================================
