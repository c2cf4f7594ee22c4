---------------------------- MODULE OrderedBlocks ----------------------------
(***************************************************************************)
(* What a .xz Stream encoder promises, threaded or not: the input it       *)
(* accepts is cut into Blocks, and the Blocks come out complete, once each *)
(* and in input order. The threaded encoder is shown to implement it.      *)
(*                                                                         *)
(* The input is the sequence 1, 2, 3, ...: unit i is the i-th one the      *)
(* application hands over, so the data of a Block is a range of integers.  *)
(***************************************************************************)
EXTENDS Integers, Sequences

VARIABLES
  accepted,   (* units of input taken from the application                 *)
  cuts,       (* where each closed Block ends                              *)
  output,     (* what each Block decodes to that is written out entirely   *)
  finished    (* the Stream is complete                                    *)

vars == <<accepted, cuts, output, finished>>

(* Block b covers the input after cut b-1, up to and including cut b.      *)
CutBefore(b)  == IF b = 1 THEN 0 ELSE cuts[b - 1]
Interval(m, n) == [i \in 1 .. n - m |-> m + i]
BlockData(b)  == Interval(CutBefore(b), cuts[b])
LastCut       == CutBefore(Len(cuts) + 1)

Init ==
  /\ accepted = 0
  /\ cuts = <<>>
  /\ output = <<>>
  /\ finished = FALSE

(* Take more input, close the current Block after it, or both. A Block is  *)
(* never empty.                                                            *)
Accept ==
  /\ accepted' \in Nat
  /\ accepted' >= accepted
  /\ \/ cuts' = cuts
     \/ accepted' > LastCut /\ cuts' = Append(cuts, accepted')
  /\ UNCHANGED <<output, finished>>

Deliver ==
  /\ Len(output) < Len(cuts)
  /\ output' = Append(output, BlockData(Len(output) + 1))
  /\ UNCHANGED <<accepted, cuts, finished>>

(* Only a Stream with nothing left inside may end.                         *)
Finish ==
  /\ LastCut = accepted
  /\ Len(output) = Len(cuts)
  /\ finished' = TRUE
  /\ UNCHANGED <<accepted, cuts, output>>

Next == ~finished /\ (Accept \/ Deliver \/ Finish)

Spec == Init /\ [][Next]_vars
=============================================================================
