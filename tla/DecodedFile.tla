---------------------------- MODULE DecodedFile ----------------------------
(***************************************************************************)
(* What decoding a .xz file promises, threaded or not: the data of the     *)
(* Blocks in order, all of it if the file is sound, and everything in      *)
(* front of the first flaw before the error is reported, unless the        *)
(* application asked to fail fast.                                         *)
(***************************************************************************)
EXTENDS Integers, Sequences

VARIABLES
  file,      (* the Blocks: each has a size out and a flaw, maybe "none"   *)
  fail_fast, (* LZMA_FAIL_FAST                                             *)
  output,    (* units delivered: <<block, i>>                              *)
  gave_up,   (* the application finished before the end of the file        *)
  outcome    (* "Open", or how decoding ended                              *)

vars == <<file, fail_fast, output, gave_up, outcome>>

(* The data of these Blocks, one after the other; a unit names its Block.  *)
DataOf(blocks) ==
  LET data[b \in 0 .. Len(blocks)] ==
        IF b = 0 THEN <<>> ELSE data[b - 1] \o [i \in 1 .. blocks[b].out |-> <<b, i>>]
  IN  data[Len(blocks)]
Data(n)   == DataOf(SubSeq(file, 1, n))

Flaws     == {b \in DOMAIN file : file[b].flaw # "none"}
FirstFlaw == CHOOSE b \in Flaws : \A c \in Flaws : b <= c

(* A flaw of the Index, the footer or the padding is behind the data of    *)
(* its Stream's last Block.                                                *)
BehindData(flaw) == flaw \in {"none", "index", "footer", "padding"}

Sound     == IF Flaws = {} THEN Len(file)
             ELSE IF BehindData(file[FirstFlaw].flaw) THEN FirstFlaw ELSE FirstFlaw - 1
Decodable == IF Flaws = {} THEN Len(file) ELSE FirstFlaw

Init == output = <<>> /\ gave_up = FALSE /\ outcome = "Open"

(* More of the file's data, as far as it can be decoded at all.            *)
Delivers ==
  \E n \in Len(output) .. Len(Data(Decodable)) : output' = SubSeq(Data(Decodable), 1, n)

(* The flaw shows when everything sound has been delivered, or at once.    *)
FlawShows ==
  \/ Flaws # {} /\ (fail_fast \/ Len(output') >= Len(Data(Sound)))
  \/ gave_up /\ fail_fast

(* A file cut off between two Streams is a shorter file.                   *)
Ends ==
  \/ outcome' = "Open"
  \/ /\ outcome' = "End"
     /\ \E n \in 1 .. Sound :
          /\ output' = Data(n)
          /\ \/ n = Len(file) /\ Flaws = {}
             \/ gave_up /\ file[n].last /\ file[n].flaw \in {"none", "padding"}
  \/ outcome' = "DATA_ERROR" /\ FlawShows
  \/ outcome' \in {"MEM_ERROR", "BUF_ERROR"}     (* reasons not in the file *)

Next ==
  /\ UNCHANGED <<file, fail_fast>>
  /\ outcome = "Open" /\ Delivers /\ (gave_up => gave_up') /\ Ends

Spec == Init /\ [][Next]_vars
=============================================================================
