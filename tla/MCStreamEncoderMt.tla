------------------------- MODULE MCStreamEncoderMt -------------------------
(* Setups of the threaded encoder for TLC.                                 *)
EXTENDS StreamEncoderMt

Plain == [units |-> 3, chains |-> 1, inits |-> 1, spaces |-> {1},
          actions |-> {"RUN"} \cup Flushes,
          timeout |-> FALSE, failures |-> {}, incompressible |-> FALSE]

(* Time-outs, and output space of nothing or plenty.                       *)
Waits == [Plain EXCEPT !.timeout = TRUE, !.spaces = {0, 2},
                       !.actions = {"RUN", "FULL_BARRIER", "FINISH"}]

(* Every kind of flush, and filters that change in between, also when      *)
(* there are more Blocks than threads.                                     *)
Flushing == [Plain EXCEPT !.units = 2, !.chains = 2, !.actions = @ \ {"FINISH"}]
Scarce   == [Plain EXCEPT !.chains = 2, !.timeout = TRUE,
                       !.actions = {"FULL_BARRIER"}]

(* Failing encoders and allocations, Blocks that do not fit.               *)
Fails == [Plain EXCEPT !.actions = {"RUN", "FINISH"}, !.failures = {"alloc", "encoder"},
                       !.incompressible = TRUE]

(* The lzma_stream is initialised twice without lzma_end in between.       *)
Again == [Plain EXCEPT !.units = 2, !.inits = 2, !.actions = {"FULL_BARRIER", "FINISH"}]

AllSetups == {Waits, Flushing, Scarce, Fails, Again}
=============================================================================
