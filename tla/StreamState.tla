----------------------------- MODULE StreamState -----------------------------
(***************************************************************************)
(* The lzma_code() protocol of src/safe/src/internal/stream_state.rs: what *)
(* one lzma_stream remembers between calls, which calls it passes on to    *)
(* the registered coder, and how it turns the coder's answer into the      *)
(* value the application sees.                                             *)
(*                                                                         *)
(* The coder is whatever sits behind next.code: here it may consume and    *)
(* produce any amount that fits and answer anything in Replies.            *)
(***************************************************************************)
EXTENDS Integers

CONSTANTS
  MaxIn,      (* bound on strm.avail_in                                    *)
  Supported,  (* the supported_actions sets the initialisers register      *)
  Replies     (* values the registered coder's code function may return    *)

Flushes  == {"SYNC_FLUSH", "FULL_FLUSH", "FINISH", "FULL_BARRIER"}
Actions  == {"RUN"} \cup Flushes
Sequence == {"Run", "End", "Error"} \cup Flushes

(* Coder answers that leave the stream usable, and those that end it.      *)
Warnings == {"NO_CHECK", "UNSUPPORTED_CHECK", "GET_CHECK", "MEMLIMIT_ERROR"}
Fatal    == {"MEM_ERROR", "FORMAT_ERROR", "OPTIONS_ERROR", "DATA_ERROR",
             "PROG_ERROR", "BUF_ERROR"}
CoderRet == {"OK", "TIMED_OUT", "SEEK_NEEDED", "STREAM_END"} \cup Warnings \cup Fatal

ASSUME MaxInAssumption     == MaxIn \in Nat
ASSUME SupportedAssumption == Supported \subseteq SUBSET Actions
ASSUME RepliesAssumption   == Replies \subseteq CoderRet

VARIABLES
  internal,         (* strm.internal is allocated and a coder registered   *)
  sequence,         (* StreamState.sequence                                *)
  saved_in,         (* StreamState.avail_in: input left by the last call   *)
  supported,        (* StreamState.supported_actions                       *)
  allow_buf_error,  (* StreamState.allow_buf_error                         *)
  avail_in,         (* strm.avail_in, the application's to change          *)
  last,             (* what the last lzma_code() call did                  *)
  idle,             (* history: coder calls in a row that were OK and did  *)
                    (* nothing, counted up to 2                            *)
  flush             (* history: the flush in progress and the input it may *)
                    (* still consume                                       *)

vars == <<internal, sequence, saved_in, supported, allow_buf_error,
          avail_in, last, idle, flush>>
state == <<internal, sequence, saved_in, supported, allow_buf_error>>

NoFlush == [action |-> "none", left |-> 0]
NoCall  == [ret |-> "none", invoked |-> FALSE]

Init ==
  /\ internal = FALSE
  /\ sequence = "Run"
  /\ saved_in = 0
  /\ supported = {}
  /\ allow_buf_error = FALSE
  /\ avail_in = 0
  /\ last = NoCall
  /\ idle = 0
  /\ flush = NoFlush

-----------------------------------------------------------------------------
(* Initialisation and destruction.                                         *)

(* install_next_coder on top of lzma_strm_init: a fresh protocol state, the *)
(* previous coder ended. The state may already exist from an earlier use.  *)
Install(actions) ==
  /\ internal' = TRUE
  /\ sequence' = "Run"
  /\ saved_in' = 0
  /\ supported' = actions
  /\ allow_buf_error' = FALSE
  /\ last' = NoCall
  /\ idle' = 0
  /\ flush' = NoFlush
  /\ UNCHANGED avail_in

(* lzma_strm_init could not allocate the state: nothing is registered.     *)
InstallNoMemory ==
  /\ ~internal
  /\ last' = [ret |-> "MEM_ERROR", invoked |-> FALSE]
  /\ UNCHANGED <<state, avail_in, idle, flush>>

(* lzma_end_impl: coder and state are freed, strm.internal becomes null.   *)
End ==
  /\ internal
  /\ internal' = FALSE
  /\ sequence' = "Run"
  /\ saved_in' = 0
  /\ supported' = {}
  /\ allow_buf_error' = FALSE
  /\ last' = NoCall
  /\ idle' = 0
  /\ flush' = NoFlush
  /\ UNCHANGED avail_in

(* Between two calls the application points next_in at any buffer.         *)
Refill ==
  /\ avail_in' \in 0 .. MaxIn
  /\ UNCHANGED <<state, last, idle, flush>>

-----------------------------------------------------------------------------
(* lzma_code.                                                              *)

(* The comparison of avail_in with the saved one missing.                  *)
AdmitAnyInput(action) ==
  CASE sequence = "Run"                              -> IF action = "RUN" THEN "Run" ELSE action
    [] sequence \in Flushes /\ action = sequence     -> sequence
    [] OTHER                                         -> "reject"

(* The sequence the coder would run under, "reject" when the application   *)
(* broke the promise it made with its first flushing call.                 *)
Admit(action) ==
  CASE sequence = "Run" /\ action = "RUN"           -> "Run"
    [] sequence = "Run" /\ action \in Flushes       -> action
    [] sequence \in Flushes /\ action = sequence
         /\ saved_in = avail_in                     -> sequence
    [] OTHER                                        -> "reject"

Invokes(action) == internal /\ action \in supported /\ Admit(action) # "reject"

(* The early returns: no coder, reserved members set, an action this coder *)
(* does not take, a broken promise, or a stream that is over.              *)
Refuse(action, reserved) ==
  /\ \/ ~internal
     \/ reserved
     \/ ~Invokes(action)
  /\ last' = [ret |-> CASE ~internal -> "PROG_ERROR"
                        [] internal /\ reserved -> "OPTIONS_ERROR"
                        [] internal /\ ~reserved /\ action \in supported
                             /\ sequence = "End" -> "STREAM_END"
                        [] OTHER -> "PROG_ERROR",
              invoked |-> FALSE]
  /\ UNCHANGED <<state, avail_in, idle, flush>>

(* What the application sees for the coder's answer.                       *)
Translate(ret, progress) ==
  CASE ret = "TIMED_OUT"                                    -> "OK"
    [] ret = "OK" /\ ~progress /\ allow_buf_error           -> "BUF_ERROR"
    [] OTHER                                                -> ret

(* A seek request ends every flush.                                        *)
AfterSeekAlways(seq, ret) ==
  CASE ret = "STREAM_END" ->
         IF seq \in {"SYNC_FLUSH", "FULL_FLUSH", "FULL_BARRIER"} THEN "Run" ELSE "End"
    [] ret = "SEEK_NEEDED" -> "Run"
    [] ret \in Fatal       -> "Error"
    [] OTHER               -> seq

(* The sequence after the coder, run under seq, answered ret.              *)
After(seq, ret) ==
  CASE ret = "STREAM_END" ->
         IF seq \in {"SYNC_FLUSH", "FULL_FLUSH", "FULL_BARRIER"} THEN "Run" ELSE "End"
    [] ret = "SEEK_NEEDED" -> IF seq = "FINISH" THEN "Run" ELSE seq
    [] ret \in Fatal       -> "Error"
    [] OTHER               -> seq

(* The flag is set by an idle answer and never cleared.                    *)
ArmForever(ret, progress) == allow_buf_error \/ (ret = "OK" /\ ~progress)

(* Only an OK answer without progress arms the next BUF_ERROR; a fatal     *)
(* answer leaves the flag alone.                                           *)
Arm(ret, progress) ==
  IF ret \in Fatal THEN allow_buf_error ELSE ret = "OK" /\ ~progress

(* The coder took no more than it was offered.                             *)
Fits(consumed) == consumed <= avail_in

(* The coder was called, consumed and produced, and answered ret.          *)
Reply(action, consumed, produced, ret) ==
  LET seq      == Admit(action)
      progress == consumed > 0 \/ produced > 0
      left     == avail_in - consumed
      pending  == After(seq, ret) \in Flushes
  IN /\ Invokes(action)
     /\ Fits(consumed)
     /\ sequence' = After(seq, ret)
     /\ avail_in' = left
     /\ saved_in' = left
     /\ allow_buf_error' = Arm(ret, progress)
     /\ last' = [ret |-> Translate(ret, progress), invoked |-> TRUE]
     /\ idle' = IF ret = "OK" /\ ~progress THEN (IF idle = 0 THEN 1 ELSE 2) ELSE 0
     /\ flush' = IF pending
                 THEN [action |-> action,
                       left |-> (IF flush = NoFlush THEN avail_in ELSE flush.left) - consumed]
                 ELSE NoFlush
     /\ UNCHANGED <<internal, supported>>

(* The coder claims more than it was offered: nothing moves, the stream is *)
(* declared broken.                                                        *)
Overrun(action) ==
  /\ Invokes(action)
  /\ sequence' = "Error"
  /\ last' = [ret |-> "PROG_ERROR", invoked |-> TRUE]
  /\ idle' = 0
  /\ flush' = NoFlush
  /\ UNCHANGED <<internal, saved_in, supported, allow_buf_error, avail_in>>

Code ==
  \E action \in Actions :
    \/ \E reserved \in BOOLEAN : Refuse(action, reserved)
    \/ \E consumed \in 0 .. MaxIn, produced \in {0, 1}, ret \in Replies :
         Reply(action, consumed, produced, ret)
    \/ Overrun(action)

Next ==
  \/ \E actions \in Supported : Install(actions)
  \/ InstallNoMemory
  \/ End
  \/ Refill
  \/ Code

Spec == Init /\ [][Next]_vars

-----------------------------------------------------------------------------
(* Type invariant.                                                         *)
TypeOK ==
  /\ internal \in BOOLEAN
  /\ sequence \in Sequence
  /\ saved_in \in 0 .. MaxIn
  /\ supported \in SUBSET Actions
  /\ allow_buf_error \in BOOLEAN
  /\ avail_in \in 0 .. MaxIn
  /\ last \in [ret : CoderRet \cup {"none"}, invoked : BOOLEAN]
  /\ idle \in {0, 1, 2}
  /\ flush \in [action : Flushes \cup {"none"}, left : Int]

(* While a flush is pending, the coder has been shown exactly the input    *)
(* that was there when the flush began: whatever the application does to   *)
(* avail_in between calls, nothing is slipped in and nothing is taken away *)
(* (the avail_in comparison of lzma_code_impl).                            *)
FlushInputFrozen ==
  sequence \in Flushes =>
    /\ flush.action = sequence
    /\ flush.left = saved_in

(* BUF_ERROR means two fruitless coder calls in a row, not one and not an  *)
(* old one: answers refused by the protocol, time-outs and warnings in     *)
(* between neither count nor are forgotten (allow_buf_error).              *)
BufErrorIsSecondIdleCall ==
  /\ sequence # "Error" => (allow_buf_error <=> idle > 0)
  /\ last.ret = "BUF_ERROR" => idle = 2 /\ sequence # "Error"

(* A stream that ended or failed never reaches its coder again until it is *)
(* initialised anew: coders free or poison their buffers by then.          *)
CoderLeftAlone ==
  [][(sequence \in {"End", "Error"} /\ last' # last)
       => ~last.invoked']_vars

(* A pending flush is left only by the coder's STREAM_END, a seek request  *)
(* of a FINISH, a fatal answer, or a new initialisation: a refused call    *)
(* (wrong action, changed avail_in) does not silently drop the flush.      *)
FlushNotDropped ==
  [][(sequence \in Flushes /\ sequence' # sequence) =>
       \/ last' = NoCall
       \/ last.invoked' /\ last.ret' = "STREAM_END"
            /\ sequence' = (IF sequence = "FINISH" THEN "End" ELSE "Run")
       \/ last.invoked' /\ last.ret' = "SEEK_NEEDED"
            /\ sequence = "FINISH" /\ sequence' = "Run"
       \/ last.invoked' /\ last.ret' \in Fatal /\ sequence' = "Error"]_vars
=============================================================================
