-------------------------- MODULE StreamStateProofs --------------------------
(***************************************************************************)
(* Proofs about the lzma_code() protocol, for every coder and every bound  *)
(* on the input.                                                           *)
(***************************************************************************)
EXTENDS StreamState, TLAPS

-----------------------------------------------------------------------------
(* What initialisation stores has the right type.                          *)
LEMMA BlankTypes ==
  /\ NoCall \in [ret : CoderRet \cup {"none"}, invoked : BOOLEAN]
  /\ NoFlush \in [action : Flushes \cup {"none"}, left : Int]
  /\ 0 \in 0 .. MaxIn
BY MaxInAssumption DEF NoCall, NoFlush

(* The sequence that follows a coder call is a sequence.                   *)
LEMMA AfterType ==
  ASSUME NEW seq \in Sequence, NEW ret \in CoderRet
  PROVE  After(seq, ret) \in Sequence
BY DEF After, Sequence, Flushes, Fatal, CoderRet, Warnings

(* A call that reaches the coder reaches it under a live sequence: Run or  *)
(* the flush the application asked for.                                    *)
LEMMA AdmitType ==
  ASSUME NEW action \in Actions, sequence \in Sequence, Admit(action) # "reject"
  PROVE  /\ Admit(action) \in {"Run"} \cup Flushes
         /\ sequence \in {"Run"} \cup Flushes
         /\ Admit(action) \in Flushes => Admit(action) = action
         /\ sequence \in Flushes => /\ action = sequence
                                    /\ Admit(action) = sequence
                                    /\ saved_in = avail_in
BY DEF Admit, Sequence, Flushes, Actions

(* The variables always hold values the code can give them.                *)
THEOREM TypeCorrect == Spec => []TypeOK
<1>1. Init => TypeOK
  BY BlankTypes
  DEF Init, TypeOK, Sequence
<1>2. TypeOK /\ [Next]_vars => TypeOK'
  <2> SUFFICES ASSUME TypeOK, [Next]_vars
               PROVE  TypeOK'
    OBVIOUS
  <2> USE MaxInAssumption
  <2>1. ASSUME NEW actions \in Supported, Install(actions)
        PROVE  TypeOK'
    BY <2>1, SupportedAssumption, BlankTypes
    DEF Install, TypeOK, Sequence
  <2>2. CASE InstallNoMemory
    BY <2>2 DEF InstallNoMemory, TypeOK, state, CoderRet, Fatal
  <2>3. CASE End
    BY <2>3, BlankTypes DEF End, TypeOK, Sequence
  <2>4. CASE Refill
    BY <2>4 DEF Refill, TypeOK, state
  <2>5. ASSUME NEW action \in Actions, NEW reserved \in BOOLEAN,
               Refuse(action, reserved)
        PROVE  TypeOK'
    BY <2>5 DEF Refuse, TypeOK, state, CoderRet, Fatal
  <2>6. ASSUME NEW action \in Actions, NEW consumed \in 0 .. MaxIn,
               NEW produced \in {0, 1}, NEW ret \in Replies,
               Reply(action, consumed, produced, ret)
        PROVE  TypeOK'
    <3>1. /\ Admit(action) \in {"Run"} \cup Flushes
          /\ ret \in CoderRet
      BY <2>6, AdmitType, RepliesAssumption DEF Reply, Fits, Invokes, TypeOK
    <3>2. After(Admit(action), ret) \in Sequence
      BY <3>1, AfterType DEF Sequence
    <3>3. Translate(ret, consumed > 0 \/ produced > 0) \in CoderRet
      BY <3>1 DEF Translate, CoderRet, Fatal
    <3>4. Arm(ret, consumed > 0 \/ produced > 0) \in BOOLEAN
      BY DEF Arm, TypeOK
    <3>5. flush' \in [action : Flushes \cup {"none"}, left : Int]
      <4>1. CASE After(Admit(action), ret) \in Flushes
        <5>1. Admit(action) \in Flushes
          BY <3>1, <4>1 DEF After, Flushes
        <5>2. action \in Flushes
          BY <2>6, <5>1, AdmitType DEF Reply, Fits, Invokes, TypeOK
        <5>3. QED
          BY <2>6, <4>1, <5>2 DEF Reply, Fits, TypeOK, NoFlush
      <4>2. CASE After(Admit(action), ret) \notin Flushes
        BY <2>6, <4>2 DEF Reply, Fits, NoFlush
      <4>3. QED
        BY <4>1, <4>2
    <3>6. QED
      BY <2>6, <3>2, <3>3, <3>4, <3>5 DEF Reply, Fits, TypeOK
  <2>7. ASSUME NEW action \in Actions, Overrun(action)
        PROVE  TypeOK'
    BY <2>7 DEF Overrun, TypeOK, Sequence, CoderRet, Fatal, NoFlush
  <2>8. CASE UNCHANGED vars
    BY <2>8 DEF vars, TypeOK
  <2>9. QED
    BY <2>1, <2>2, <2>3, <2>4, <2>5, <2>6, <2>7, <2>8 DEF Next, Code
<1>3. QED
  BY <1>1, <1>2, PTL DEF Spec

-----------------------------------------------------------------------------
(* FlushInputFrozen is not inductive: it says nothing of the history when  *)
(* no flush is pending, so a flush that begins could start from a stale    *)
(* count. The strengthening adds that the history is then empty.           *)
FlushTracked ==
  IF sequence \in Flushes
  THEN flush.action = sequence /\ flush.left = saved_in
  ELSE flush = NoFlush

LEMMA FlushTrackedStep ==
  ASSUME TypeOK, FlushTracked, [Next]_vars
  PROVE  FlushTracked'
<1> USE DEF FlushTracked
<1>1. ASSUME NEW actions \in Supported, Install(actions)
      PROVE  FlushTracked'
  BY <1>1 DEF Install, Flushes
<1>2. CASE InstallNoMemory
  BY <1>2 DEF InstallNoMemory, state
<1>3. CASE End
  BY <1>3 DEF End, Flushes
<1>4. CASE Refill
  BY <1>4 DEF Refill, state
<1>5. ASSUME NEW action \in Actions, NEW reserved \in BOOLEAN,
             Refuse(action, reserved)
      PROVE  FlushTracked'
  BY <1>5 DEF Refuse, state
<1>6. ASSUME NEW action \in Actions, NEW consumed \in 0 .. MaxIn,
             NEW produced \in {0, 1}, NEW ret \in Replies,
             Reply(action, consumed, produced, ret)
      PROVE  FlushTracked'
  <2>1. /\ Admit(action) \in {"Run"} \cup Flushes
        /\ sequence \in {"Run"} \cup Flushes
        /\ Admit(action) \in Flushes => Admit(action) = action
        /\ sequence \in Flushes => saved_in = avail_in
    BY <1>6, AdmitType DEF Reply, Fits, Invokes, TypeOK
  <2>2. CASE After(Admit(action), ret) \in Flushes
    <3>1. After(Admit(action), ret) = action
      BY <2>1, <2>2 DEF After, Flushes
    <3>2. (IF flush = NoFlush THEN avail_in ELSE flush.left) = avail_in
      <4>1. CASE sequence \in Flushes
        BY <2>1, <4>1
      <4>2. CASE sequence \notin Flushes
        BY <4>2
      <4>3. QED
        BY <4>1, <4>2
    <3>3. flush' = [action |-> action, left |-> avail_in - consumed]
      BY <1>6, <2>2, <3>2 DEF Reply, Fits
    <3>4. QED
      BY <1>6, <3>1, <3>3 DEF Reply, Fits
  <2>3. CASE After(Admit(action), ret) \notin Flushes
    BY <1>6, <2>3 DEF Reply, Fits
  <2>4. QED
    BY <2>2, <2>3
<1>7. ASSUME NEW action \in Actions, Overrun(action)
      PROVE  FlushTracked'
  BY <1>7 DEF Overrun, Flushes
<1>8. CASE UNCHANGED vars
  BY <1>8 DEF vars
<1>9. QED
  BY <1>1, <1>2, <1>3, <1>4, <1>5, <1>6, <1>7, <1>8 DEF Next, Code

(* No input is slipped in or taken away under a pending flush, whatever    *)
(* the application does between the calls and whatever the coder answers   *)
(* (the avail_in comparison in lzma_code_impl).                            *)
THEOREM FlushInputIsFrozen == Spec => []FlushInputFrozen
<1>1. Init => FlushTracked
  BY DEF Init, FlushTracked, Flushes
<1>2. FlushTracked => FlushInputFrozen
  BY DEF FlushTracked, FlushInputFrozen
<1>3. QED
  BY <1>1, <1>2, FlushTrackedStep, TypeCorrect, PTL DEF Spec

-----------------------------------------------------------------------------
(* A coder that keeps the contract asserted at the end of lzma_code_impl   *)
(* (it never answers BUF_ERROR itself) makes BUF_ERROR mean exactly two    *)
(* fruitless calls in a row, and never a broken stream.                    *)
THEOREM BufErrorNeedsTwoIdleCalls ==
  ASSUME "BUF_ERROR" \notin Replies
  PROVE  Spec => []BufErrorIsSecondIdleCall
<1> USE DEF BufErrorIsSecondIdleCall
<1>1. Init => BufErrorIsSecondIdleCall
  BY DEF Init, NoCall
<1>2. TypeOK /\ BufErrorIsSecondIdleCall /\ [Next]_vars => BufErrorIsSecondIdleCall'
  <2> SUFFICES ASSUME TypeOK, BufErrorIsSecondIdleCall, [Next]_vars
               PROVE  BufErrorIsSecondIdleCall'
    OBVIOUS
  <2>1. ASSUME NEW actions \in Supported, Install(actions)
        PROVE  BufErrorIsSecondIdleCall'
    BY <2>1 DEF Install, NoCall
  <2>2. CASE InstallNoMemory
    BY <2>2 DEF InstallNoMemory, state
  <2>3. CASE End
    BY <2>3 DEF End, NoCall
  <2>4. CASE Refill
    BY <2>4 DEF Refill, state
  <2>5. ASSUME NEW action \in Actions, NEW reserved \in BOOLEAN,
               Refuse(action, reserved)
        PROVE  BufErrorIsSecondIdleCall'
    BY <2>5 DEF Refuse, state
  <2>6. ASSUME NEW action \in Actions, NEW consumed \in 0 .. MaxIn,
               NEW produced \in {0, 1}, NEW ret \in Replies,
               Reply(action, consumed, produced, ret)
        PROVE  BufErrorIsSecondIdleCall'
    <3> DEFINE progress == consumed > 0 \/ produced > 0
               fruitless == ret = "OK" /\ ~progress
    <3>1. sequence # "Error" /\ ret # "BUF_ERROR"
      BY <2>6, AdmitType DEF Reply, Fits, Invokes, TypeOK, Flushes
    <3>2. allow_buf_error <=> idle > 0
      BY <3>1
    <3>3. idle' > 0 <=> fruitless
      BY <2>6 DEF Reply, Fits
    <3>4. sequence' # "Error" => (allow_buf_error' <=> fruitless)
      <4>1. ret \in Fatal => sequence' = "Error"
        BY <2>6 DEF Reply, Fits, After, Fatal
      <4>2. ret \notin Fatal => (allow_buf_error' <=> fruitless)
        BY <2>6 DEF Reply, Fits, Arm
      <4>3. QED
        BY <4>1, <4>2
    <3>5. last.ret' = "BUF_ERROR" => fruitless /\ allow_buf_error
      BY <2>6, <3>1 DEF Reply, Fits, Translate
    <3>6. fruitless /\ allow_buf_error => idle' = 2
      BY <2>6, <3>2 DEF Reply, Fits, TypeOK
    <3>7. fruitless => sequence' # "Error"
      BY <2>6, AdmitType DEF Reply, Fits, Invokes, After, Fatal, TypeOK, Flushes
    <3>8. QED
      BY <3>3, <3>4, <3>5, <3>6, <3>7
  <2>7. ASSUME NEW action \in Actions, Overrun(action)
        PROVE  BufErrorIsSecondIdleCall'
    BY <2>7 DEF Overrun
  <2>8. CASE UNCHANGED vars
    BY <2>8 DEF vars
  <2>9. QED
    BY <2>1, <2>2, <2>3, <2>4, <2>5, <2>6, <2>7, <2>8 DEF Next, Code
<1>3. QED
  BY <1>1, <1>2, TypeCorrect, PTL DEF Spec

-----------------------------------------------------------------------------
(* After STREAM_END or a fatal answer the coder is not called again before *)
(* the next initialisation.                                                *)
THEOREM FinishedCoderLeftAlone == Spec => CoderLeftAlone
<1>1. ASSUME TypeOK, [Next]_vars, sequence \in {"End", "Error"}, last' # last
      PROVE  ~last.invoked'
  <2>1. ASSUME NEW action \in Actions
        PROVE  ~Invokes(action)
    BY <1>1, <2>1, AdmitType DEF Invokes, TypeOK, Flushes
  <2>2. ASSUME NEW actions \in Supported, Install(actions)
        PROVE  ~last.invoked'
    BY <2>2 DEF Install, NoCall
  <2>3. CASE InstallNoMemory
    BY <2>3 DEF InstallNoMemory
  <2>4. CASE End
    BY <2>4 DEF End, NoCall
  <2>5. ASSUME NEW action \in Actions, NEW reserved \in BOOLEAN,
               Refuse(action, reserved)
        PROVE  ~last.invoked'
    BY <2>5 DEF Refuse
  <2>6. QED
    BY <1>1, <2>1, <2>2, <2>3, <2>4, <2>5
    DEF Next, Code, Reply, Fits, Overrun, Refill, vars
<1>2. TypeOK /\ [Next]_vars
        => [(sequence \in {"End", "Error"} /\ last' # last) => ~last.invoked']_vars
  BY <1>1
<1>3. QED
  BY <1>2, TypeCorrect, PTL DEF Spec, CoderLeftAlone

-----------------------------------------------------------------------------
(* A call that is let through runs under the flush that is pending.        *)
LEMMA AdmitPending ==
  ASSUME NEW action, Admit(action) # "reject", sequence \in Flushes
  PROVE  Admit(action) = sequence
BY DEF Admit, Flushes

(* A flush is left only by the answer that ends it, a seek request of a    *)
(* FINISH, an error or a new initialisation: whatever calls are refused in *)
(* between, it is still pending (lzma_code).                               *)
THEOREM PendingFlushKept == Spec => FlushNotDropped
<1> DEFINE Left == \/ last' = NoCall
                   \/ last.invoked' /\ last.ret' = "STREAM_END"
                        /\ sequence' = (IF sequence = "FINISH" THEN "End" ELSE "Run")
                   \/ last.invoked' /\ last.ret' = "SEEK_NEEDED"
                        /\ sequence = "FINISH" /\ sequence' = "Run"
                   \/ last.invoked' /\ last.ret' \in Fatal /\ sequence' = "Error"
<1>1. ASSUME TypeOK, [Next]_vars, sequence \in Flushes, sequence' # sequence
      PROVE  Left
  <2>1. ASSUME NEW actions \in Supported, Install(actions)
        PROVE  Left
    BY <2>1 DEF Install
  <2>2. CASE InstallNoMemory \/ Refill \/ UNCHANGED vars
    BY <1>1, <2>2 DEF InstallNoMemory, Refill, vars, state
  <2>3. CASE End
    BY <2>3 DEF End
  <2>4. ASSUME NEW action \in Actions, NEW reserved \in BOOLEAN,
               Refuse(action, reserved)
        PROVE  Left
    BY <1>1, <2>4 DEF Refuse, state
  <2>5. ASSUME NEW action \in Actions, NEW consumed \in 0 .. MaxIn,
               NEW produced \in {0, 1}, NEW ret \in Replies,
               Reply(action, consumed, produced, ret)
        PROVE  Left
    <3>1. Admit(action) = sequence
      BY <1>1, <2>5, AdmitPending DEF Reply, Invokes
    <3>2. sequence' = After(sequence, ret)
      BY <2>5, <3>1 DEF Reply
    <3>3. last.invoked' /\ last.ret' = Translate(ret, consumed > 0 \/ produced > 0)
      BY <2>5 DEF Reply
    <3>4. ret \in {"STREAM_END", "SEEK_NEEDED"} \cup Fatal => last.ret' = ret
      BY <3>3 DEF Translate, Fatal
    <3>5. CASE ret = "STREAM_END"
      BY <1>1, <3>2, <3>3, <3>4, <3>5 DEF After, Flushes
    <3>6. CASE ret = "SEEK_NEEDED"
      BY <1>1, <3>2, <3>3, <3>4, <3>6 DEF After, Flushes
    <3>7. CASE ret \in Fatal
      BY <3>2, <3>3, <3>4, <3>7 DEF After, Fatal
    <3>8. CASE ret \notin {"STREAM_END", "SEEK_NEEDED"} \cup Fatal
      BY <1>1, <3>2, <3>8 DEF After
    <3>9. QED
      BY <3>5, <3>6, <3>7, <3>8
  <2>6. ASSUME NEW action \in Actions, Overrun(action)
        PROVE  Left
    BY <2>6 DEF Overrun, Fatal
  <2>7. QED
    BY <1>1, <2>1, <2>2, <2>3, <2>4, <2>5, <2>6 DEF Next, Code
<1>2. TypeOK /\ [Next]_vars
        => [(sequence \in Flushes /\ sequence' # sequence) => Left]_vars
  BY <1>1
<1>3. QED
  BY <1>2, TypeCorrect, PTL DEF Spec, FlushNotDropped
=============================================================================
