----------------------- MODULE EphemeralServerProofs -----------------------
(* Theorems about EphemeralServer, for every set of requests and every block *)
(* and word size.                                                            *)
EXTENDS EphemeralServer, SequenceTheorems, TLAPS

(* The inductive invariant.  A panic takes a handler that is neither Running *)
(* nor NotRunning; the handler is never Running between requests, and Taken  *)
(* remembers an image that could not be instantiated.                        *)
TakenNeedsRefusal == handler.state = "Taken" /\ status = "serving" => refused

IInv ==
  /\ "state" \in DOMAIN handler
  /\ handler.state \in {"NotRunning", "Taken"}
  /\ status = "boot" => handler = New
  /\ TakenNeedsRefusal
  /\ PanicNeedsRefusal
-----------------------------------------------------------------------------
(* No part of an upload but the start at its end changes an idle state.      *)
LEMMA UploadKeepsState ==
  ASSUME NEW h, "state" \in DOMAIN h, h.state \in {"NotRunning", "Taken"}, NEW b
  PROVE  /\ "state" \in DOMAIN Stop(h) /\ Stop(h).state = h.state
         /\ "state" \in DOMAIN Begun(h, b) /\ Begun(h, b).state = h.state
         /\ "state" \in DOMAIN Extended(h, b) /\ Extended(h, b).state = h.state
<1>1. "state" \in DOMAIN Stop(h) /\ Stop(h).state = h.state
  BY DEF Stop, StoppedState
<1>2. "state" \in DOMAIN Begun(h, b) /\ Begun(h, b).state = h.state
  BY <1>1 DEF Begun
<1>3. "state" \in DOMAIN Extended(h, b) /\ Extended(h, b).state = h.state
  BY <1>2 DEF Extended
<1> QED
  BY <1>1, <1>2, <1>3

(* What a run leaves behind: whatever the capsule did, an image that could   *)
(* be instantiated gives the state back.                                     *)
LEMMA RunGivesBack ==
  ASSUME NEW h, "state" \in DOMAIN h, h.state \in {"NotRunning", "Taken"},
         NEW outcome \in FfOutcome
  PROVE  /\ "state" \in DOMAIN StartFfRaw(h, outcome)
         /\ StartFfRaw(h, outcome).state \in {"NotRunning", "Taken"}
         /\ StartFfRaw(h, outcome).state = "Taken" => h.state = "Taken" \/ outcome = "BadImage"
  BY DEF StartFfRaw
-----------------------------------------------------------------------------
LEMMA InitIInv == Init => IInv
  BY DEF Init, IInv, TakenNeedsRefusal, PanicNeedsRefusal, New

LEMMA StepIInv == IInv /\ [Next]_vars => IInv'
<1> SUFFICES ASSUME IInv, [Next]_vars
             PROVE  IInv'
  OBVIOUS
<1> USE DEF IInv, TakenNeedsRefusal, PanicNeedsRefusal
<1>1. ASSUME NEW outcome \in FfOutcome, Boot(outcome)
      PROVE  IInv'
  <2>1. handler.state = "NotRunning"
    BY <1>1 DEF Boot, New
  <2>2. /\ "state" \in DOMAIN handler' /\ handler'.state \in {"NotRunning", "Taken"}
        /\ handler'.state = "Taken" => outcome = "BadImage"
    BY <1>1, <2>1, RunGivesBack DEF Boot
  <2> QED
    BY <1>1, <2>2 DEF Boot
<1>2. CASE ControlOtherMethod \/ \E op \in {"delete", "put"} : ControlBadOption(op)
  BY <1>2 DEF ControlOtherMethod, ControlBadOption
<1>3. CASE Delete
  BY <1>3, UploadKeepsState DEF Delete
<1>4. ASSUME NEW b \in PutRequest, Put(b)
      PROVE  IInv'
  <2>1. CASE PutIncomplete(b) \/ PutNoMemory(b) \/ PutContinue(b)
    BY <2>1, UploadKeepsState DEF PutIncomplete, PutNoMemory, PutContinue
  <2>2. ASSUME NEW outcome \in FfOutcome, PutRun(b, outcome)
        PROVE  IInv'
    <3>1. /\ "state" \in DOMAIN Extended(handler, b)
          /\ Extended(handler, b).state = handler.state
      BY UploadKeepsState
    <3>2. /\ "state" \in DOMAIN handler' /\ handler'.state \in {"NotRunning", "Taken"}
          /\ handler'.state = "Taken" => handler.state = "Taken" \/ outcome = "BadImage"
      BY <2>2, <3>1, RunGivesBack DEF PutRun
    <3>3. CASE handler.state # "NotRunning"
      BY <2>2, <3>2, <3>3 DEF PutRun
    <3>4. CASE handler.state = "NotRunning"
      BY <2>2, <3>2, <3>4 DEF PutRun
    <3> QED
      BY <3>3, <3>4
  <2> QED
    BY <1>4, <2>1, <2>2 DEF Put
<1>5. CASE UNCHANGED vars
  BY <1>5 DEF vars
<1> QED
  BY <1>1, <1>2, <1>3, <1>4, <1>5 DEF Next

(* The device panics only after an uploaded image could not be instantiated: *)
(* no capsule that ran, however it ended, makes a later upload panic.        *)
THEOREM PanicNeedsRefusalHolds == Spec => []PanicNeedsRefusal
<1>1. IInv => PanicNeedsRefusal
  BY DEF IInv
<1> QED
  BY <1>1, InitIInv, StepIInv, PTL DEF Spec
-----------------------------------------------------------------------------
(* What the parts of an upload and of a run return.                          *)
LEMMA Nothing == NoInstance \in Instance /\ {} \in SUBSET Seq(Byte) /\ <<>> \in Seq(Byte)
  BY DEF Instance, NoInstance

LEMMA StopType ==
  ASSUME NEW h \in Handler
  PROVE  Stop(h) \in Handler
<1>1. StoppedState(h.state) \in HandlerState
  BY DEF StoppedState, Handler, HandlerState
<1> QED
  BY <1>1, Nothing DEF Stop, Handler

LEMMA UploadTypes ==
  ASSUME NEW h \in Handler, NEW b \in PutRequest
  PROVE  /\ Begun(h, b) \in Handler
         /\ Extended(h, b) \in Handler
         /\ Extended(h, b).program = Begun(h, b).program \o b.payload
<1>1. b.payload \in Seq(Byte)
  BY EphemeralAssumption DEF PutType
<1>2. Begun(h, b) \in Handler
  BY StopType, Nothing DEF Begun, Handler
<1>3. Begun(h, b).program \o b.payload \in Seq(Byte)
  BY <1>1, <1>2, ConcatProperties DEF Handler
<1> QED
  BY <1>2, <1>3 DEF Extended, Handler

LEMMA RunTypes ==
  ASSUME NEW h \in Handler, NEW outcome \in FfOutcome
  PROVE  StartFfRaw(h, outcome) \in Handler /\ StartFfRaw(h, outcome).program = h.program
<1>1. {"NotRunning", "Taken"} \subseteq HandlerState
  BY DEF HandlerState
<1> QED
  BY <1>1, Nothing DEF StartFfRaw, Handler

LEMMA AnswerType ==
  ASSUME NEW op \in Operation, NEW b \in PutRequest \cup {NoBlock}, NEW code \in Code,
         Answer(op, b, code)
  PROVE  last' \in Answered
  BY DEF Answer, Answered, NotRan

LEMMA StepTypeOK == TypeOK /\ [Next]_vars => TypeOK'
<1> SUFFICES ASSUME TypeOK, [Next]_vars
             PROVE  TypeOK'
  OBVIOUS
<1>0. handler \in Handler
  BY DEF TypeOK
<1>1. ASSUME NEW outcome \in FfOutcome, Boot(outcome)
      PROVE  TypeOK'
  BY <1>0, <1>1, RunTypes DEF Boot, TypeOK, Status
<1>2. CASE ControlOtherMethod
  BY <1>2, AnswerType DEF ControlOtherMethod, TypeOK, Operation, Code, MethodNotAllowed
<1>3. ASSUME NEW op \in {"delete", "put"}, ControlBadOption(op)
      PROVE  TypeOK'
  BY <1>3, AnswerType DEF ControlBadOption, TypeOK, Operation, Code, BadOption
<1>4. CASE Delete
  BY <1>0, <1>4, StopType, AnswerType DEF Delete, TypeOK, Operation, Code, Deleted
<1>5. ASSUME NEW b \in PutRequest, Put(b)
      PROVE  TypeOK'
  <2>1. CASE PutIncomplete(b) \/ PutNoMemory(b) \/ PutContinue(b)
    <3>1. handler' \in Handler
      BY <1>0, <2>1, UploadTypes DEF PutIncomplete, PutNoMemory, PutContinue
    <3>2. last' \in Answered
      BY <2>1, AnswerType DEF PutIncomplete, PutNoMemory, PutContinue, Operation, Code,
                              Incomplete, InternalServerError, Continue
    <3> QED
      BY <2>1, <3>1, <3>2 DEF PutIncomplete, PutNoMemory, PutContinue, TypeOK
  <2>2. ASSUME NEW outcome \in FfOutcome, PutRun(b, outcome)
        PROVE  TypeOK'
    <3>1. handler' \in Handler
      BY <1>0, <2>2, UploadTypes, RunTypes DEF PutRun
    <3>2. handler'.program \in Seq(Byte) /\ NotRan \in Seq(Byte)
      BY <3>1 DEF Handler, NotRan
    <3>3. CASE handler.state = "NotRunning"
      <4>1. last' \in Answered
        BY <2>2, <3>2, <3>3 DEF PutRun, Answered, Operation, Code, Changed, BadRequest
      <4> QED
        BY <2>2, <3>1, <3>3, <4>1 DEF PutRun, TypeOK
    <3>4. CASE handler.state # "NotRunning"
      BY <2>2, <3>1, <3>4 DEF PutRun, TypeOK, Status
    <3> QED
      BY <3>3, <3>4
  <2> QED
    BY <1>5, <2>1, <2>2 DEF Put
<1>6. CASE UNCHANGED vars
  BY <1>6 DEF vars, TypeOK
<1> QED
  BY <1>1, <1>2, <1>3, <1>4, <1>5, <1>6 DEF Next

LEMMA InitTypeOK == Init => TypeOK
<1> SUFFICES ASSUME Init
             PROVE  TypeOK
  OBVIOUS
<1>1. New \in Handler
  BY Nothing DEF New, Handler, HandlerState
<1>2. last \in Answered
  BY Nothing DEF Init, Answered, Operation, NotRan
<1> QED
  BY <1>1, <1>2 DEF Init, TypeOK, Status

(* Every variable keeps the shape the Rust types give it.                    *)
THEOREM TypeCorrect == Spec => []TypeOK
  BY InitTypeOK, StepTypeOK, PTL DEF Spec
-----------------------------------------------------------------------------
(* The block that ran a capsule is still the end of the buffer.              *)
RanIsAtTheEnd ==
  /\ status = "boot" => last.ran = NotRan
  /\ status = "serving" /\ last.ran # NotRan =>
       /\ last.block \in PutRequest
       /\ Len(handler.program) = Offset(last.block) + Len(last.block.payload)

LEMMA StepRanIsAtTheEnd == TypeOK /\ RanIsAtTheEnd /\ [Next]_vars => RanIsAtTheEnd'
<1> SUFFICES ASSUME TypeOK, RanIsAtTheEnd, [Next]_vars
             PROVE  RanIsAtTheEnd'
  OBVIOUS
<1>1. CASE UNCHANGED vars
  BY <1>1 DEF vars, RanIsAtTheEnd
<1>2. ASSUME NEW b \in PutRequest, NEW outcome \in FfOutcome, PutRun(b, outcome)
      PROVE  RanIsAtTheEnd'
  <2>1. CASE handler.state # "NotRunning"
    BY <1>2, <2>1 DEF PutRun, RanIsAtTheEnd
  <2>2. CASE handler.state = "NotRunning"
    <3>1. last'.block = b /\ status' = "serving"
      BY <1>2, <2>2 DEF PutRun
    <3>2. handler'.program = Begun(handler, b).program \o b.payload
      BY <1>2, UploadTypes, RunTypes DEF PutRun, TypeOK
    <3>3. Begun(handler, b).program \in Seq(Byte) /\ b.payload \in Seq(Byte)
      BY UploadTypes, EphemeralAssumption DEF TypeOK, Handler, PutType
    <3>4. Len(Begun(handler, b).program) = Offset(b)
      BY <1>2 DEF PutRun, Fits
    <3>5. Len(handler'.program) = Offset(b) + Len(b.payload)
      <4>1. Len(Begun(handler, b).program \o b.payload)
              = Len(Begun(handler, b).program) + Len(b.payload)
        BY <3>3, ConcatProperties
      <4> QED
        BY <3>2, <3>4, <4>1
    <3> QED
      BY <3>1, <3>5 DEF RanIsAtTheEnd
  <2> QED
    BY <2>1, <2>2
<1>3. ASSUME NEW outcome \in FfOutcome, Boot(outcome)
      PROVE  RanIsAtTheEnd'
  BY <1>3 DEF Boot, RanIsAtTheEnd
<1>4. ASSUME NEW op, NEW b, NEW code, Answer(op, b, code), status' = "serving"
      PROVE  RanIsAtTheEnd'
  BY <1>4 DEF Answer, RanIsAtTheEnd
<1> QED
  BY <1>1, <1>2, <1>3, <1>4 DEF Next, Put, PutIncomplete, PutNoMemory, PutContinue, Delete,
                                ControlBadOption, ControlOtherMethod

(* An honest block with a number goes to a place behind the beginning.       *)
LEMMA LaterBlock ==
  ASSUME HonestClients, NEW b \in PutRequest, b.num > 0
  PROVE  Offset(b) \in Nat /\ Offset(b) > 0 /\ Len(b.payload) \in Nat /\ Len(b.payload) > 0
<1> DEFINE size == BlockSize(b.szx)
<1>1. b.num \in Nat /\ b.szx \in 0..7 /\ b.payload \in Seq(Byte) /\ b.payload # <<>>
  BY EphemeralAssumption DEF PutType, HonestClients
<1>2. size \in Nat /\ size > 0
  <2>1. <<1, 2, 4, 8, 16, 32, 64, 128>>[b.szx + 1] \in Nat \ {0}
    BY <1>1
  <2> QED
    BY <2>1, Block1Assumption DEF BlockSize
<1>3. BlockStart(b) = b.num * size /\ BlockStart(b) < WordSize
  BY DEF BlockStart, HonestClients, Honest
<1> HIDE DEF size
<1>4. b.num * size \in Nat /\ b.num * size > 0
  BY <1>1, <1>2
<1>5. Offset(b) = b.num * size
  BY <1>3, <1>4, Block1Assumption DEF Offset
<1> QED
  BY <1>1, <1>4, <1>5

(* A capsule does not run twice because the answer to its last block was     *)
(* lost: the repeated block is refused and runs nothing, if blocks are not   *)
(* empty and the image has more than one.                                    *)
THEOREM RepetitionRunsNothingHolds ==
  ASSUME HonestClients
  PROVE  Spec => RepetitionRunsNothing
<1>1. Init => RanIsAtTheEnd
  BY DEF Init, RanIsAtTheEnd
<1>2. ASSUME TypeOK, RanIsAtTheEnd, Next, last.ran # NotRan, last.block.num > 0,
             status' = "serving", last'.op = "put", last'.block = last.block
      PROVE  last'.code = Incomplete /\ last'.ran = NotRan
  <2> DEFINE b == last.block
  <2>1. status = "serving"
    BY <1>2 DEF RanIsAtTheEnd, Next, Boot, ControlOtherMethod, ControlBadOption, Delete, Put,
                PutIncomplete, PutNoMemory, PutContinue, PutRun
  <2>2. b \in PutRequest /\ Len(handler.program) = Offset(b) + Len(b.payload)
    BY <1>2, <2>1 DEF RanIsAtTheEnd
  <2>3. ~Fits(handler, b)
    <3>1. Offset(b) # 0 /\ Len(handler.program) # Offset(b)
      BY <1>2, <2>2, LaterBlock
    <3> QED
      BY <3>1 DEF Fits, Begun
  <2>4. ASSUME NEW c \in PutRequest, Put(c)
        PROVE  last'.code = Incomplete /\ last'.ran = NotRan
    <3>1. CASE PutRun(c, "BadImage") \/ PutRun(c, "Traps") \/ PutRun(c, "Ok")
      <4>1. c = b
        BY <1>2, <2>1, <3>1 DEF PutRun
      <4> QED
        BY <2>3, <3>1, <4>1 DEF PutRun
    <3>2. CASE PutNoMemory(c) \/ PutContinue(c)
      <4>1. c = b
        BY <1>2, <3>2 DEF PutNoMemory, PutContinue, Answer
      <4> QED
        BY <2>3, <3>2, <4>1 DEF PutNoMemory, PutContinue
    <3>3. CASE PutIncomplete(c)
      BY <3>3 DEF PutIncomplete, Answer
    <3> QED
      BY <2>4, <3>1, <3>2, <3>3 DEF Put, FfOutcome
  <2>5. CASE ControlOtherMethod \/ Delete \/ \E op \in {"delete", "put"} : ControlBadOption(op)
    <3>1. last'.block = NoBlock
      BY <2>5 DEF ControlOtherMethod, Delete, ControlBadOption, Answer
    <3> QED
      BY <1>2, <3>1 DEF NoBlock
  <2> QED
    BY <1>2, <2>1, <2>4, <2>5 DEF Next, Boot
<1>3. TypeOK /\ RanIsAtTheEnd /\ [Next]_vars
        => [last.ran # NotRan /\ last.block.num > 0
              /\ status' = "serving" /\ last'.op = "put" /\ last'.block = last.block
            => last'.code = Incomplete /\ last'.ran = NotRan]_vars
  BY <1>2
<1> QED
  BY <1>1, <1>3, InitTypeOK, StepTypeOK, StepRanIsAtTheEnd, PTL DEF Spec, RepetitionRunsNothing
=============================================================================
