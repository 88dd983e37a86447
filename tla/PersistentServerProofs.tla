----------------------- MODULE PersistentServerProofs -----------------------
(* Theorems about PersistentServer, for every program, every set of requests *)
(* and every block and word size.                                            *)
EXTENDS PersistentServer, SequenceTheorems, TLAPS

(* The inductive invariant.  The three properties of the slot are not        *)
(* inductive one by one: that a stop leaves no instance and no paths behind  *)
(* and that the first start finds a fresh handler is what carries them.      *)
BootIsFresh == status = "boot" => handler = New

SlotConsistent ==
  /\ ProgramPinned
  /\ AdvertisedAreServed
  /\ handler.state # "Running" => handler.instance = NoInstance

IInv == TypeOK /\ BootIsFresh /\ SlotConsistent
-----------------------------------------------------------------------------
(* The methods of WasmHandler keep the shape of a handler.                   *)

LEMMA NewType == New \in Handler
  BY DEF New, Handler, HandlerState, Instance, NoInstance

LEMMA StopType ==
  ASSUME NEW h \in Handler
  PROVE  /\ Stop(h) \in Handler
         /\ Stop(h).state = StoppedState(h.state)
         /\ Stop(h).state # "Running"
         /\ Stop(h).program = h.program
         /\ Stop(h).paths = {}
         /\ Stop(h).instance = NoInstance
<1>1. NoInstance \in Instance /\ {} \in SUBSET Seq(Byte)
  BY DEF Instance, NoInstance
<1>2. StoppedState(h.state) \in HandlerState \ {"Running"}
  BY DEF StoppedState, Handler, HandlerState
<1> QED
  BY <1>1, <1>2 DEF Stop, Handler

LEMMA StartType ==
  ASSUME NEW h \in Handler, NEW wasm \in Seq(Byte), NEW dynamic \in BOOLEAN,
         NEW outcome \in StartOutcome
  PROVE  StartRaw(h, wasm, dynamic, outcome) \in Handler
<1>1. /\ NoInstance \in Instance
      /\ [code |-> wasm, dynamic |-> dynamic, trapped |-> FALSE] \in Instance
  BY DEF Instance, NoInstance
<1>2. {wasm} \in SUBSET Seq(Byte) /\ {"Running", "Taken"} \subseteq HandlerState
  BY DEF HandlerState
<1> QED
  BY <1>1, <1>2 DEF StartRaw, Handler

(* A start either fails, and leaves Taken and no instance, or runs the given *)
(* bytes and lists their resources.  The buffer is not touched.              *)
LEMMA StartResult ==
  ASSUME NEW h \in Handler, NEW wasm \in Seq(Byte), NEW dynamic \in BOOLEAN,
         NEW outcome \in StartOutcome, NEW g, g = StartRaw(h, wasm, dynamic, outcome)
  PROVE  /\ g.program = h.program
         /\ \/ /\ h.state = "NotRunning"
               /\ g.state = "Running"
               /\ g.paths = {wasm}
               /\ g.instance = [code |-> wasm, dynamic |-> dynamic, trapped |-> FALSE]
            \/ /\ g.state = "Taken"
               /\ g.paths = h.paths
               /\ g.instance = NoInstance
  BY DEF StartRaw, Handler

LEMMA StartProgram ==
  ASSUME NEW h \in Handler, NEW wasm \in Seq(Byte), NEW dynamic \in BOOLEAN,
         NEW outcome \in StartOutcome
  PROVE  StartRaw(h, wasm, dynamic, outcome).program = h.program
  BY DEF StartRaw, Handler

(* What a block does to the handler before it is checked, and the type of    *)
(* the handler it extends.                                                   *)
LEMMA BegunType ==
  ASSUME TypeOK, NEW b \in PutRequest
  PROVE  /\ Begun(handler, b) \in Handler
         /\ Extended(handler, b) \in Handler
         /\ Extended(handler, b).state = Begun(handler, b).state
         /\ Extended(handler, b).program = Begun(handler, b).program \o b.payload
         /\ Extended(handler, b).paths = Begun(handler, b).paths
         /\ Extended(handler, b).instance = Begun(handler, b).instance
<1>1. b.payload \in Seq(Byte)
  BY PersistentAssumption DEF PutType
<1>2. handler \in Handler
  BY DEF TypeOK
<1>3. Begun(handler, b) \in Handler
  <2>1. Stop(handler) \in Handler
    BY <1>2, StopType
  <2>2. <<>> \in Seq(Byte)
    OBVIOUS
  <2> QED
    BY <1>2, <2>1, <2>2 DEF Begun, Handler
<1>4. Begun(handler, b).program \o b.payload \in Seq(Byte)
  BY <1>1, <1>3, ConcatProperties DEF Handler
<1> QED
  BY <1>3, <1>4 DEF Extended, Handler
-----------------------------------------------------------------------------
(* A handler in which nothing runs, as a stop leaves it.                     *)
Idle(h) == h.state # "Running" /\ h.paths = {} /\ h.instance = NoInstance

(* SlotConsistent for a handler that is not in the variable yet.             *)
Consistent(h) ==
  \/ Idle(h)
  \/ /\ h.state = "Running"
     /\ h.paths = {h.instance.code}
     /\ h.instance.dynamic => h.program = h.instance.code

LEMMA SlotConsistentIff == SlotConsistent <=> Consistent(handler)
<1>1. NoInstance.dynamic = FALSE
  BY DEF NoInstance
<1> QED
  BY <1>1 DEF SlotConsistent, ProgramPinned, AdvertisedAreServed, Consistent, Idle

(* A block that fits is extended in an idle handler: at offset 0 because it  *)
(* has just stopped the capsule, elsewhere because mutate_program refuses a  *)
(* running one.                                                              *)
LEMMA BegunConsistent ==
  ASSUME IInv, NEW b \in PutRequest
  PROVE  /\ Consistent(Begun(handler, b))
         /\ Fits(handler, b) => Idle(Begun(handler, b)) /\ Idle(Extended(handler, b))
<1>1. handler \in Handler /\ Consistent(handler)
  BY SlotConsistentIff DEF IInv, TypeOK
<1>2. Idle(Begun(handler, b)) => Idle(Extended(handler, b))
  BY BegunType DEF Idle, IInv
<1>3. CASE Offset(b) = 0
  <2>1. Idle(Begun(handler, b))
    BY <1>1, <1>3, StopType DEF Begun, Idle, Handler
  <2>2. Idle(Extended(handler, b))
    BY <1>2, <2>1
  <2> QED
    BY <2>1, <2>2 DEF Consistent
<1>4. CASE Offset(b) # 0
  <2>1. Begun(handler, b) = handler
    BY <1>4 DEF Begun
  <2>2. Fits(handler, b) => Idle(Begun(handler, b))
    BY <1>1, <2>1 DEF Fits, MayMutateProgram, Consistent
  <2> QED
    BY <1>1, <1>2, <2>1, <2>2
<1> QED
  BY <1>3, <1>4

(* Starting an idle handler leaves a consistent one.                         *)
LEMMA StartConsistent ==
  ASSUME NEW h \in Handler, Idle(h), NEW wasm \in Seq(Byte), NEW dynamic \in BOOLEAN,
         dynamic => wasm = h.program, NEW outcome \in StartOutcome
  PROVE  Consistent(StartRaw(h, wasm, dynamic, outcome))
<1> DEFINE g == StartRaw(h, wasm, dynamic, outcome)
<1>1. \/ /\ g.state = "Running" /\ g.program = h.program /\ g.paths = {wasm}
         /\ g.instance = [code |-> wasm, dynamic |-> dynamic, trapped |-> FALSE]
      \/ g.state = "Taken" /\ g.paths = h.paths /\ g.instance = NoInstance
  BY StartResult
<1> HIDE DEF g
<1>2. Consistent(g)
  BY <1>1 DEF Consistent, Idle
<1> QED
  BY <1>2 DEF g

LEMMA AnswerType ==
  ASSUME NEW op \in Operation, NEW code \in GuestCode
  PROVE  [op |-> op, block |-> NoBlock, code |-> code] \in Answered
  BY DEF Answered

LEMMA AnswerPutType ==
  ASSUME NEW b \in PutRequest, NEW code \in Code
  PROVE  [op |-> "put", block |-> b, code |-> code] \in Answered
  BY DEF Answered, Operation, GuestCode
-----------------------------------------------------------------------------
LEMMA InitIInv == Init => IInv
<1> SUFFICES ASSUME Init PROVE IInv
  OBVIOUS
<1>1. TypeOK
  BY NewType DEF Init, TypeOK, Status, Answered, Operation
<1>2. SlotConsistent
  BY SlotConsistentIff DEF Init, Consistent, Idle, New
<1> QED
  BY <1>1, <1>2 DEF IInv, Init, BootIsFresh

(* Every PUT leaves a well-typed, consistent slot.                           *)
LEMMA PutStep ==
  ASSUME IInv, NEW b \in PutRequest, Put(b)
  PROVE  TypeOK' /\ Consistent(handler')
<1> USE DEF IInv
<1>1. /\ Begun(handler, b) \in Handler /\ Extended(handler, b) \in Handler
      /\ Extended(handler, b).program \in Seq(Byte)
  BY BegunType DEF Handler
<1>2. /\ Consistent(Begun(handler, b))
      /\ Fits(handler, b) => Idle(Begun(handler, b)) /\ Idle(Extended(handler, b))
  BY BegunConsistent
<1>3. CASE PutIncomplete(b)
  BY <1>1, <1>2, <1>3, AnswerPutType DEF PutIncomplete, AnswerPut, TypeOK, Status, Code
<1>4. CASE PutNoMemory(b)
  BY <1>1, <1>2, <1>4, AnswerPutType DEF PutNoMemory, AnswerPut, TypeOK, Status, Code
<1>5. CASE PutContinue(b)
  BY <1>1, <1>2, <1>5, AnswerPutType
  DEF PutContinue, AnswerPut, TypeOK, Status, Code, Consistent
<1>6. ASSUME NEW outcome \in StartOutcome, PutStart(b, outcome)
      PROVE  TypeOK' /\ Consistent(handler')
  <2>1. /\ handler' \in Handler
        /\ Consistent(handler')
    BY <1>1, <1>2, <1>6, StartType, StartConsistent DEF PutStart, StartFromDynamic
  <2>2. status' \in Status /\ last' \in Answered
    BY <1>6, AnswerPutType DEF PutStart, AnswerPut, TypeOK, Status, Code
  <2> QED
    BY <2>1, <2>2 DEF TypeOK
<1> QED
  BY <1>3, <1>4, <1>5, <1>6 DEF Put

LEMMA NextIInv == IInv /\ [Next]_vars => IInv'
<1> SUFFICES ASSUME IInv, [Next]_vars
             PROVE  TypeOK' /\ BootIsFresh' /\ Consistent(handler')
  <2>1. (SlotConsistent <=> Consistent(handler))'
    BY SlotConsistentIff, PTL
  <2> QED
    BY <2>1 DEF IInv
<1> USE DEF IInv
<1>0. handler \in Handler /\ Consistent(handler)
  BY SlotConsistentIff DEF TypeOK
<1>1. ASSUME NEW outcome \in StartOutcome, Boot(outcome)
      PROVE  TypeOK' /\ BootIsFresh' /\ Consistent(handler')
  <2>1. Idle(handler)
    BY <1>1 DEF Boot, BootIsFresh, Idle, New
  <2>2. handler' \in Handler
    BY <1>0, <1>1, StartType, PersistentAssumption DEF Boot, StartFromStatic
  <2>3. Consistent(handler')
    BY <1>0, <1>1, <2>1, StartConsistent, PersistentAssumption DEF Boot, StartFromStatic
  <2> QED
    BY <1>1, <2>2, <2>3 DEF Boot, BootIsFresh, TypeOK, Status
<1>2. CASE Vm
  <2>1. status = "serving" /\ status' = "serving"
    BY <1>2 DEF Vm, VmForward, VmTrap, VmCrashed, VmUnavailable
  <2>2. last' \in Answered
    BY <1>2, AnswerType
    DEF Vm, VmForward, VmTrap, VmCrashed, VmUnavailable, Answer, GuestCode, Operation, Code
  <2>3. handler' \in Handler /\ Consistent(handler')
    <3>1. CASE handler' = handler
      BY <1>0, <3>1
    <3>2. CASE VmTrap
      <4>1. handler.instance \in Instance /\ handler.state = "Running"
        BY <1>0, <3>2 DEF VmTrap, Handler
      <4>2. /\ handler'.instance \in Instance
            /\ handler'.instance.code = handler.instance.code
            /\ handler'.instance.dynamic = handler.instance.dynamic
        BY <1>0, <3>2, <4>1 DEF VmTrap, Handler, Instance
      <4>3. /\ handler' \in Handler
            /\ handler'.state = handler.state
            /\ handler'.program = handler.program
            /\ handler'.paths = handler.paths
        BY <1>0, <3>2, <4>2 DEF VmTrap, Handler
      <4> QED
        BY <1>0, <4>1, <4>2, <4>3 DEF Consistent, Idle
    <3> QED
      BY <1>2, <3>1, <3>2 DEF Vm, VmForward, VmCrashed, VmUnavailable
  <2> QED
    BY <2>1, <2>2, <2>3 DEF TypeOK, BootIsFresh, Status
<1>3. CASE ControlOtherMethod
  BY <1>0, <1>3, AnswerType DEF ControlOtherMethod, Answer, TypeOK, BootIsFresh, Status, Operation,
                                 GuestCode, Code
<1>4. ASSUME NEW op \in {"delete", "put"}, ControlBadOption(op)
      PROVE  TypeOK' /\ BootIsFresh' /\ Consistent(handler')
  BY <1>0, <1>4, AnswerType DEF ControlBadOption, Answer, TypeOK, BootIsFresh, Status, Operation,
                               GuestCode, Code
<1>5. CASE Delete
  BY <1>0, <1>5, StopType, AnswerType
  DEF Delete, Answer, TypeOK, BootIsFresh, Status, Operation, GuestCode, Code, Consistent, Idle
<1>6. ASSUME NEW b \in PutRequest, Put(b)
      PROVE  TypeOK' /\ BootIsFresh' /\ Consistent(handler')
  BY <1>6, PutStep
  DEF Put, PutIncomplete, PutNoMemory, PutContinue, PutStart, BootIsFresh
<1>7. CASE UNCHANGED vars
  BY <1>0, <1>7 DEF vars, TypeOK, BootIsFresh
<1> QED
  BY <1>1, <1>2, <1>3, <1>4, <1>5, <1>6, <1>7 DEF Next, Control

LEMMA SpecIInv == Spec => []IInv
  BY InitIInv, NextIInv, PTL DEF Spec

(* Every variable keeps its shape: no request makes the handler anything but *)
(* running, not running or taken, with a buffer of bytes.                    *)
THEOREM TypeCorrect == Spec => []TypeOK
  BY SpecIInv, PTL DEF IInv

(* The safety invariant of WasmHandler::program holds: no sequence of        *)
(* requests changes the bytes a running capsule was made from.               *)
THEOREM ProgramPinnedHolds == Spec => []ProgramPinned
<1>1. IInv => ProgramPinned
  BY DEF IInv, SlotConsistent
<1> QED
  BY <1>1, SpecIInv, PTL

(* .well-known/core lists the resources of the capsule that runs and no      *)
(* others.                                                                   *)
THEOREM AdvertisedAreServedHolds == Spec => []AdvertisedAreServed
<1>1. IInv => AdvertisedAreServed
  BY DEF IInv, SlotConsistent
<1> QED
  BY <1>1, SpecIInv, PTL
-----------------------------------------------------------------------------
(* What Taken means for the methods: a stop keeps it, an upload keeps it,    *)
(* and a start that finds it leaves it.                                      *)
LEMMA TakenKept ==
  ASSUME TypeOK, handler.state = "Taken"
  PROVE  /\ Stop(handler).state = "Taken"
         /\ \A b \in PutRequest :
              /\ Begun(handler, b).state = "Taken"
              /\ Extended(handler, b).state = "Taken"
              /\ \A outcome \in StartOutcome :
                   StartFromDynamic(Extended(handler, b), outcome).state = "Taken"
<1>1. Stop(handler).state = "Taken"
  BY StopType DEF TypeOK, StoppedState
<1>2. ASSUME NEW b \in PutRequest
      PROVE  /\ Begun(handler, b).state = "Taken"
             /\ Extended(handler, b).state = "Taken"
             /\ \A outcome \in StartOutcome :
                  StartFromDynamic(Extended(handler, b), outcome).state = "Taken"
  <2>1. Begun(handler, b).state = "Taken"
    <3>1. Stop(handler) \in Handler
      BY StopType DEF TypeOK
    <3> QED
      BY <1>1, <3>1 DEF Begun, Handler
  <2>2. Extended(handler, b) \in Handler /\ Extended(handler, b).state = "Taken"
    BY <2>1, BegunType
  <2>3. ASSUME NEW outcome \in StartOutcome
        PROVE  StartFromDynamic(Extended(handler, b), outcome).state = "Taken"
    BY <2>2 DEF StartFromDynamic, StartRaw, Handler
  <2> QED
    BY <2>1, <2>2, <2>3
<1> QED
  BY <1>1, <1>2

(* After a failed start nothing but a reset ends Taken, whatever peers send: *)
(* the device never runs a capsule again.                                    *)
THEOREM FailedStartIsFinalHolds == Spec => FailedStartIsFinal
<1>1. ASSUME IInv, [Next]_vars, handler.state = "Taken"
      PROVE  handler'.state = "Taken"
  <2>0. TypeOK
    BY <1>1 DEF IInv
  <2>1. status # "boot"
    BY <1>1 DEF IInv, BootIsFresh, New
  <2>2. CASE Vm
    BY <1>1, <2>2 DEF Vm, VmForward, VmTrap, VmCrashed, VmUnavailable
  <2>3. CASE ControlOtherMethod \/ \E op \in {"delete", "put"} : ControlBadOption(op)
    BY <1>1, <2>3 DEF ControlOtherMethod, ControlBadOption
  <2>4. CASE Delete
    BY <1>1, <2>0, <2>4, TakenKept DEF Delete
  <2>5. ASSUME NEW b \in PutRequest, Put(b)
        PROVE  handler'.state = "Taken"
    BY <1>1, <2>0, <2>5, TakenKept DEF Put, PutIncomplete, PutNoMemory, PutContinue, PutStart
  <2>6. CASE UNCHANGED vars
    BY <1>1, <2>6 DEF vars
  <2> QED
    BY <1>1, <2>1, <2>2, <2>3, <2>4, <2>5, <2>6 DEF Next, Control, Boot
<1>2. IInv /\ [Next]_vars => [handler.state = "Taken" => handler'.state = "Taken"]_vars
  BY <1>1
<1> QED
  BY <1>2, SpecIInv, PTL DEF Spec, FailedStartIsFinal
-----------------------------------------------------------------------------
(* Where the server takes an honest block to go is where it belongs.         *)
LEMMA HonestOffset ==
  ASSUME NEW b \in PutRequest, Honest(b)
  PROVE  Offset(b) = BlockStart(b) /\ Offset(b) \in Nat
<1>1. b.num \in Nat /\ b.szx \in 0..7
  BY PersistentAssumption DEF PutType
<1>2. BlockStart(b) \in Nat /\ BlockStart(b) < WordSize
  <2>1. <<1, 2, 4, 8, 16, 32, 64, 128>>[b.szx + 1] \in Nat
    BY <1>1
  <2>2. BlockSize(b.szx) \in Nat
    BY <2>1, Block1Assumption DEF BlockSize
  <2> QED
    BY <1>1, <2>2 DEF Honest, BlockStart
<1> QED
  BY <1>2, Block1Assumption DEF Offset

(* A block that fits extends a buffer that is in place by bytes that are in  *)
(* place, if it is honest, and by bytes of no image otherwise.               *)
LEMMA ExtendedInPlace ==
  ASSUME HonestClients, IInv, InPlace, NEW b \in PutRequest, Fits(handler, b)
  PROVE  \A i \in DOMAIN Extended(handler, b).program :
            At(Extended(handler, b).program[i]) \in {0, i}
<1> DEFINE p == Begun(handler, b).program
           q == b.payload
<1>1. p \in Seq(Byte) /\ q \in Seq(Byte)
  BY BegunType, PersistentAssumption DEF IInv, PutType, Handler
<1>2. Extended(handler, b).program = p \o q
  BY BegunType DEF IInv
<1>3. \A i \in 1..Len(p) : At(p[i]) \in {0, i}
  <2>1. p = <<>> \/ p = handler.program
    <3>1. Stop(handler) \in Handler
      BY StopType DEF IInv, TypeOK
    <3> QED
      BY <3>1 DEF Begun, Handler
  <2> QED
    BY <1>1, <2>1 DEF InPlace
<1>4. \A i \in 1..Len(q) : At(q[i]) \in {0, Len(p) + i}
  <2>1. CASE Honest(b)
    <3>1. Len(p) = BlockStart(b)
      BY <2>1, HonestOffset DEF Fits
    <3> QED
      BY <1>1, <2>1, <3>1 DEF Honest
  <2>2. CASE Wild(b)
    BY <1>1, <2>2 DEF Wild
  <2> QED
    BY <2>1, <2>2 DEF HonestClients
<1> HIDE DEF p, q
<1>5. \A i \in 1..Len(p \o q) : At((p \o q)[i]) \in {0, i}
  BY <1>1, <1>3, <1>4
<1>6. DOMAIN (p \o q) = 1..Len(p \o q)
  BY <1>1
<1> QED
  BY <1>2, <1>5, <1>6

(* However blocks are lost, repeated, reordered, mixed and joined by blocks  *)
(* of no image, every byte of an image is at its position in the buffer.     *)
THEOREM InPlaceHolds ==
  ASSUME HonestClients
  PROVE  Spec => []InPlace
<1>1. Init => InPlace
  BY DEF Init, New, InPlace
<1>2. ASSUME IInv, InPlace, [Next]_vars
      PROVE  InPlace'
  <2>0. handler \in Handler
    BY <1>2 DEF IInv, TypeOK
  <2>1. ASSUME handler'.program = handler.program
        PROVE  InPlace'
    BY <1>2, <2>1 DEF InPlace
  <2>2. ASSUME NEW outcome \in StartOutcome, Boot(outcome)
        PROVE  InPlace'
    BY <2>0, <2>1, <2>2, StartProgram, PersistentAssumption DEF Boot, StartFromStatic
  <2>3. CASE Vm
    BY <2>0, <2>1, <2>3 DEF Vm, VmForward, VmTrap, VmCrashed, VmUnavailable, Handler
  <2>4. CASE ControlOtherMethod \/ \E op \in {"delete", "put"} : ControlBadOption(op)
    BY <2>1, <2>4 DEF ControlOtherMethod, ControlBadOption
  <2>5. CASE Delete
    BY <2>0, <2>1, <2>5, StopType DEF Delete
  <2>6. ASSUME NEW b \in PutRequest, Put(b)
        PROVE  InPlace'
    <3>1. Begun(handler, b) \in Handler /\ Extended(handler, b) \in Handler
      BY <1>2, BegunType DEF IInv
    <3>2. Begun(handler, b).program = <<>> \/ Begun(handler, b).program = handler.program
      BY <2>0, StopType DEF Begun, Handler
    <3>3. CASE PutIncomplete(b) \/ PutNoMemory(b)
      BY <1>2, <3>2, <3>3 DEF PutIncomplete, PutNoMemory, InPlace
    <3>4. CASE PutContinue(b)
      BY <1>2, <3>4, ExtendedInPlace DEF PutContinue, InPlace
    <3>5. ASSUME NEW outcome \in StartOutcome, PutStart(b, outcome)
          PROVE  InPlace'
      <4>1. handler'.program = Extended(handler, b).program
        BY <3>1, <3>5, StartProgram DEF PutStart, StartFromDynamic, Handler
      <4> QED
        BY <1>2, <3>5, <4>1, ExtendedInPlace DEF PutStart, InPlace
    <3> QED
      BY <2>6, <3>3, <3>4, <3>5 DEF Put
  <2>7. CASE UNCHANGED vars
    BY <2>1, <2>7 DEF vars
  <2> QED
    BY <1>2, <2>2, <2>3, <2>4, <2>5, <2>6, <2>7 DEF Next, Control
<1> QED
  BY <1>1, <1>2, SpecIInv, PTL DEF Spec
-----------------------------------------------------------------------------
(* AnswersTruthful relates the answer to the slot after the step that gave   *)
(* it; a step that keeps the answer keeps the slot, but for the boot, before *)
(* which nothing was answered.                                               *)
BootUnanswered == status = "boot" => last.op = "none"

LEMMA AnswersStep ==
  ASSUME IInv, BootUnanswered, AnswersTruthful, [Next]_vars
  PROVE  BootUnanswered' /\ AnswersTruthful'
<1>0. handler \in Handler /\ TypeOK
  BY DEF IInv, TypeOK
<1>1. CASE \E outcome \in StartOutcome : Boot(outcome)
  BY <1>1 DEF Boot, BootUnanswered, AnswersTruthful
<1>2. CASE Vm
  <2>1. CASE VmTrap
    <3>1. handler'.state = "Running" /\ last'.op = "vm" /\ last'.code = InternalServerError
      BY <1>0, <2>1 DEF VmTrap, Answer, Handler
    <3> QED
      BY <2>1, <3>1 DEF VmTrap, BootUnanswered, AnswersTruthful
  <2>2. CASE VmCrashed
    BY <2>2 DEF VmCrashed, Answer, BootUnanswered, AnswersTruthful
  <2>3. ASSUME NEW code \in GuestCode, VmForward(code)
        PROVE  BootUnanswered' /\ AnswersTruthful'
    BY <2>3 DEF VmForward, Answer, BootUnanswered, AnswersTruthful
  <2>4. CASE VmUnavailable
    BY <2>4 DEF VmUnavailable, Answer, BootUnanswered, AnswersTruthful
  <2> QED
    BY <1>2, <2>1, <2>2, <2>3, <2>4 DEF Vm
<1>3. CASE ControlOtherMethod \/ \E op \in {"delete", "put"} : ControlBadOption(op)
  BY <1>3 DEF ControlOtherMethod, ControlBadOption, Answer, BadOption, MethodNotAllowed,
              Changed, Continue, BadRequest, Deleted, BootUnanswered, AnswersTruthful
<1>4. CASE Delete
  <2>1. handler'.state # "Running" /\ last'.op = "delete"
    BY <1>0, <1>4, StopType DEF Delete, Answer
  <2> QED
    BY <1>4, <2>1 DEF Delete, BootUnanswered, AnswersTruthful
<1>5. ASSUME NEW b \in PutRequest, Put(b)
      PROVE  BootUnanswered' /\ AnswersTruthful'
  <2>0. /\ Extended(handler, b) \in Handler
        /\ Fits(handler, b) => Extended(handler, b).state # "Running"
    BY <1>0, BegunType, BegunConsistent DEF Idle
  <2>1. CASE PutIncomplete(b) \/ PutNoMemory(b)
    BY <2>1 DEF PutIncomplete, PutNoMemory, AnswerPut, Incomplete, InternalServerError,
                Changed, Continue, BadRequest, Deleted, BootUnanswered, AnswersTruthful
  <2>2. CASE PutContinue(b)
    BY <2>0, <2>2 DEF PutContinue, AnswerPut, Changed, Continue, BadRequest, Deleted,
                      BootUnanswered, AnswersTruthful
  <2>3. ASSUME NEW outcome \in StartOutcome, PutStart(b, outcome)
        PROVE  BootUnanswered' /\ AnswersTruthful'
    <3> DEFINE h == Extended(handler, b)
    <3>1. CASE StartPanics(h, outcome)
      BY <2>3, <3>1 DEF PutStart, BootUnanswered, AnswersTruthful
    <3>2. CASE ~StartPanics(h, outcome) /\ outcome = "BadImage"
      <4>1. handler'.state # "Running"
        BY <2>0, <2>3, <3>2 DEF PutStart, StartFromDynamic, StartRaw, Handler
      <4> QED
        BY <2>3, <3>2, <4>1 DEF PutStart, AnswerPut, Changed, BadRequest,
                                BootUnanswered, AnswersTruthful
    <3>3. CASE ~StartPanics(h, outcome) /\ outcome # "BadImage"
      <4>1. h.state = "NotRunning" /\ outcome = "Ok"
        BY <3>3 DEF StartPanics, StartOutcome
      <4>2. /\ handler'.state = "Running" /\ handler'.program = h.program
            /\ handler'.instance = [code |-> h.program, dynamic |-> TRUE, trapped |-> FALSE]
        BY <2>0, <2>3, <4>1 DEF PutStart, StartFromDynamic, StartRaw, Handler
      <4>3. ~handler'.instance.trapped /\ handler'.instance.code = handler'.program
        BY <4>2
      <4> QED
        BY <2>3, <3>3, <4>2, <4>3 DEF PutStart, AnswerPut, Changed, Continue, BadRequest, Deleted,
                                      BootUnanswered, AnswersTruthful
    <3> QED
      BY <3>1, <3>2, <3>3
  <2> QED
    BY <1>5, <2>1, <2>2, <2>3 DEF Put
<1>6. CASE UNCHANGED vars
  BY <1>6 DEF vars, BootUnanswered, AnswersTruthful
<1> QED
  BY <1>1, <1>2, <1>3, <1>4, <1>5, <1>6 DEF Next, Control

(* What an answer tells the peer is what the slot is in, whichever codes the *)
(* capsule itself answers.                                                   *)
THEOREM AnswersTruthfulHolds == Spec => []AnswersTruthful
<1>1. Init => BootUnanswered /\ AnswersTruthful
  BY DEF Init, BootUnanswered, AnswersTruthful
<1>2. IInv /\ BootUnanswered /\ AnswersTruthful /\ [Next]_vars
        => BootUnanswered' /\ AnswersTruthful'
  BY AnswersStep
<1> QED
  BY <1>1, <1>2, SpecIInv, PTL DEF Spec
-----------------------------------------------------------------------------
(* A block elsewhere than at offset 0 finds a running capsule and is refused *)
(* with the handler as it was.                                               *)
LEMMA RunningRefuses ==
  ASSUME NEW b \in PutRequest, handler.state = "Running", Offset(b) # 0
  PROVE  ~Fits(handler, b) /\ Begun(handler, b) = handler
  BY DEF Fits, MayMutateProgram, Begun

(* Only a DELETE or a block at offset 0 takes a running capsule down.        *)
THEOREM OutageIsAskedForHolds == Spec => OutageIsAskedFor
<1> DEFINE outage == handler.state = "Running" /\ handler'.state # "Running" /\ status' = "serving"
           asked  == \/ last'.op = "delete"
                     \/ last'.op = "put" /\ Offset(last'.block) = 0
<1>1. ASSUME IInv, [Next]_vars, outage
      PROVE  asked
  <2>0. handler \in Handler
    BY <1>1 DEF IInv, TypeOK
  <2>1. ~\E outcome \in StartOutcome : Boot(outcome)
    BY <1>1 DEF IInv, BootIsFresh, Boot, New
  <2>2. ~Vm
    <3>1. VmTrap => handler'.state = handler.state
      BY <2>0 DEF VmTrap, Handler
    <3> QED
      BY <1>1, <3>1 DEF Vm, VmForward, VmCrashed, VmUnavailable
  <2>3. ~ControlOtherMethod /\ \A op \in {"delete", "put"} : ~ControlBadOption(op)
    BY <1>1 DEF ControlOtherMethod, ControlBadOption
  <2>4. ~UNCHANGED vars
    BY <1>1 DEF vars
  <2>5. CASE Delete
    BY <2>5 DEF Delete, Answer
  <2>6. ASSUME NEW b \in PutRequest, Put(b)
        PROVE  asked
    <3>1. CASE Offset(b) # 0
      BY <1>1, <2>6, <3>1, RunningRefuses
      DEF Put, PutIncomplete, PutNoMemory, PutContinue, PutStart
    <3>2. last'.op = "put" /\ last'.block = b
      <4>1. CASE PutIncomplete(b) \/ PutNoMemory(b) \/ PutContinue(b)
        BY <4>1 DEF PutIncomplete, PutNoMemory, PutContinue, AnswerPut
      <4>2. CASE \E outcome \in StartOutcome : PutStart(b, outcome)
        BY <1>1, <4>2 DEF PutStart, AnswerPut
      <4> QED
        BY <2>6, <4>1, <4>2 DEF Put
    <3> QED
      BY <3>1, <3>2
  <2> QED
    BY <1>1, <2>1, <2>2, <2>3, <2>4, <2>5, <2>6 DEF Next, Control
<1>2. IInv /\ [Next]_vars => [outage => asked]_vars
  BY <1>1
<1> QED
  BY <1>2, SpecIInv, PTL DEF Spec, OutageIsAskedFor
=============================================================================
