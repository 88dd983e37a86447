-------------------------- MODULE PersistentServer --------------------------
(* The CoAP server of examples/persistent-with-bindings (and its twin        *)
(* persistent-no-bindings): one WasmHandler shared by the handler of /vm,    *)
(* which forwards requests to the capsule, and the handler of /vm-control,   *)
(* which replaces the capsule.                                               *)
(*                                                                           *)
(* CoAP requests reach one handler at a time and a handler runs to its end   *)
(* without awaiting, so every request is one step; which request comes next, *)
(* from which peer, is arbitrary.                                            *)
EXTENDS ProgramUpload

CONSTANTS StaticProgram,  \* payload.cwasm, included in the firmware
          PutRequest      \* the PUTs on /vm-control that peers may send

ASSUME PersistentAssumption ==
  /\ StaticProgram \in Seq(Byte)
  /\ PutRequest \subseteq PutType(Byte)

VARIABLES status,   \* what the firmware is doing
          handler,  \* the WasmHandler behind the RefCell
          last      \* the request answered last, and its answer

vars == <<status, handler, last>>

Status == {"boot", "serving", "exited", "panicked"}

\* the operations a request asks for; a PUT carries its block
Operation == {"none", "vm", "delete", "put", "other"}

\* a code that no handler of the firmware answers itself
OtherCode == "other"

\* what coap_run of a capsule answers: it may return any u8, and its Err is one
\* of the codes too
GuestCode == Code \cup {OtherCode}

Answered == [op : Operation, block : PutRequest \cup {NoBlock}, code : GuestCode \cup {"none"}]

Answer(op, code) == last' = [op |-> op, block |-> NoBlock, code |-> code]
AnswerPut(b, code) == last' = [op |-> "put", block |-> b, code |-> code]
-----------------------------------------------------------------------------
Init ==
  /\ status = "boot"
  /\ handler = New
  /\ last = [op |-> "none", block |-> NoBlock, code |-> "none"]

(* run_wasm_coap_server: start the program in flash.  An error is returned   *)
(* with `?` and main exits; a capsule that cannot be set up panics.          *)
Boot(outcome) ==
  /\ status = "boot"
  /\ handler' = StartFromStatic(handler, StaticProgram, outcome)
  /\ status' = CASE StartPanics(handler, outcome)  -> "panicked"
                 [] outcome = "BadImage"           -> "exited"
                 [] OTHER                          -> "serving"
  /\ UNCHANGED last
-----------------------------------------------------------------------------
(* /vm: the request is handed to coap_run of the running capsule.            *)

VmForward(code) ==
  /\ status = "serving"
  /\ handler.state = "Running" /\ ~handler.instance.trapped
  /\ code \in GuestCode
  /\ Answer("vm", code)
  /\ UNCHANGED <<status, handler>>

\* the call traps: the error is logged, the instance stays in place
VmTrap ==
  /\ status = "serving"
  /\ handler.state = "Running" /\ ~handler.instance.trapped
  /\ handler' = [handler EXCEPT !.instance.trapped = TRUE]
  /\ Answer("vm", InternalServerError)
  /\ UNCHANGED status

\* wasmtime refuses to enter an instance that has trapped
VmCrashed ==
  /\ status = "serving"
  /\ handler.state = "Running" /\ handler.instance.trapped
  /\ Answer("vm", InternalServerError)
  /\ UNCHANGED <<status, handler>>

VmUnavailable ==
  /\ status = "serving"
  /\ handler.state # "Running"
  /\ Answer("vm", ServiceUnavailable)
  /\ UNCHANGED <<status, handler>>
-----------------------------------------------------------------------------
(* /vm-control: Control::extract_request_data.                               *)

\* a critical option that is not understood: refused before anything is done
ControlBadOption(op) ==
  /\ status = "serving"
  /\ op \in {"delete", "put"}
  /\ Answer(op, BadOption)
  /\ UNCHANGED <<status, handler>>

ControlOtherMethod ==
  /\ status = "serving"
  /\ Answer("other", MethodNotAllowed)
  /\ UNCHANGED <<status, handler>>

Delete ==
  /\ status = "serving"
  /\ handler' = Stop(handler)
  /\ Answer("delete", Deleted)
  /\ UNCHANGED status

PutIncomplete(b) ==
  /\ status = "serving"
  /\ ~Fits(handler, b)
  /\ handler' = Begun(handler, b)
  /\ AnswerPut(b, Incomplete)
  /\ UNCHANGED status

\* try_reserve fails; the heap is shared, so this may happen at any length
PutNoMemory(b) ==
  /\ status = "serving"
  /\ Fits(handler, b) /\ b.payload # <<>>
  /\ handler' = Begun(handler, b)
  /\ AnswerPut(b, InternalServerError)
  /\ UNCHANGED status

PutContinue(b) ==
  /\ status = "serving"
  /\ Fits(handler, b) /\ b.more
  /\ handler' = Extended(handler, b)
  /\ AnswerPut(b, Continue)
  /\ UNCHANGED status

\* deviation: every block starts what the buffer holds so far
PutStartEarly(b, outcome) ==
  /\ status = "serving"
  /\ Fits(handler, b)
  /\ handler' = StartFromDynamic(Extended(handler, b), outcome)
  /\ status' = IF StartPanics(Extended(handler, b), outcome) THEN "panicked" ELSE status
  /\ AnswerPut(b, IF outcome = "BadImage" THEN BadRequest ELSE Changed)

\* the last block starts what the buffer holds
PutStart(b, outcome) ==
  /\ status = "serving"
  /\ Fits(handler, b) /\ ~b.more
  /\ handler' = StartFromDynamic(Extended(handler, b), outcome)
  /\ IF StartPanics(Extended(handler, b), outcome)
     THEN status' = "panicked" /\ UNCHANGED last
     ELSE /\ AnswerPut(b, IF outcome = "BadImage" THEN BadRequest ELSE Changed)
          /\ UNCHANGED status

Put(b) ==
  \/ PutIncomplete(b)
  \/ PutNoMemory(b)
  \/ PutContinue(b)
  \/ \E outcome \in StartOutcome : PutStart(b, outcome)

Vm == VmTrap \/ VmCrashed \/ VmUnavailable \/ \E code \in GuestCode : VmForward(code)

Control ==
  \/ ControlOtherMethod
  \/ \E op \in {"delete", "put"} : ControlBadOption(op)
  \/ Delete
  \/ \E b \in PutRequest : Put(b)

Next == (\E outcome \in StartOutcome : Boot(outcome)) \/ Vm \/ Control

Spec == Init /\ [][Next]_vars
-----------------------------------------------------------------------------
(* Type invariant: every variable keeps the shape the Rust types give it.    *)
TypeOK ==
  /\ status \in Status
  /\ handler \in Handler
  /\ last \in Answered

(* The safety invariant of `WasmHandler::program`: while the running         *)
(* instance was made from the buffer, the buffer holds exactly the bytes it  *)
(* was made from, whatever peers upload in the meantime.                     *)
ProgramPinned ==
  handler.state = "Running" /\ handler.instance.dynamic
    => handler.program = handler.instance.code

(* .well-known/core lists the resources of the capsule that is running, and  *)
(* none when /vm would answer 5.03: no stop, failed start or replacement     *)
(* leaves the resources of an earlier capsule behind.                        *)
AdvertisedAreServed ==
  handler.paths = IF handler.state = "Running" THEN {handler.instance.code} ELSE {}

(* What an answer tells the peer is what the slot is in: a 2.04 that the     *)
(* uploaded bytes run and have not trapped, a 2.31, 4.00 or 2.02 that        *)
(* nothing runs.  /vm answers 5.03 while nothing runs and 5.00 once the      *)
(* capsule has crashed (the message at main.rs:77); while one runs the code  *)
(* is the capsule's own, a 5.03 of which tells nothing about the slot.       *)
AnswersTruthful ==
  status = "serving" =>
    /\ last.op = "put" /\ last.code = Changed =>
         /\ handler.state = "Running" /\ ~handler.instance.trapped
         /\ handler.instance.code = handler.program
    /\ last.op \in {"put", "delete"} /\ last.code \in {Continue, BadRequest, Deleted}
         => handler.state # "Running"
    /\ last.op = "vm" /\ handler.state # "Running" => last.code = ServiceUnavailable
    /\ last.op = "vm" /\ handler.state = "Running" /\ handler.instance.trapped
         => last.code = InternalServerError

(* Peers may send blocks in any order, repeat them, mix two uploads and send  *)
(* blocks that belong to no image (Wild).  As long as every other block      *)
(* carries the part of its image that its number says, every byte of an      *)
(* image is at its own position in the buffer: no gap, no repetition, no     *)
(* shift.  Which images are mixed the server does not check.                 *)
HonestClients == \A b \in PutRequest : Honest(b) \/ Wild(b)

InPlace == \A i \in DOMAIN handler.program : At(handler.program[i]) \in {0, i}

(* A running capsule is only taken down by a DELETE or by a block at offset  *)
(* 0 as the server computes it (a late copy of block 0 and a number whose    *)
(* offset wraps to 0 do it too); a block at any other offset, in or out of   *)
(* order, never interrupts it.                                               *)
OutageIsAskedFor ==
  [][handler.state = "Running" /\ handler'.state # "Running" /\ status' = "serving"
       => \/ last'.op = "delete"
          \/ last'.op = "put" /\ Offset(last'.block) = 0]_vars

(* A start that failed leaves the state Taken, which nothing ends: stop      *)
(* keeps it and both start functions panic on it.  From then on no capsule   *)
(* runs before the device is reset.                                          *)
FailedStartIsFinal ==
  [][handler.state = "Taken" => handler'.state = "Taken"]_vars

-----------------------------------------------------------------------------
(* Claims of comments and messages that the code does not keep.              *)

(* coap_server_guest.rs:24-31: Taken lives only while one state is replaced  *)
(* by the next; no request finds it in the handler.                          *)
TakenIsTransient == status = "serving" => handler.state # "Taken"

(* main.rs:98,114: a capsule that crashes at startup leaves a server that    *)
(* answers requests to it with 5.00 or 5.03, so a start from a slot that is  *)
(* in order never panics.                                                    *)
StartupCrashIsServed ==
  [][handler.state # "Taken" => status' # "panicked"]_vars
=============================================================================
