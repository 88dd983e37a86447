-------------------------- MODULE EphemeralServer --------------------------
(* The CoAP server of examples/ephemeral-with-bindings (and its twin         *)
(* ephemeral-no-bindings): the last block of an upload to /vm-control runs   *)
(* the capsule to its end inside the request handler; between requests       *)
(* nothing runs.  As in PersistentServer a request is one step.              *)
EXTENDS ProgramUpload

CONSTANTS PutRequest   \* the PUTs on /vm-control that peers may send

ASSUME EphemeralAssumption == PutRequest \subseteq PutType(Byte)

VARIABLES status,   \* what the firmware is doing
          handler,  \* the WasmHandler behind the RefCell
          last,     \* the request answered last, its answer, and what it ran
          refused   \* history: whether an image could not be instantiated

vars == <<status, handler, last, refused>>

Status == {"boot", "serving", "exited", "panicked"}
Operation == {"none", "delete", "put", "other"}

\* `ran` is a history of the step: the program whose run was called, if any
NotRan == <<>>
Answered == [op : Operation, block : PutRequest \cup {NoBlock},
             code : Code \cup {"none"}, ran : Seq(Byte)]

Answer(op, b, code) ==
  last' = [op |-> op, block |-> b, code |-> code, ran |-> NotRan]
-----------------------------------------------------------------------------
Init ==
  /\ status = "boot"
  /\ handler = New
  /\ last = [op |-> "none", block |-> NoBlock, code |-> "none", ran |-> NotRan]
  /\ refused = FALSE

(* run_wasm_coap_server: the program in flash runs once; its error, also a   *)
(* trap, is returned with `?` and main exits before anything is served.      *)
Boot(outcome) ==
  /\ status = "boot"
  /\ handler' = StartFfRaw(handler, outcome)
  /\ status' = IF outcome = "Ok" THEN "serving" ELSE "exited"
  /\ UNCHANGED <<last, refused>>

ControlBadOption(op) ==
  /\ status = "serving"
  /\ op \in {"delete", "put"}
  /\ Answer(op, NoBlock, BadOption)
  /\ UNCHANGED <<status, handler, refused>>

ControlOtherMethod ==
  /\ status = "serving"
  /\ Answer("other", NoBlock, MethodNotAllowed)
  /\ UNCHANGED <<status, handler, refused>>

\* nothing runs that could be stopped, and the bytes of an upload stay
Delete ==
  /\ status = "serving"
  /\ handler' = Stop(handler)
  /\ Answer("delete", NoBlock, Deleted)
  /\ UNCHANGED <<status, refused>>

PutIncomplete(b) ==
  /\ status = "serving"
  /\ ~Fits(handler, b)
  /\ handler' = Begun(handler, b)
  /\ Answer("put", b, Incomplete)
  /\ UNCHANGED <<status, refused>>

PutNoMemory(b) ==
  /\ status = "serving"
  /\ Fits(handler, b) /\ b.payload # <<>>
  /\ handler' = Begun(handler, b)
  /\ Answer("put", b, InternalServerError)
  /\ UNCHANGED <<status, refused>>

PutContinue(b) ==
  /\ status = "serving"
  /\ Fits(handler, b) /\ b.more
  /\ handler' = Extended(handler, b)
  /\ Answer("put", b, Continue)
  /\ UNCHANGED <<status, refused>>

\* the last block: start_ff_from_dynamic, which panics unless NotRunning
PutRun(b, outcome) ==
  /\ status = "serving"
  /\ Fits(handler, b) /\ ~b.more
  /\ handler' = StartFfRaw(Extended(handler, b), outcome)
  /\ IF handler.state # "NotRunning"
     THEN status' = "panicked" /\ UNCHANGED <<last, refused>>
     ELSE /\ last' = [op |-> "put", block |-> b,
                      code |-> IF outcome = "Ok" THEN Changed ELSE BadRequest,
                      ran |-> IF outcome = "BadImage" THEN NotRan ELSE handler'.program]
          /\ refused' = (refused \/ outcome = "BadImage")
          /\ UNCHANGED status

Put(b) ==
  \/ PutIncomplete(b)
  \/ PutNoMemory(b)
  \/ PutContinue(b)
  \/ \E outcome \in FfOutcome : PutRun(b, outcome)

Next ==
  \/ \E outcome \in FfOutcome : Boot(outcome)
  \/ ControlOtherMethod
  \/ \E op \in {"delete", "put"} : ControlBadOption(op)
  \/ Delete
  \/ \E b \in PutRequest : Put(b)

Spec == Init /\ [][Next]_vars
-----------------------------------------------------------------------------
(* Type invariant: every variable keeps the shape the Rust types give it.    *)
TypeOK ==
  /\ status \in Status
  /\ handler \in Handler
  /\ last \in Answered
  /\ refused \in BOOLEAN

(* The store data moves through start_ff_raw and back, so the next capsule   *)
(* starts whatever became of the one before: the device panics only after an *)
(* upload that could not be instantiated, never because a capsule trapped.   *)
PanicNeedsRefusal == status = "panicked" => refused

(* A capsule runs for its effects, so running it twice is visible.  The peer *)
(* repeats a block when the answer is lost; with more than one block the     *)
(* repetition of the last one right after it was handled is refused and runs *)
(* nothing (with HonestClients, whose blocks are not empty).                 *)
HonestClients == \A b \in PutRequest : Honest(b) /\ b.payload # <<>>

RepetitionRunsNothing ==
  [][last.ran # NotRan /\ last.block.num > 0
       /\ status' = "serving" /\ last'.op = "put" /\ last'.block = last.block
     => last'.code = Incomplete /\ last'.ran = NotRan]_vars
=============================================================================
