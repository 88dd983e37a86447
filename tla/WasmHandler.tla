---------------------------- MODULE WasmHandler ----------------------------
(* The capsule slot of the CoAP server bindings (coap_server_guest.rs): the  *)
(* WasmHandler struct and its methods.  A handler is a record and a method   *)
(* is an operator that returns the handler as the method leaves it; the      *)
(* programs that own a handler (PersistentServer, EphemeralServer) compose   *)
(* the methods inside one request handler, as the Rust code does on          *)
(* `&mut WasmHandler`.                                                       *)
(*                                                                           *)
(* Bytes are abstract: `Byte` is the set of values that one byte of a        *)
(* program may have, so `h.program` is the Vec<u8> and Len is its length.    *)
EXTENDS Naturals, Sequences

CONSTANT Byte       \* the values a byte of a program takes

\* enum WasmHandlerState, without the payloads of its variants
HandlerState == {"Running", "NotRunning", "Taken"}

(* The wasm instance of the Running variant.  `code` is the program it was   *)
(* made from; `dynamic` tells the handler's own buffer from the program in   *)
(* flash; `trapped` is set by wasmtime once a call has trapped: the instance *)
(* stays where it is and every later call into it fails.                     *)
NoInstance == [code |-> <<>>, dynamic |-> FALSE, trapped |-> FALSE]

Instance == [code : Seq(Byte), dynamic : BOOLEAN, trapped : BOOLEAN]

(* `paths` is what the capsule reported, to be listed in .well-known/core.   *)
(* A report is represented by the program it came from: {p} stands for the   *)
(* resources of the capsule compiled into p, {} for the cleared vector.      *)
Handler == [state    : HandlerState,
            program  : Seq(Byte),
            paths    : SUBSET Seq(Byte),
            instance : Instance]

\* WasmHandler::new
New == [state    |-> "NotRunning",
        program  |-> <<>>,
        paths    |-> {},
        instance |-> NoInstance]

\* deviation: stop puts a Taken state in order, or forgets to replace Running
StoppedStateResets(s) == "NotRunning"
StoppedStateForgets(s) == s

\* WasmHandlerState::stop: a Taken state is left the way it is
StoppedState(s) == IF s = "Running" THEN "NotRunning" ELSE s

\* deviation: stop leaves the reported paths behind
StopKeepingPaths(h) == [h EXCEPT !.state = StoppedState(@), !.instance = NoInstance]

\* WasmHandler::stop: the program bytes stay, the reported paths go
Stop(h) == [h EXCEPT !.state    = StoppedState(@),
                     !.instance = NoInstance,
                     !.paths    = {}]

\* deviation: mutate_program does not look at the state
MayMutateAlways(h) == TRUE

\* require_stopped: mutate_program is Ok in this case, Err(StopFirst) otherwise
MayMutateProgram(h) == h.state # "Running"

-----------------------------------------------------------------------------
(* What can come out of deserializing, instantiating and setting up a        *)
(* program.  The bytes, the engine configuration and the free memory decide  *)
(* it; the handler cannot tell beforehand.                                   *)
StartOutcome == {"BadImage",     \* deserialize_raw or instantiate is Err
                 "InitFails",    \* initialize_handler traps or answers Err
                 "ReportFails",  \* report traps or answers Err
                 "Ok"}

\* both start functions panic unless they replace a NotRunning state, and the
\* results of initialize_handler and report_resources are unwrapped
StartPanics(h, outcome) ==
  \/ h.state # "NotRunning"
  \/ outcome \in {"InitFails", "ReportFails"}

\* start_raw: the state is Taken from the mem::replace on, and only the last
\* assignment ends that
StartRaw(h, wasm, dynamic, outcome) ==
  IF h.state = "NotRunning" /\ outcome = "Ok"
  THEN [h EXCEPT !.state    = "Running",
                 !.paths    = {wasm},
                 !.instance = [code |-> wasm, dynamic |-> dynamic, trapped |-> FALSE]]
  ELSE [h EXCEPT !.state    = "Taken",
                 !.instance = NoInstance]

StartFromStatic(h, wasm, outcome) == StartRaw(h, wasm, FALSE, outcome)

StartFromDynamic(h, outcome) == StartRaw(h, h.program, TRUE, outcome)

(* An ephemeral capsule is instantiated, run to its end and dropped, all in  *)
(* one call; its result, a trap included, is what the call returns.          *)
FfOutcome == {"BadImage", "Traps", "Ok"}

\* deviation: the result of run is propagated before the state is put back
StartFfRawEarlyReturn(h, outcome) ==
  [h EXCEPT !.state = IF @ = "NotRunning" /\ outcome = "Ok" THEN "NotRunning" ELSE "Taken",
            !.instance = NoInstance]

\* start_ff_raw: panics on any state but NotRunning; a bad image leaves Taken
StartFfRaw(h, outcome) ==
  [h EXCEPT !.state = IF @ = "NotRunning" /\ outcome # "BadImage" THEN "NotRunning" ELSE "Taken",
            !.instance = NoInstance]
=============================================================================
