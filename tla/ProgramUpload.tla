--------------------------- MODULE ProgramUpload ---------------------------
(* What a PUT on /vm-control does to the WasmHandler before it decides what  *)
(* to answer.  The code is the same in the persistent and in the ephemeral   *)
(* examples; `h` is the handler as the request finds it.                     *)
EXTENDS WasmHandler, CoapBlock1

\* deviations: no truncation at offset 0; every block stops the capsule
BegunKeepingProgram(h, b) == IF Offset(b) = 0 THEN Stop(h) ELSE h

BegunStopping(h, b) == IF Offset(b) = 0
                       THEN [Stop(h) EXCEPT !.program = <<>>]
                       ELSE Stop(h)

\* a block at offset 0 stops the capsule and empties the buffer, at once
Begun(h, b) == IF Offset(b) = 0
               THEN [Stop(h) EXCEPT !.program = <<>>]
               ELSE h

\* deviation: a block is appended wherever it belongs
FitsAnywhere(h, b) == MayMutateProgram(Begun(h, b))

\* the buffer may be changed, and ends where the block begins
Fits(h, b) == /\ MayMutateProgram(Begun(h, b))
              /\ Len(Begun(h, b).program) = Offset(b)

\* deviation: push in the place of extend_from_slice
ExtendedByPush(h, b) == [Begun(h, b) EXCEPT !.program = Append(@, b.payload)]

Extended(h, b) == [Begun(h, b) EXCEPT !.program = @ \o b.payload]
=============================================================================
